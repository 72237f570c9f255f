---------------------------- MODULE LearningProofs ----------------------------
(***************************************************************************)
(* What the learning record and the open content guarantee: the editor and *)
(* the first page of the record for any number of entries and contents,    *)
(* the sittings for any number of achievements, steps, sittings and        *)
(* visits, any length of the two idle windows and however long the clock   *)
(* runs, and the pages of the open content for any number of clicks on     *)
(* them and of requests on the wire.                                       *)
(***************************************************************************)
EXTENDS MCLearning, SequenceTheorems, TLAPS

-----------------------------------------------------------------------------
(* The editor *)

\* An entry of the list the editor reads, and what it keeps of one until it is sent.
Row == [id : Ids, content : Contents]

\* The entries of a record, by their ids.
Draft == [Ids -> Contents \cup {None}]

\* Types of the parts of the editor the argument is about.
EditorTyped ==
  /\ server \in Draft /\ entries \in Draft /\ stored \in Row \cup {None}
  /\ open \in Ids \cup {None} /\ written \in Contents \cup {None} /\ timer \in BOOLEAN
  /\ strays \subseteq Editor!Request

\* A closed editor waits for nothing; an open one knows the rows it was given or has created,
\* and has written what the list shows, or nothing yet.
PageInv ==
  /\ open = None => saves = <<>> /\ label = "idle" /\ ~timer
  /\ known = {i \in Ids : entries[i] # None}
  /\ open # None => shown \in Contents /\ written \in {None, entries[open]}

\* A save on the wire creates the row exactly if the page knows of none.
Begins(a) == a.sent /\ a.content \in Contents /\ (a.create <=> open \notin known)

\* A save behind another has not begun, and was asked for in view of the entry as it is.
Waits(b) == ~b.sent /\ b.seen = entries[open]

\* At most one save is on the wire and one behind it; a save that was overtaken, by an edit or
\* by another, is not the latest.
QueueInv ==
  \/ saves = <<>>
  \/ \E a \in Editor!Save : saves = <<a>> /\ Begins(a) /\ (timer => ~a.latest)
  \/ \E a, b \in Editor!Save :
       saves = <<a, b>> /\ Begins(a) /\ ~a.latest /\ Waits(b) /\ (timer => ~b.latest)

\* Unless an answer was lost, the server holds what the page shows as saved; what was abandoned
\* is in doubt.
ServerInv ==
  open # None => /\ open \notin doubt => server[open] = entries[open]
                 /\ \A s \in strays : s.id \in doubt

\* Under "Saved" nothing waits and the screen shows the saved entry.
LabelInv == label = "saved" => saves = <<>> /\ ~timer /\ shown = entries[open]

\* The inductive invariant.
EditorInv == EditorTyped /\ PageInv /\ QueueInv /\ ServerInv /\ LabelInv

\* Overtaking a queue of one marks its save.
LEMMA OneOvertaken ==
  ASSUME NEW a
  PROVE  Editor!Overtaken(<<a>>) = <<[a EXCEPT !.latest = FALSE]>>
<1> DEFINE q == <<a>>
           x == [a EXCEPT !.latest = FALSE]
<1>1. DOMAIN q = 1..1 /\ q[1] = a
  OBVIOUS
<1> HIDE DEF q
<1>2. Editor!Overtaken(q) = [n \in 1..1 |-> [q[n] EXCEPT !.latest = FALSE]]
  BY <1>1 DEF Editor!Overtaken
<1>3. \A n \in 1..1 : [q[n] EXCEPT !.latest = FALSE] = x
  <2> TAKE n \in 1..1
  <2>1. q[n] = a
    BY <1>1
  <2> QED BY <2>1, Zenon
<1> HIDE DEF x
<1>4. [n \in 1..1 |-> [q[n] EXCEPT !.latest = FALSE]] = [n \in 1..1 |-> x]
  BY <1>3
<1>5. [n \in 1..1 |-> x] = <<x>>
  OBVIOUS
<1> QED BY <1>2, <1>4, <1>5 DEF x, q

\* Overtaking a queue of two marks both.
LEMMA TwoOvertaken ==
  ASSUME NEW a, NEW b
  PROVE  Editor!Overtaken(<<a, b>>)
           = <<[a EXCEPT !.latest = FALSE], [b EXCEPT !.latest = FALSE]>>
<1> DEFINE q == <<a, b>>
           x == [a EXCEPT !.latest = FALSE]
           y == [b EXCEPT !.latest = FALSE]
<1>1. DOMAIN q = 1..2 /\ q[1] = a /\ q[2] = b
  OBVIOUS
<1> HIDE DEF q
<1>2. Editor!Overtaken(q) = [n \in 1..2 |-> [q[n] EXCEPT !.latest = FALSE]]
  BY <1>1 DEF Editor!Overtaken
<1>3. \A n \in 1..2 : [q[n] EXCEPT !.latest = FALSE] = IF n = 1 THEN x ELSE y
  <2> TAKE n \in 1..2
  <2>1. IF n = 1 THEN q[n] = a ELSE q[n] = b
    BY <1>1
  <2> QED BY <2>1, Zenon
<1> HIDE DEF x, y
<1>4. [n \in 1..2 |-> [q[n] EXCEPT !.latest = FALSE]] = [n \in 1..2 |-> IF n = 1 THEN x ELSE y]
  BY <1>3
<1>5. [n \in 1..2 |-> IF n = 1 THEN x ELSE y] = <<x, y>>
  OBVIOUS
<1> QED BY <1>2, <1>4, <1>5 DEF x, y, q

\* Appending to a queue of one makes a queue of two.
LEMMA Appended ==
  ASSUME NEW a, NEW b
  PROVE  Append(<<a>>, b) = <<a, b>>
<1>1. <<a>> \in Seq({a, b}) /\ <<a, b>> \in Seq({a, b}) /\ Len(<<a>>) = 1 /\ Len(<<a, b>>) = 2
  OBVIOUS
<1>2. /\ Append(<<a>>, b) \in Seq({a, b}) /\ Len(Append(<<a>>, b)) = 2
      /\ Append(<<a>>, b)[1] = a /\ Append(<<a>>, b)[2] = b
  BY <1>1, AppendProperties
<1>3. <<a, b>>[1] = a /\ <<a, b>>[2] = b
  OBVIOUS
<1>4. \A i \in 1..Len(Append(<<a>>, b)) : Append(<<a>>, b)[i] = <<a, b>>[i]
  BY <1>2, <1>3
<1> QED BY <1>1, <1>2, <1>4, SeqEqual

\* A queue stays what it was when it is overtaken, and its saves are no longer the latest.
LEMMA OvertakenQueue ==
  ASSUME EditorInv
  PROVE  \/ saves = <<>> /\ Editor!Overtaken(saves) = <<>>
         \/ \E a, c \in Editor!Save :
              saves = <<a>> /\ Editor!Overtaken(saves) = <<c>> /\ Begins(c) /\ ~c.latest
         \/ \E a, b, c, d \in Editor!Save :
              /\ saves = <<a, b>> /\ Editor!Overtaken(saves) = <<c, d>>
              /\ Begins(c) /\ ~c.latest /\ Waits(d) /\ ~d.latest
<1>1. CASE saves = <<>>
  BY <1>1 DEF Editor!Overtaken
<1>2. ASSUME NEW a \in Editor!Save, Begins(a)
      PROVE  [a EXCEPT !.latest = FALSE] \in Editor!Save /\ Begins([a EXCEPT !.latest = FALSE])
             /\ ~[a EXCEPT !.latest = FALSE].latest
  BY <1>2 DEF Begins, Editor!Save
<1>3. ASSUME NEW b \in Editor!Save, Waits(b)
      PROVE  [b EXCEPT !.latest = FALSE] \in Editor!Save /\ Waits([b EXCEPT !.latest = FALSE])
             /\ ~[b EXCEPT !.latest = FALSE].latest
  BY <1>3 DEF Waits, Editor!Save
<1>4. ASSUME NEW a \in Editor!Save, saves = <<a>>, Begins(a)
      PROVE  \E c \in Editor!Save : Editor!Overtaken(saves) = <<c>> /\ Begins(c) /\ ~c.latest
  BY <1>2, <1>4, OneOvertaken
<1>5. ASSUME NEW a \in Editor!Save, NEW b \in Editor!Save, saves = <<a, b>>, Begins(a), Waits(b)
      PROVE  \E c, d \in Editor!Save :
               /\ Editor!Overtaken(saves) = <<c, d>>
               /\ Begins(c) /\ ~c.latest /\ Waits(d) /\ ~d.latest
  BY <1>2, <1>3, <1>5, TwoOvertaken
<1> QED BY <1>1, <1>4, <1>5 DEF EditorInv, QueueInv

\* What is left of a queue when the editor closes are requests for its entry.
LEMMA LeftIs ==
  ASSUME open \in Ids, shown \in Contents, NEW q,
         \A n \in DOMAIN q : q[n].sent => q[n].content \in Contents /\ q[n].create \in BOOLEAN
  PROVE  Editor!Left(q) \subseteq Editor!Request /\ \A s \in Editor!Left(q) : s.id = open
BY DEF Editor!Left, Editor!Request

\* A save of the queue that is on the wire carries a content.
LEMMA QueueLeft ==
  ASSUME EditorInv
  PROVE  \A n \in DOMAIN saves : saves[n].sent =>
           saves[n].content \in Contents /\ saves[n].create \in BOOLEAN
BY DEF EditorInv, QueueInv, Begins, Waits, Editor!Save

\* A closed editor satisfies the invariant, whatever the server holds.
LEMMA ClosedKeeps ==
  ASSUME EditorInv, Editor!Closed, server' \in Draft, stored' \in Row \cup {None},
         strays' \subseteq Editor!Request, Editor!EditorAssumption
  PROVE  EditorInv'
<1>1. entries' = [i \in Ids |-> None] /\ open' = None /\ saves' = <<>> /\ label' = "idle"
      /\ timer' = FALSE /\ written' = None /\ known' = {}
  BY DEF Editor!Closed
<1>2. EditorTyped'
  BY <1>1 DEF EditorTyped, Draft, Row
<1>3. PageInv' /\ QueueInv' /\ ServerInv' /\ LabelInv'
  BY <1>1 DEF PageInv, QueueInv, ServerInv, LabelInv
<1> QED BY <1>2, <1>3 DEF EditorInv

\* An editor that opens shows what it fetched, what its tab kept or a blank entry.
LEMMA OpenEntryKeeps ==
  ASSUME EditorInv, Editor!OpenEntry, Editor!EditorAssumption
  PROVE  EditorInv'
<1>0. PICK fetched \in Editor!Fetched :
        /\ \E id \in Editor!NewRow(fetched) \cup Editor!LastRow(fetched)
                    \cup {i \in Ids : fetched[i] # None} : Editor!Open(id, fetched)
        /\ doubt' = {s.id : s \in strays} \cup {i \in Ids : server[i] # fetched[i]}
  BY DEF Editor!OpenEntry
<1>1. PICK id \in Editor!NewRow(fetched) \cup Editor!LastRow(fetched)
                \cup {i \in Ids : fetched[i] # None} : Editor!Open(id, fetched)
  BY <1>0
<1>2. UNCHANGED <<server, strays>> /\ open = None
  BY DEF Editor!OpenEntry
<1>3. fetched \in Draft
  BY DEF Editor!Fetched, EditorInv, EditorTyped, Draft
<1>4. id \in Ids
  <2>1. stored # None => stored.id \in Ids
    BY DEF EditorInv, EditorTyped, Row
  <2>2. Editor!NewRow(fetched) \subseteq Ids
    BY <2>1 DEF Editor!NewRow, Editor!Reusable, Editor!Fresh
  <2>3. Editor!LastRow(fetched) \subseteq Ids
    BY <2>1, <2>2 DEF Editor!LastRow
  <2> QED BY <2>2, <2>3
<1> DEFINE content == Editor!StartContent(id, fetched)
<1>5. content \in Contents
  BY <1>3, <1>4
     DEF Editor!StartContent, EditorInv, EditorTyped, Row, Draft, Editor!EditorAssumption
<1>6. /\ open' = id /\ shown' = content /\ entries' = fetched
      /\ known' = {i \in Ids : fetched[i] # None}
      /\ stored' = [id |-> id, content |-> content]
      /\ timer' \in BOOLEAN /\ (label' = "saved" => ~timer' /\ fetched[id] = content)
      /\ saves' = <<>> /\ written' = None
  BY <1>1 DEF Editor!Open
<1>7. EditorTyped'
  BY <1>2, <1>3, <1>4, <1>5, <1>6 DEF EditorInv, EditorTyped, Row
<1>8. PageInv' /\ QueueInv' /\ LabelInv'
  BY <1>4, <1>5, <1>6 DEF PageInv, QueueInv, LabelInv, Editor!EditorAssumption
<1>9. ServerInv'
  BY <1>0, <1>2, <1>4, <1>6 DEF ServerInv
<1> QED BY <1>7, <1>8, <1>9 DEF EditorInv

\* What the rest of the page does touches neither the queue nor the open entry.
LEMMA ElsewhereKeeps ==
  ASSUME EditorInv,
         \/ Editor!StoreSession
         \/ \E id \in Ids : Editor!Delete(id)
         \/ UNCHANGED editorVars
  PROVE  EditorInv'
<1>1. UNCHANGED <<open, entries, known, shown, timer, saves, written, label, strays, doubt>>
  BY DEF Editor!StoreSession, Editor!Delete, Editor!page, editorVars
<1>2. server' \in Draft /\ (open # None => server' = server)
  <2>1. CASE \E id \in Ids : Editor!Delete(id)
    BY <2>1 DEF Editor!Delete, EditorInv, EditorTyped, Draft
  <2>2. CASE ~\E id \in Ids : Editor!Delete(id)
    BY <2>2 DEF Editor!StoreSession, editorVars, EditorInv, EditorTyped
  <2> QED BY <2>1, <2>2
<1>3. stored' \in Row \cup {None}
  BY DEF Editor!StoreSession, Editor!Delete, editorVars, EditorInv, EditorTyped, PageInv, Row
<1>4. EditorTyped'
  BY <1>1, <1>2, <1>3 DEF EditorInv, EditorTyped
<1>5. PageInv' /\ LabelInv'
  BY <1>1 DEF EditorInv, PageInv, LabelInv
<1>6. QueueInv'
  BY <1>1 DEF EditorInv, QueueInv, Begins, Waits
<1>7. ServerInv'
  BY <1>1, <1>2 DEF EditorInv, ServerInv
<1> QED BY <1>4, <1>5, <1>6, <1>7 DEF EditorInv

\* Leaving abandons the queue.
LEMMA LeaveKeeps ==
  ASSUME EditorInv, Editor!Leave, Editor!EditorAssumption
  PROVE  EditorInv'
<1>1. open \in Ids /\ shown \in Contents
  BY DEF EditorInv, EditorTyped, PageInv, Editor!Leave
<1>2. Editor!Left(saves) \subseteq Editor!Request
  BY <1>1, QueueLeft, LeftIs
<1>3. Editor!Closed /\ strays' = strays \cup Editor!Left(saves) /\ UNCHANGED <<server, stored>>
  BY DEF Editor!Leave, Editor!Abandon
<1> QED BY <1>2, <1>3, ClosedKeeps DEF EditorInv, EditorTyped

\* An edit overtakes the saves before it, and arms the timer unless it undoes the change.
LEMMA EditKeeps ==
  ASSUME EditorInv, NEW content \in Contents, Editor!Edit(content)
  PROVE  EditorInv'
<1>1. /\ open # None /\ shown' = content
      /\ UNCHANGED <<server, stored, open, entries, known, written, strays, doubt>>
      /\ \/ content = entries[open] /\ timer' = FALSE /\ saves' = saves /\ label' = label
         \/ content # entries[open] /\ timer' = TRUE /\ saves' = Editor!Overtaken(saves)
            /\ label' = "pending"
  BY DEF Editor!Edit, Editor!AutosaveEffect
<1>2. EditorTyped'
  BY <1>1 DEF EditorInv, EditorTyped
<1>3. PageInv'
  BY <1>1 DEF EditorInv, PageInv
<1>4. ServerInv'
  BY <1>1 DEF EditorInv, ServerInv
<1>5. LabelInv'
  BY <1>1 DEF EditorInv, LabelInv
<1>6. QueueInv'
  <2>1. CASE saves' = saves /\ timer' = FALSE
    BY <1>1, <2>1 DEF EditorInv, QueueInv, Begins, Waits
  <2>2. CASE saves' = Editor!Overtaken(saves)
    BY <1>1, <2>2, OvertakenQueue DEF QueueInv, Begins, Waits
  <2> QED BY <1>1, <2>1, <2>2
<1> QED BY <1>2, <1>3, <1>4, <1>5, <1>6 DEF EditorInv

\* A save that is appended to the queue, which is empty or holds one on the wire.
LEMMA EnqueuedIs ==
  ASSUME EditorInv, open # None, NEW q, NEW kind \in {"auto", "finish"},
         q = <<>> \/ \E c \in Editor!Save : q = <<c>> /\ Begins(c) /\ ~c.latest
  PROVE  \/ \E a \in Editor!Save : Editor!Enqueued(q, kind) = <<a>> /\ Begins(a)
         \/ \E a, b \in Editor!Save :
              Editor!Enqueued(q, kind) = <<a, b>> /\ Begins(a) /\ ~a.latest /\ Waits(b)
<1> DEFINE save == [kind |-> kind, latest |-> TRUE, seen |-> entries[open],
                    sent |-> FALSE, content |-> None, create |-> FALSE]
           begun == Editor!Begun(save, shown, open \in known)
<1>1. entries[open] \in Contents \cup {None} /\ shown \in Contents
  BY DEF EditorInv, EditorTyped, PageInv, Draft
<1>2. save \in Editor!Save /\ Waits(save)
  BY <1>1 DEF Editor!Save, Waits
<1>3. begun \in Editor!Save /\ Begins(begun)
  BY <1>1 DEF Editor!Save, Editor!Begun, Begins
<1>4. CASE q = <<>>
  <2>1. Editor!Enqueued(q, kind) = <<begun>>
    BY <1>4 DEF Editor!Enqueued, Editor!MayBegin
  <2> QED BY <1>3, <2>1
<1>5. ASSUME NEW c \in Editor!Save, q = <<c>>, Begins(c), ~c.latest
      PROVE  Editor!Enqueued(q, kind) = <<c, save>>
  <2>1. Editor!Enqueued(q, kind) = Append(q, save)
    BY <1>5 DEF Editor!Enqueued, Editor!MayBegin
  <2> QED BY <1>5, <2>1, Appended
<1> QED BY <1>2, <1>4, <1>5

\* The timer enqueues a save, or says "Saved" when there is nothing to write.
LEMMA TimerFiresKeeps ==
  ASSUME EditorInv, Editor!TimerFires, Editor!EditorAssumption
  PROVE  EditorInv'
<1>1. /\ timer /\ timer' = FALSE /\ Len(saves) < MaxQueue /\ MaxQueue \in 1..2
      /\ UNCHANGED <<server, stored, open, entries, known, shown, written, strays, doubt>>
      /\ IF Editor!NothingToWrite(saves) THEN label' = "saved" /\ saves' = saves
         ELSE label' = "saving" /\ saves' = Editor!Enqueued(saves, "auto")
  BY DEF Editor!TimerFires, Editor!EditorAssumption
<1>2. open # None /\ shown \in Contents
  BY <1>1 DEF EditorInv, PageInv
<1>3. EditorTyped'
  BY <1>1 DEF EditorInv, EditorTyped
<1>4. PageInv'
  BY <1>1, <1>2 DEF EditorInv, PageInv
<1>5. ServerInv'
  BY <1>1 DEF EditorInv, ServerInv
<1>6. saves = <<>> \/ \E c \in Editor!Save : saves = <<c>> /\ Begins(c) /\ ~c.latest
  BY <1>1 DEF EditorInv, QueueInv
<1>7. CASE Editor!NothingToWrite(saves)
  <2>1. saves = <<>> /\ shown \in {entries[open], written}
    BY <1>6, <1>7 DEF Editor!NothingToWrite, Editor!MayBegin
  <2>2. shown = entries[open]
    BY <1>2, <2>1 DEF EditorInv, PageInv, Editor!EditorAssumption
  <2>3. QueueInv' /\ LabelInv'
    BY <1>1, <1>7, <2>1, <2>2 DEF QueueInv, LabelInv
  <2> QED BY <1>3, <1>4, <1>5, <2>3 DEF EditorInv
<1>8. CASE ~Editor!NothingToWrite(saves)
  <2>1. \/ \E a \in Editor!Save : saves' = <<a>> /\ Begins(a)
        \/ \E a, b \in Editor!Save : saves' = <<a, b>> /\ Begins(a) /\ ~a.latest /\ Waits(b)
    BY <1>1, <1>2, <1>6, <1>8, EnqueuedIs
  <2>2. QueueInv' /\ LabelInv'
    BY <1>1, <1>8, <2>1 DEF QueueInv, LabelInv, Begins, Waits
  <2> QED BY <1>3, <1>4, <1>5, <2>2 DEF EditorInv
<1> QED BY <1>7, <1>8

\* Finish enqueues a save that closes the editor, or closes it at once.
LEMMA FinishEditKeeps ==
  ASSUME EditorInv, Editor!Finish, Editor!EditorAssumption
  PROVE  EditorInv'
<1>1. open # None /\ Len(saves) < MaxQueue /\ MaxQueue \in 1..2 /\ UNCHANGED <<server, stored>>
  BY DEF Editor!Finish, Editor!EditorAssumption
<1>2. CASE Editor!NothingToWrite(saves)
  <2>1. Editor!Closed /\ strays' = strays
    BY <1>2 DEF Editor!Finish
  <2> QED BY <1>1, <2>1, ClosedKeeps DEF EditorInv, EditorTyped
<1>3. CASE ~Editor!NothingToWrite(saves)
  <2>1. /\ timer' = FALSE /\ label' = "saving"
        /\ saves' = Editor!Enqueued(Editor!Overtaken(saves), "finish")
        /\ UNCHANGED <<open, entries, known, shown, written, strays, doubt>>
    BY <1>3 DEF Editor!Finish
  <2>2. \/ Editor!Overtaken(saves) = <<>>
        \/ \E c \in Editor!Save : Editor!Overtaken(saves) = <<c>> /\ Begins(c) /\ ~c.latest
    <3>1. ~\E a, b : saves = <<a, b>>
      BY <1>1
    <3> QED BY <3>1, OvertakenQueue
  <2>3. \/ \E a \in Editor!Save : saves' = <<a>> /\ Begins(a)
        \/ \E a, b \in Editor!Save : saves' = <<a, b>> /\ Begins(a) /\ ~a.latest /\ Waits(b)
    BY <1>1, <2>1, <2>2, EnqueuedIs
  <2>4. QueueInv' /\ LabelInv'
    BY <2>1, <2>3 DEF QueueInv, LabelInv, Begins, Waits
  <2>5. EditorTyped' /\ PageInv' /\ ServerInv'
    BY <1>1, <2>1 DEF EditorInv, EditorTyped, PageInv, ServerInv
  <2> QED BY <2>4, <2>5 DEF EditorInv
<1> QED BY <1>2, <1>3

\* An abandoned request changes the rows of entries that are in doubt, if any are open.
LEMMA StrayEndsKeeps ==
  ASSUME EditorInv, NEW s \in strays, Editor!StrayEnds(s)
  PROVE  EditorInv'
<1>1. s \in Editor!Request /\ s.id \in Ids /\ s.content \in Contents
  BY DEF EditorInv, EditorTyped, Editor!Request
<1>2. UNCHANGED <<stored, open, entries, known, shown, timer, saves, written, label, doubt>>
  BY DEF Editor!StrayEnds, Editor!page
<1>3. /\ server' \in {server, Editor!AfterRequest(s)}
      /\ \E ok \in BOOLEAN : strays' = (strays \ {s}) \cup Editor!Followed(s, ok)
  BY DEF Editor!StrayEnds, Editor!Accepted
<1>4. server' \in Draft /\ \A i \in Ids : i # s.id => server'[i] = server[i]
  <2>1. server \in Draft
    BY DEF EditorInv, EditorTyped
  <2> QED BY <1>1, <1>3, <2>1 DEF Editor!AfterRequest, Draft
<1>5. \A ok \in BOOLEAN : /\ Editor!Followed(s, ok) \subseteq Editor!Request
                          /\ \A r \in Editor!Followed(s, ok) : r.id = s.id
  <2> TAKE ok \in BOOLEAN
  <2>1. CASE Editor!Followed(s, ok) = {}
    BY <2>1
  <2>2. CASE Editor!Followed(s, ok) # {}
    <3>1. /\ s.next # None
          /\ \E create \in BOOLEAN :
               Editor!Followed(s, ok)
                 = {[id |-> s.id, content |-> s.next, create |-> create, next |-> None]}
      BY <1>1, <2>2 DEF Editor!Followed, Editor!Request
    <3>2. s.next \in Contents
      BY <1>1, <3>1 DEF Editor!Request
    <3> QED BY <1>1, <3>1, <3>2 DEF Editor!Request
  <2> QED BY <2>1, <2>2
<1>6. EditorTyped'
  BY <1>2, <1>3, <1>4, <1>5 DEF EditorInv, EditorTyped
<1>7. PageInv' /\ LabelInv' /\ QueueInv'
  BY <1>2 DEF EditorInv, PageInv, LabelInv, QueueInv, Begins, Waits
<1>8. ServerInv'
  BY <1>2, <1>3, <1>4, <1>5 DEF EditorInv, EditorTyped, ServerInv
<1> QED BY <1>6, <1>7, <1>8 DEF EditorInv

\* The save that is over and the one behind it, if there is one.
LEMMA SettledQueue ==
  ASSUME EditorInv, NEW n \in DOMAIN saves, saves[n].sent
  PROVE  /\ n = 1 /\ saves[1] \in Editor!Save /\ Begins(saves[1])
         /\ \/ Editor!Without(1) = <<>> /\ saves = <<saves[1]>>
            \/ \E b \in Editor!Save :
                 /\ saves = <<saves[1], b>> /\ Editor!Without(1) = <<b>> /\ Waits(b)
                 /\ ~saves[1].latest /\ (timer => ~b.latest)
<1>1. saves # <<>>
  OBVIOUS
<1>2. ASSUME NEW a \in Editor!Save, saves = <<a>>, Begins(a)
      PROVE  n = 1 /\ saves[1] = a /\ Editor!Without(1) = <<>>
  BY <1>2 DEF Editor!Without
<1>3. ASSUME NEW a \in Editor!Save, NEW b \in Editor!Save, saves = <<a, b>>, Begins(a), Waits(b)
      PROVE  n = 1 /\ saves[1] = a /\ Editor!Without(1) = <<b>>
  <2>1. n = 1 /\ saves[1] = a
    BY <1>3 DEF Waits
  <2>2. Editor!Without(1) = <<b>>
    BY <1>3 DEF Editor!Without
  <2> QED BY <2>1, <2>2
<1> QED BY <1>1, <1>2, <1>3 DEF EditorInv, QueueInv

\* The save that was waiting begins, or is skipped when there is nothing left to write.
LEMMA NextBegunIs ==
  ASSUME shown \in Contents, NEW isKnown \in BOOLEAN, NEW last,
         NEW b \in Editor!Save, ~b.sent
  PROVE  /\ Editor!NextSkips(<<b>>, last) <=> Editor!Skips(b, shown, last)
         /\ Editor!NextSkips(<<b>>, last) => Editor!NextBegun(<<b>>, last, isKnown) = <<>>
         /\ ~Editor!NextSkips(<<b>>, last) =>
              \E c \in Editor!Save :
                /\ Editor!NextBegun(<<b>>, last, isKnown) = <<c>> /\ c.latest = b.latest
                /\ c.sent /\ c.content = shown /\ (c.create <=> ~isKnown)
<1> DEFINE q == <<b>>
           c == Editor!Begun(b, shown, isKnown)
<1>1. q # <<>> /\ q[1] = b /\ Tail(q) = <<>> /\ [q EXCEPT ![1] = c] = <<c>>
  OBVIOUS
<1>2. /\ c \in Editor!Save /\ c.latest = b.latest
      /\ c.sent /\ c.content = shown /\ (c.create <=> ~isKnown)
  BY DEF Editor!Begun, Editor!Save
<1> HIDE DEF q, c
<1>3. Editor!NextSkips(q, last) <=> Editor!Skips(b, shown, last)
  BY <1>1 DEF Editor!NextSkips
<1>4. Editor!NextBegun(q, last, isKnown) = IF Editor!NextSkips(q, last) THEN <<>> ELSE <<c>>
  <2>1. Editor!Begun(q[1], shown, isKnown) = c
    BY <1>1 DEF c
  <2> QED BY <1>1, <2>1 DEF Editor!NextBegun
<1> QED BY <1>2, <1>3, <1>4 DEF q

\* A save that succeeded: the list shows what was sent and the next save begins, or the editor
\* closes.
LEMMA SaveSucceedsKeeps ==
  ASSUME EditorInv, Editor!EditorAssumption, NEW n \in DOMAIN saves, Editor!SaveSucceeds(n)
  PROVE  EditorInv'
<1> DEFINE a == saves[1]
           rest == Editor!NextBegun(Editor!Without(1), a.content, TRUE)
<1>1. /\ open \in Ids /\ shown \in Contents /\ server \in Draft /\ entries \in Draft
      /\ UNCHANGED stored
  BY DEF Editor!SaveSucceeds, EditorInv, EditorTyped, PageInv
<1>2. /\ n = 1 /\ a \in Editor!Save /\ Begins(a)
      /\ \/ Editor!Without(1) = <<>> /\ saves = <<a>>
         \/ \E b \in Editor!Save :
              /\ saves = <<a, b>> /\ Editor!Without(1) = <<b>> /\ Waits(b)
              /\ ~a.latest /\ (timer => ~b.latest)
  BY SettledQueue DEF Editor!SaveSucceeds
<1>3. a.content \in Contents /\ a.create \in BOOLEAN /\ a.content # None
  BY <1>2 DEF Begins, Editor!Save, Editor!EditorAssumption
<1>4. /\ server' = Editor!AfterRequest(Editor!Sent(1)) /\ Editor!Accepted(Editor!Sent(1))
      /\ IF Editor!Finishes(1, TRUE, a.content) THEN Editor!Abandon(rest)
         ELSE /\ entries' = [entries EXCEPT ![open] = a.content]
              /\ known' = known \cup {open} /\ written' = a.content
              /\ label' = Editor!LabelAfter(1, TRUE, a.content)
              /\ shown' = a.content /\ timer' = FALSE /\ saves' = rest
              /\ UNCHANGED <<open, strays, doubt>>
  BY <1>2 DEF Editor!SaveSucceeds
<1>5. /\ Editor!Sent(1).id = open /\ Editor!Sent(1).content = a.content
      /\ Editor!Sent(1).create = a.create
  BY DEF Editor!Sent
<1>6. /\ server' \in Draft
      /\ server'[open] = (IF a.create \/ server[open] # None THEN a.content ELSE None)
  BY <1>1, <1>3, <1>4, <1>5 DEF Editor!AfterRequest, Editor!Accepted, Draft
<1>7. \/ rest = <<>>
      \/ \E c \in Editor!Save : rest = <<c>> /\ c.sent /\ c.content = shown /\ ~c.create
  <2>1. CASE Editor!Without(1) = <<>>
    BY <2>1 DEF Editor!NextBegun
  <2>2. ASSUME NEW b \in Editor!Save, Editor!Without(1) = <<b>>, Waits(b)
        PROVE  \/ rest = <<>>
               \/ \E c \in Editor!Save : rest = <<c>> /\ c.sent /\ c.content = shown /\ ~c.create
    <3> DEFINE q == Editor!Without(1)
    <3>1. ~b.sent
      BY <2>2 DEF Waits
    <3>2. \A k \in BOOLEAN :
            \/ Editor!NextBegun(q, a.content, k) = <<>>
            \/ \E c \in Editor!Save :
                 /\ Editor!NextBegun(q, a.content, k) = <<c>>
                 /\ c.sent /\ c.content = shown /\ (c.create <=> ~k)
      BY <1>1, <2>2, <3>1, NextBegunIs
    <3> HIDE DEF q
    <3>3. \/ Editor!NextBegun(q, a.content, TRUE) = <<>>
          \/ \E c \in Editor!Save :
               /\ Editor!NextBegun(q, a.content, TRUE) = <<c>>
               /\ c.sent /\ c.content = shown /\ (c.create <=> ~TRUE)
      BY <3>2, Zenon
    <3> QED BY <3>3, Zenon DEF q
  <2> QED BY <1>2, <2>1, <2>2
<1>8. CASE Editor!Finishes(1, TRUE, a.content)
  <2>1. \A m \in DOMAIN rest : rest[m].sent =>
          rest[m].content \in Contents /\ rest[m].create \in BOOLEAN
    <3> HIDE DEF rest
    <3>1. ASSUME NEW c \in Editor!Save, rest = <<c>>, c.content = shown, NEW m \in DOMAIN rest
          PROVE  rest[m].content \in Contents /\ rest[m].create \in BOOLEAN
      <4>1. rest[m] = c
        BY <3>1
      <4> QED BY <1>1, <3>1, <4>1 DEF Editor!Save
    <3> QED BY <1>7, <3>1
  <2>2. Editor!Left(rest) \subseteq Editor!Request
    BY <1>1, <2>1, LeftIs
  <2>3. Editor!Closed /\ strays' = strays \cup Editor!Left(rest)
    BY <1>4, <1>8 DEF Editor!Abandon
  <2> QED BY <1>1, <1>6, <2>2, <2>3, ClosedKeeps DEF EditorInv, EditorTyped
<1>9. CASE ~Editor!Finishes(1, TRUE, a.content)
  <2>1. /\ entries' = [entries EXCEPT ![open] = a.content]
        /\ known' = known \cup {open} /\ written' = a.content
        /\ label' = Editor!LabelAfter(1, TRUE, a.content)
        /\ shown' = a.content /\ timer' = FALSE /\ saves' = rest
        /\ UNCHANGED <<open, strays, doubt>>
    BY <1>4, <1>9
  <2>2. entries' \in Draft /\ entries'[open] = a.content
    BY <1>1, <1>3, <2>1 DEF Draft
  <2>3. EditorTyped'
    BY <1>1, <1>3, <1>6, <2>1, <2>2 DEF EditorInv, EditorTyped
  <2>4. PageInv'
    <3>1. known' = {i \in Ids : entries'[i] # None}
      BY <1>1, <1>3, <2>1, <2>2 DEF EditorInv, PageInv, Draft
    <3> QED BY <1>1, <1>3, <2>1, <2>2, <3>1 DEF PageInv, Editor!EditorAssumption
  <2>5. QueueInv'
    BY <1>1, <1>7, <2>1 DEF QueueInv, Begins
  <2>6. ServerInv'
    <3>1. open \notin doubt => server[open] = entries[open]
      BY <1>1 DEF EditorInv, ServerInv, Editor!EditorAssumption
    <3>2. a.create \/ entries[open] # None
      BY <1>1, <1>2 DEF Begins, EditorInv, PageInv
    <3>3. open \notin doubt => server'[open] = a.content
      BY <1>6, <3>1, <3>2
    <3>4. \A s \in strays : s.id \in doubt
      BY <1>1 DEF EditorInv, ServerInv, Editor!EditorAssumption
    <3> QED BY <2>1, <2>2, <3>3, <3>4 DEF ServerInv
  <2>7. LabelInv'
    <3>1. label # "saved"
      BY <1>2 DEF EditorInv, LabelInv
    <3>2. ASSUME label' = "saved" PROVE rest = <<>>
      <4>1. CASE Editor!Without(1) = <<>>
        BY <4>1 DEF Editor!NextBegun
      <4>2. ASSUME NEW b \in Editor!Save, Editor!Without(1) = <<b>>, Waits(b), ~a.latest
            PROVE  rest = <<>>
        <5>1. ~b.sent
          BY <4>2 DEF Waits
        <5>2. CASE Editor!NextSkips(<<b>>, a.content)
          <6>1. \A k \in BOOLEAN : Editor!NextBegun(<<b>>, a.content, k) = <<>>
            BY <1>1, <4>2, <5>1, <5>2, NextBegunIs
          <6>2. Editor!NextBegun(<<b>>, a.content, TRUE) = <<>>
            BY <6>1, Zenon
          <6> QED BY <4>2, <6>2, Zenon
        <5>3. CASE ~Editor!NextSkips(<<b>>, a.content)
          <6>1. Editor!Owns(a)
            BY <2>1, <3>1, <3>2, <4>2, <5>3 DEF Editor!LabelAfter
          <6>2. a.kind = "finish"
            BY <4>2, <6>1 DEF Editor!Owns
          <6> QED BY <1>9, <6>2 DEF Editor!Finishes
        <5> QED BY <5>2, <5>3
      <4> QED BY <1>2, <4>1, <4>2
    <3> QED BY <2>1, <2>2, <3>2 DEF LabelInv
  <2> QED BY <2>3, <2>4, <2>5, <2>6, <2>7 DEF EditorInv
<1> QED BY <1>8, <1>9

\* A save that failed, or whose answer was lost, leaves its row in doubt; the next one begins.
LEMMA SaveFailsKeeps ==
  ASSUME EditorInv, Editor!EditorAssumption, NEW n \in DOMAIN saves, Editor!SaveFails(n)
  PROVE  EditorInv'
<1> DEFINE a == saves[1]
           rest == Editor!NextBegun(Editor!Without(1), written, open \in known)
<1>1. /\ open \in Ids /\ shown \in Contents /\ server \in Draft /\ entries \in Draft
      /\ open # None /\ UNCHANGED <<server, stored>>
  BY DEF Editor!SaveFails, EditorInv, EditorTyped, PageInv
<1>2. /\ n = 1 /\ a \in Editor!Save /\ Begins(a)
      /\ \/ Editor!Without(1) = <<>> /\ saves = <<a>>
         \/ \E b \in Editor!Save :
              /\ saves = <<a, b>> /\ Editor!Without(1) = <<b>> /\ Waits(b)
              /\ ~a.latest /\ (timer => ~b.latest)
  BY SettledQueue DEF Editor!SaveFails
<1>3. a.content \in Contents /\ a.create \in BOOLEAN
  BY <1>2 DEF Begins, Editor!Save
<1>4. PICK lost \in {{}, {Editor!Sent(1)}} :
        IF Editor!Finishes(1, FALSE, written)
        THEN Editor!Closed /\ strays' = strays \cup lost \cup Editor!Left(rest)
        ELSE /\ strays' = strays \cup lost /\ doubt' = doubt \cup {s.id : s \in lost}
             /\ saves' = rest /\ label' = Editor!LabelAfter(1, FALSE, written)
             /\ UNCHANGED <<open, entries, known, shown, timer, written>>
  BY <1>2 DEF Editor!SaveFails
<1>5. Editor!Sent(1) \in Editor!Request /\ Editor!Sent(1).id = open
  BY <1>1, <1>3 DEF Editor!Sent, Editor!Request
<1>6. \/ Editor!Without(1) = <<>> /\ rest = <<>>
      \/ \E b \in Editor!Save :
           /\ Editor!Without(1) = <<b>> /\ Waits(b) /\ (timer => ~b.latest)
           /\ \/ Editor!NextSkips(<<b>>, written) /\ rest = <<>> /\ shown \in {b.seen, written}
              \/ /\ ~Editor!NextSkips(<<b>>, written)
                 /\ \E c \in Editor!Save : /\ rest = <<c>> /\ c.sent /\ c.content = shown
                                           /\ (c.create <=> open \notin known)
                                           /\ c.latest = b.latest
  <2>1. CASE Editor!Without(1) = <<>>
    BY <2>1 DEF Editor!NextBegun
  <2>2. ASSUME NEW b \in Editor!Save, Editor!Without(1) = <<b>>, Waits(b), timer => ~b.latest
        PROVE  \/ Editor!NextSkips(<<b>>, written) /\ rest = <<>> /\ shown \in {b.seen, written}
               \/ /\ ~Editor!NextSkips(<<b>>, written)
                  /\ \E c \in Editor!Save : /\ rest = <<c>> /\ c.sent /\ c.content = shown
                                            /\ (c.create <=> open \notin known)
                                            /\ c.latest = b.latest
    <3>1. ~b.sent
      BY <2>2 DEF Waits
    <3>2. Editor!NextSkips(<<b>>, written) => shown \in {b.seen, written}
      BY <1>1, <3>1, NextBegunIs DEF Editor!Skips
    <3>3. \A k \in BOOLEAN :
            /\ Editor!NextSkips(<<b>>, written) => Editor!NextBegun(<<b>>, written, k) = <<>>
            /\ ~Editor!NextSkips(<<b>>, written) =>
                 \E c \in Editor!Save :
                   /\ Editor!NextBegun(<<b>>, written, k) = <<c>> /\ c.sent /\ c.content = shown
                   /\ (c.create <=> ~k) /\ c.latest = b.latest
      BY <1>1, <2>2, <3>1, NextBegunIs
    <3>4. /\ Editor!NextSkips(<<b>>, written) =>
               Editor!NextBegun(<<b>>, written, open \in known) = <<>>
          /\ ~Editor!NextSkips(<<b>>, written) =>
               \E c \in Editor!Save :
                 /\ Editor!NextBegun(<<b>>, written, open \in known) = <<c>>
                 /\ c.sent /\ c.content = shown
                 /\ (c.create <=> ~(open \in known)) /\ c.latest = b.latest
      <4>1. (open \in known) \in BOOLEAN
        OBVIOUS
      <4> QED BY <3>3, <4>1, Zenon
    <3>5. \/ Editor!NextSkips(<<b>>, written) /\ rest = <<>>
          \/ /\ ~Editor!NextSkips(<<b>>, written)
             /\ \E c \in Editor!Save :
                  /\ rest = <<c>> /\ c.sent /\ c.content = shown
                  /\ (c.create <=> open \notin known) /\ c.latest = b.latest
      BY <2>2, <3>4, Zenon
    <3> QED BY <3>2, <3>5
  <2> QED BY <1>2, <2>1, <2>2
<1>7. CASE Editor!Finishes(1, FALSE, written)
  <2>1. \A m \in DOMAIN rest : rest[m].sent =>
          rest[m].content \in Contents /\ rest[m].create \in BOOLEAN
    <3> HIDE DEF rest
    <3>1. ASSUME NEW c \in Editor!Save, rest = <<c>>, c.content = shown, NEW m \in DOMAIN rest
          PROVE  rest[m].content \in Contents /\ rest[m].create \in BOOLEAN
      <4>1. rest[m] = c
        BY <3>1
      <4> QED BY <1>1, <3>1, <4>1 DEF Editor!Save
    <3>2. rest = <<>> \/ \E c \in Editor!Save : rest = <<c>> /\ c.content = shown
      BY <1>6
    <3> QED BY <3>1, <3>2
  <2>2. Editor!Left(rest) \subseteq Editor!Request
    BY <1>1, <2>1, LeftIs
  <2>3. Editor!Closed /\ strays' = strays \cup lost \cup Editor!Left(rest)
    BY <1>4, <1>7
  <2> QED BY <1>1, <1>5, <2>2, <2>3, ClosedKeeps DEF EditorInv, EditorTyped
<1>8. CASE ~Editor!Finishes(1, FALSE, written)
  <2>1. /\ strays' = strays \cup lost /\ doubt' = doubt \cup {s.id : s \in lost}
        /\ saves' = rest /\ label' = Editor!LabelAfter(1, FALSE, written)
        /\ UNCHANGED <<open, entries, known, shown, timer, written>>
    BY <1>4, <1>8
  <2>2. EditorTyped'
    BY <1>1, <1>5, <2>1 DEF EditorInv, EditorTyped
  <2>3. PageInv'
    BY <1>1, <2>1 DEF EditorInv, PageInv
  <2>4. ServerInv'
    BY <1>1, <1>5, <2>1 DEF EditorInv, ServerInv
  <2>5. QueueInv'
    BY <1>1, <1>6, <2>1 DEF QueueInv, Begins
  <2>6. LabelInv'
    <3>1. label # "saved"
      BY <1>2 DEF EditorInv, LabelInv
    <3>2. ASSUME label' = "saved" PROVE rest = <<>> /\ ~timer /\ shown = entries[open]
      <4>1. Editor!NextSkips(Editor!Without(1), written) /\ Editor!Owns(Editor!Without(1)[1])
        BY <2>1, <3>1, <3>2 DEF Editor!LabelAfter
      <4>2. PICK b \in Editor!Save :
              /\ Editor!Without(1) = <<b>> /\ Waits(b) /\ (timer => ~b.latest)
              /\ Editor!NextSkips(<<b>>, written) /\ rest = <<>> /\ shown \in {b.seen, written}
        BY <1>6, <4>1 DEF Editor!NextSkips
      <4>3. b.kind # "finish" /\ Editor!Owns(b)
        BY <1>8, <4>1, <4>2 DEF Editor!Finishes
      <4>4. ~timer
        BY <4>2, <4>3 DEF Editor!Owns
      <4>5. shown = entries[open]
        BY <1>1, <4>2 DEF Waits, EditorInv, PageInv, Editor!EditorAssumption
      <4> QED BY <4>2, <4>4, <4>5
    <3> QED BY <2>1, <3>2 DEF LabelInv
  <2> QED BY <2>2, <2>3, <2>4, <2>5, <2>6 DEF EditorInv
<1> QED BY <1>7, <1>8

\* Every step of the learning record, of the open content or of its pages keeps the invariant.
LEMMA EditorStep ==
  ASSUME Editor!EditorAssumption, EditorInv, [Next]_vars
  PROVE  EditorInv'
<1>1. CASE Editor!Next
  BY <1>1, OpenEntryKeeps, LeaveKeeps, ElsewhereKeeps, TimerFiresKeeps, FinishEditKeeps,
     EditKeeps, StrayEndsKeeps, SaveSucceedsKeeps, SaveFailsKeeps
     DEF Editor!Next, Editor!Settles
<1>2. CASE UNCHANGED editorVars
  BY <1>2, ElsewhereKeeps
<1> QED BY <1>1, <1>2 DEF Next, vars, recordVars

\* The inductive invariant holds throughout.
THEOREM EditorHolds == Spec => []EditorInv
<1>1. Init => EditorInv
  BY DEF Init, Editor!Init, EditorInv, EditorTyped, PageInv, QueueInv, ServerInv, LabelInv, Draft
<1>2. EditorInv /\ [Next]_vars => EditorInv'
  BY EditorStep, LearningAssumption
<1> QED BY <1>1, <1>2, PTL DEF Spec

\* Two saves of one visit never both create the row, unless an answer was lost
\* (persistActiveRow).
THEOREM NoSecondCreateHolds == Spec => []NoSecondCreate
<1>1. EditorInv => NoSecondCreate
  <2> SUFFICES ASSUME EditorInv, NEW n \in DOMAIN saves, saves[n].sent, saves[n].create,
                      open \notin doubt
               PROVE  server[open] = None
    BY DEF NoSecondCreate, Editor!NoSecondCreate
  <2>1. n = 1 /\ Begins(saves[1]) /\ saves # <<>>
    BY SettledQueue
  <2>2. open # None /\ open \in Ids /\ open \notin known
    BY <2>1 DEF EditorInv, EditorTyped, PageInv, Begins
  <2> QED BY <2>2 DEF EditorInv, PageInv, ServerInv
<1> QED BY <1>1, EditorHolds, PTL

-----------------------------------------------------------------------------
(* The first page *)

\* The fields of a request and of the page's state.
RequestFields == {"op", "ids", "nth", "status", "rows"}
HomeFields == {"target", "sheet", "drawn", "acts", "busy", "doubt", "asked", "printed"}

\* At most one PDF of an entry is under way, it keeps the button busy and its entry drawn; a PDF
\* of all holds entries it was asked for; and what was saved is what was asked for.
HomeInv ==
  part = "home" =>
    /\ DOMAIN ui = HomeFields /\ \A q \in wire : DOMAIN q = RequestFields
    /\ \A q \in wire : q.op = "pdf" => "pdf" \in ui.busy /\ q.ids = ui.drawn
    /\ \A q, r \in wire : q.op = "pdf" /\ r.op = "pdf" => q = r
    /\ \A q \in wire : q.op = "all" => q.rows \subseteq q.ids
    /\ ui.printed = ui.asked

\* A request that draws a PDF.
Drawing(q) == q.op \in {"pdf", "all"}

\* What leaves the PDFs, their buttons and what is drawn alone keeps the invariant.
LEMMA HomeKept ==
  ASSUME HomeInv, part = "home", part' = part,
         \A q \in wire' : DOMAIN q = RequestFields /\ (Drawing(q) => q \in wire),
         DOMAIN ui' = HomeFields, ui'.drawn = ui.drawn, ui.busy \cap {"pdf"} \subseteq ui'.busy,
         ui'.printed = ui.printed, ui'.asked = ui.asked
  PROVE  HomeInv'
BY DEF HomeInv, Drawing

\* A request is for what it says.
LEMMA RequestIs ==
  ASSUME NEW op, NEW ids
  PROVE  /\ DOMAIN Home!Request(op, ids) = RequestFields
         /\ Home!Request(op, ids).op = op /\ Home!Request(op, ids).ids = ids
BY DEF Home!Request, RequestFields

\* The list and the dialogs draw nothing.
LEMMA DialogKeeps ==
  ASSUME HomeInv, part = "home", part' = part,
         \/ Home!Hydrated \/ Home!ListServed(held) \/ Home!CancelDelete \/ Home!ConfirmDelete
         \/ Home!OpenSheet \/ Home!CloseSheet \/ \E e \in Entries : Home!AskDelete(e)
  PROVE  HomeInv'
<1>1. DOMAIN ui = HomeFields /\ \A q \in wire : DOMAIN q = RequestFields
  BY DEF HomeInv
<1>2. CASE Home!Hydrated
  <2>1. /\ wire' \subseteq wire
        /\ \E d : ui' = [ui EXCEPT !.doubt = d]
    BY <1>2 DEF Home!Hydrated
  <2> QED BY <1>1, <2>1, HomeKept DEF HomeFields
<1>3. CASE Home!ListServed(held)
  <2>1. PICK q \in wire : /\ q.op = "list" /\ UNCHANGED ui
                          /\ wire' = (wire \ {q}) \cup {[q EXCEPT !.status = "done", !.rows = held]}
    BY <1>3 DEF Home!ListServed
  <2> DEFINE r == [q EXCEPT !.status = "done", !.rows = held]
  <2>2. DOMAIN r = RequestFields /\ r.op = "list"
    BY <1>1, <2>1 DEF RequestFields
  <2> HIDE DEF r
  <2>3. \A p \in wire' : p \in wire \/ p = r
    BY <2>1 DEF r
  <2> QED BY <1>1, <2>1, <2>2, <2>3, HomeKept DEF Drawing
<1>4. CASE Home!ConfirmDelete
  <2> DEFINE r == Home!Request("delete", {ui.target})
  <2>1. wire' = wire \cup {r} /\ ui' = [ui EXCEPT !.busy = ui.busy \cup {"delete"}]
    BY <1>4 DEF Home!ConfirmDelete, Home!Submitted
  <2>2. DOMAIN r = RequestFields /\ r.op = "delete"
    BY RequestIs
  <2> HIDE DEF r
  <2>3. \A p \in wire' : p \in wire \/ p = r
    BY <2>1
  <2> QED BY <1>1, <2>1, <2>2, <2>3, HomeKept DEF Drawing, HomeFields
<1>5. CASE ~(Home!Hydrated \/ Home!ListServed(held) \/ Home!ConfirmDelete)
  <2>1. /\ wire' = wire
        /\ \/ \E t : ui' = [ui EXCEPT !.target = t]
           \/ \E b : ui' = [ui EXCEPT !.sheet = b]
           \/ \E n, t : ui' = [ui EXCEPT !.acts = n, !.target = t]
    BY <1>5
       DEF Home!CancelDelete, Home!OpenSheet, Home!CloseSheet, Home!AskDelete, Home!Shows,
           Home!Once
  <2> QED BY <1>1, <2>1, HomeKept DEF HomeFields
<1> QED BY <1>2, <1>3, <1>4, <1>5

\* A PDF begins when no other of its kind is under way; a visit drops them all.
LEMMA PdfBegins ==
  ASSUME HomeInv, part = "home", part' = part,
         Home!DownloadAll \/ Home!Visit \/ \E e \in Entries : Home!Download(e)
  PROVE  HomeInv'
<1>1. DOMAIN ui = HomeFields /\ \A q \in wire : DOMAIN q = RequestFields
  BY DEF HomeInv
<1>2. CASE Home!DownloadAll
  <2> DEFINE r == [Home!Request("all", Home!Listed) EXCEPT !.rows = {}]
  <2>1. wire' = wire \cup {r}
        /\ ui' = [[ui EXCEPT !.acts = ui.acts + 1] EXCEPT !.busy = ui.busy \cup {"all"}]
    BY <1>1, <1>2 DEF Home!DownloadAll, Home!Submitted, Home!Once, HomeFields
  <2>2. DOMAIN r = RequestFields /\ r.op = "all" /\ r.rows = {}
    BY RequestIs DEF RequestFields
  <2> HIDE DEF r
  <2>3. /\ DOMAIN ui' = HomeFields /\ ui'.drawn = ui.drawn /\ ui.busy \subseteq ui'.busy
        /\ ui'.printed = ui.printed /\ ui'.asked = ui.asked
    BY <1>1, <2>1 DEF HomeFields
  <2>4. \A p \in wire' : p \in wire \/ p = r
    BY <2>1
  <2> QED BY <1>1, <2>2, <2>3, <2>4 DEF HomeInv
<1>3. CASE Home!Visit
  <2>1. ui' = [Home!Mounted EXCEPT !.acts = ui.acts + 1]
    BY <1>3 DEF Home!Visit
  <2>2. DOMAIN ui' = HomeFields /\ ui'.printed = {} /\ ui'.asked = {}
    BY <2>1 DEF Home!Mounted, HomeFields
  <2>3. wire' = {[q EXCEPT !.op = "stray"] : q \in Home!Pending("delete")}
                \cup Home!Pending("stray") \cup {Home!Fetch}
    BY <1>3 DEF Home!Visit
  <2>4. ASSUME NEW p \in wire' PROVE DOMAIN p = RequestFields /\ p.op \in {"stray", "list"}
    <3>1. CASE p = Home!Fetch
      BY <3>1 DEF Home!Fetch, RequestFields
    <3>2. CASE p \in Home!Pending("stray")
      BY <1>1, <3>2 DEF Home!Pending
    <3>3. CASE \E q \in Home!Pending("delete") : p = [q EXCEPT !.op = "stray"]
      BY <1>1, <3>3 DEF Home!Pending, RequestFields
    <3> QED BY <2>3, <3>1, <3>2, <3>3
  <2> QED BY <2>2, <2>4 DEF HomeInv
<1>4. ASSUME NEW e \in Entries, Home!Download(e) PROVE HomeInv'
  <2> DEFINE r == Home!Request("pdf", {e})
  <2>1. /\ wire' = wire \cup {r} /\ "pdf" \notin ui.busy
        /\ ui' = [[[ui EXCEPT !.acts = ui.acts + 1] EXCEPT !.busy = ui.busy \cup {"pdf"}]
                    EXCEPT !.drawn = {e}]
    BY <1>1, <1>4 DEF Home!Download, Home!Submitted, Home!Once, HomeFields
  <2>2. DOMAIN r = RequestFields /\ r.op = "pdf" /\ r.ids = {e}
    BY RequestIs
  <2> HIDE DEF r
  <2>3. /\ DOMAIN ui' = HomeFields /\ ui'.drawn = {e} /\ "pdf" \in ui'.busy
        /\ ui'.printed = ui.printed /\ ui'.asked = ui.asked
    BY <1>1, <2>1 DEF HomeFields
  <2>4. /\ \A p \in wire' : p \in wire \/ p = r
        /\ \A p \in wire : p.op # "pdf"
    BY <2>1 DEF HomeInv
  <2> QED BY <1>1, <2>2, <2>3, <2>4 DEF HomeInv
<1> QED BY <1>2, <1>3, <1>4

\* A PDF is captured, page by page or at once, or fails.
LEMMA PdfEnds ==
  ASSUME HomeInv, part = "home", part' = part, NEW q \in wire,
         Home!Captured(q) \/ Home!NextPage(q) \/ Home!SavedAll(q)
  PROVE  HomeInv'
<1>1. DOMAIN ui = HomeFields /\ \A p \in wire : DOMAIN p = RequestFields
  BY DEF HomeInv
<1>2. CASE Home!NextPage(q)
  <2>1. PICK e \in q.ids \ q.rows :
          wire' = (wire \ {q}) \cup {[q EXCEPT !.rows = q.rows \cup {e}]}
    BY <1>2 DEF Home!NextPage
  <2> DEFINE r == [q EXCEPT !.rows = q.rows \cup {e}]
  <2>2. q.op = "all" /\ q.rows \subseteq q.ids /\ UNCHANGED ui
    BY <1>2 DEF Home!NextPage, HomeInv
  <2>3. DOMAIN r = RequestFields /\ r.op = "all" /\ r.rows \subseteq r.ids
    BY <1>1, <2>2 DEF RequestFields
  <2> HIDE DEF r
  <2>4. \A p \in wire' : p \in wire \/ p = r
    BY <2>1 DEF r
  <2> QED BY <1>1, <2>2, <2>3, <2>4 DEF HomeInv
<1>3. CASE Home!Captured(q)
  <2>1. q.op = "pdf" /\ wire' = wire \ {q} /\ q.ids = ui.drawn
    BY <1>3 DEF HomeInv, Home!Captured
  <2>2. \A p \in wire' : p \in wire /\ p.op # "pdf"
    BY <2>1 DEF HomeInv
  <2>3. DOMAIN ui' = HomeFields /\ ui'.printed = ui'.asked
    <3>1. CASE ui' = [ui EXCEPT !.busy = ui.busy \ {"pdf"}]
      BY <1>1, <3>1 DEF HomeFields, HomeInv
    <3>2. CASE ui' = [Home!DrawPdf(q.ids, ui.drawn) EXCEPT !.busy = @ \ {"pdf"}]
      BY <1>1, <2>1, <3>2 DEF Home!DrawPdf, HomeFields
    <3> QED BY <1>3, <3>1, <3>2 DEF Home!Captured
  <2> QED BY <1>1, <2>2, <2>3 DEF HomeInv
<1>4. CASE Home!SavedAll(q)
  <2>1. q.op = "all" /\ wire' = wire \ {q} /\ q.rows \subseteq q.ids
    BY <1>4 DEF HomeInv, Home!SavedAll
  <2>2. /\ DOMAIN ui' = HomeFields /\ ui'.printed = ui'.asked /\ ui'.drawn = ui.drawn
        /\ ui'.busy = ui.busy \ {"all"}
    <3>1. CASE ui' = [ui EXCEPT !.busy = ui.busy \ {"all"}]
      BY <1>1, <3>1 DEF HomeFields, HomeInv
    <3>2. CASE /\ q.ids \subseteq q.rows
               /\ ui' = [Home!DrawPdf(q.ids, q.rows) EXCEPT !.busy = @ \ {"all"}]
      <4>1. q.ids = q.rows
        BY <2>1, <3>2
      <4> QED BY <1>1, <3>2, <4>1 DEF Home!DrawPdf, HomeFields
    <3> QED BY <1>4, <3>1, <3>2 DEF Home!SavedAll
  <2> QED BY <1>1, <2>1, <2>2 DEF HomeInv
<1> QED BY <1>2, <1>3, <1>4

\* A deletion, answered or not, leaves what is drawn alone.
LEMMA DeletionKeeps ==
  ASSUME HomeInv, part = "home", part' = part, NEW q \in wire,
         Home!Serve(q) \/ Home!Deleted(q) \/ Home!NotDeleted(q) \/ Home!StrayEnds(q)
  PROVE  HomeInv'
<1>1. DOMAIN ui = HomeFields /\ \A p \in wire : DOMAIN p = RequestFields
  BY DEF HomeInv
<1>2. CASE Home!Serve(q)
  <2> DEFINE r == [q EXCEPT !.status = "done"]
  <2>1. q.op = "delete" /\ UNCHANGED ui /\ wire' = (wire \ {q}) \cup {r}
    BY <1>2 DEF Home!Serve, Home!Served, Home!Becomes
  <2>2. DOMAIN r = RequestFields /\ r.op = "delete"
    BY <1>1, <2>1 DEF RequestFields
  <2> HIDE DEF r
  <2>3. \A p \in wire' : p \in wire \/ p = r
    BY <2>1
  <2> QED BY <1>1, <2>1, <2>2, <2>3, HomeKept DEF Drawing
<1>3. CASE ~Home!Serve(q)
  <2>1. wire' \subseteq wire
    BY <1>3 DEF Home!Deleted, Home!NotDeleted, Home!StrayEnds
  <2>2. \/ UNCHANGED ui
        \/ \E d : ui' = [ui EXCEPT !.doubt = d]
        \/ \E d : ui' = [ui EXCEPT !.target = None, !.busy = ui.busy \ {"delete"}, !.doubt = d]
        \/ ui' = [ui EXCEPT !.target = None, !.busy = ui.busy \ {"delete"}]
    BY <1>3 DEF Home!Deleted, Home!NotDeleted, Home!StrayEnds
  <2>3. /\ DOMAIN ui' = HomeFields /\ ui'.drawn = ui.drawn
        /\ ui.busy \cap {"pdf"} \subseteq ui'.busy
        /\ ui'.printed = ui.printed /\ ui'.asked = ui.asked
    BY <1>1, <2>2 DEF HomeFields
  <2> QED BY <1>1, <2>1, <2>3, HomeKept
<1> QED BY <1>2, <1>3

\* Every step of the first page, and of any other part, keeps the invariant.
LEMMA HomeStep ==
  ASSUME HomeInv, [Next]_vars
  PROVE  HomeInv'
<1>1. CASE part = "home" /\ part' = part /\ Home!Next
  BY <1>1, DialogKeeps, PdfBegins, PdfEnds, DeletionKeeps DEF Home!Next
<1>2. CASE part' = part /\ UNCHANGED pageVars
  BY <1>2 DEF pageVars, HomeInv
<1>3. CASE part # "home" /\ part' = part
  BY <1>3 DEF HomeInv
<1> QED BY <1>1, <1>2, <1>3 DEF Next, vars

\* The invariant of the first page holds throughout.
THEOREM HomeHolds == Spec => []HomeInv
<1>1. Init => HomeInv
  BY DEF Init, Home!Init, Home!Mounted, Home!Fetch, HomeInv, HomeFields, RequestFields
<1>2. HomeInv /\ [Next]_vars => HomeInv'
  BY HomeStep
<1> QED BY <1>1, <1>2, PTL DEF Spec

\* "Saved" is shown only when nothing waits to be saved, and then the screen shows what the
\* server holds; a PDF that was saved holds the entries it was asked for (saveTicketRef,
\* upsertCommittedEntry, handleDownloadEntry, handleDownloadAll).
THEOREM SavedLabelTrueHolds == Spec => []SavedLabelTrue
<1>1. EditorInv /\ HomeInv => SavedLabelTrue
  <2> SUFFICES ASSUME EditorInv, HomeInv PROVE SavedLabelTrue
    OBVIOUS
  <2>1. Editor!SavedMeansQuiet
    BY DEF EditorInv, LabelInv, Editor!SavedMeansQuiet
  <2>2. Editor!SavedLabelTrue
    BY DEF EditorInv, LabelInv, PageInv, ServerInv, Editor!SavedLabelTrue
  <2>3. part = "home" => Home!PrintedAsAsked
    BY DEF HomeInv, Home!PrintedAsAsked
  <2> QED BY <2>1, <2>2, <2>3 DEF SavedLabelTrue
<1> QED BY <1>1, EditorHolds, HomeHolds, PTL

-----------------------------------------------------------------------------
(* The sittings *)

\* The active time of a sitting if its run were closed now.
Charged(s) ==
  s.active + IF s.run = None THEN 0 ELSE Sitting!Min2(now, s.activity + Inactive) - s.run

\* The times of a sitting are in order: nothing of it lies in the future, it starts before its
\* run and its active time fits into the time that has passed.
Timely(s) ==
  /\ 1 <= s.start /\ s.activity <= now /\ s.close <= now /\ s.start + s.active <= now
  /\ s.run # None => s.run <= s.activity /\ s.start + s.active <= s.run

\* The tracker of a visit that was left may still be completed.
LateOpen == late # None /\ tab # "frozen"

\* The form, the tab, the sitting and the resume timer agree: a form on the page has a sitting
\* unless the tab is frozen, and one off the page has the timer that will end it.
FormInv ==
  /\ mounted => resumeAt = None /\ (tab # "frozen" => sitting # None)
  /\ tab = "frozen" => sitting = None /\ (mounted => record = None)
  /\ sitting # None /\ ~mounted => resumeAt # None
  /\ tracker # None => mounted
  /\ LateOpen => sitting # None /\ (resumeAt # None => resumeAt > now)

\* The sitting and its stored copy are timely.
TimesInv == /\ sitting # None => Timely(sitting)
            /\ record # None => Timely(record)

\* What the sitting has accrued is what was worked: it runs exactly while the form is in front
\* of the resident, and it is silent as long as the resident is.
ClockInv ==
  sitting # None =>
    /\ sitting.run # None <=> mounted /\ tab = "shown"
    /\ quiet = Sitting!Min2(now - sitting.activity, Inactive)
    /\ worked = Charged(sitting)
    /\ ~mounted => sitting.start + sitting.active <= sitting.close

\* No sitting is reported twice, and one that is open or stored has not been reported; the open
\* one and the stored one are the same.
ReportInv ==
  /\ \A n \in 1..MaxSittings : ended[n] <= 1 /\ (n > opened => ended[n] = 0)
  /\ sitting # None => sitting.n <= opened /\ ended[sitting.n] = 0
  /\ record # None => record.n <= opened /\ ended[record.n] = 0
  /\ sitting # None /\ record # None => sitting.n = record.n

\* A tracker whose achievement the sitting may still count as completed.
Awaited(t) == IF t # None /\ ~t.done /\ t.row \notin counted THEN 1 ELSE 0

\* Each row is completed once if it was counted; a sitting has started every row it has
\* completed and every row its trackers may still complete.
RowsInv ==
  /\ \A r \in Rows : finished[r] = IF r \in counted THEN 1 ELSE 0
  /\ sitting # None => sitting.completed + Awaited(tracker) + Awaited(late) <= sitting.started
  /\ record # None => record.completed <= record.started

\* A step was left once if it was reported, and every step of a completed pass was.
LeftOnce(t) ==
  t # None => \A k \in Sitting!Steps :
    t.left[k] = (IF k \in t.reported THEN 1 ELSE 0) /\ (t.done => k \in t.reported)
StepsInv == LeftOnce(tracker) /\ LeftOnce(late)

\* The inductive invariant.
SittingInv ==
  Sitting!TypeOK /\ FormInv /\ TimesInv /\ ClockInv /\ ReportInv /\ RowsInv /\ StepsInv

-----------------------------------------------------------------------------

\* Closing the run of a timely sitting charges it up to the last activity and Idle after it.
LEMMA StoppedIs ==
  ASSUME Sitting!SittingAssumption, now \in 1..MaxTime,
         NEW s \in Sitting!Sitting, Timely(s)
  PROVE  /\ Sitting!Stopped(s) = [s EXCEPT !.active = Charged(s), !.run = None]
         /\ Sitting!Stopped(s) \in Sitting!Sitting
         /\ Charged(s) \in Nat /\ s.start + Charged(s) <= now
         /\ Timely(Sitting!Stopped(s))
<1> DEFINE end == Sitting!Min2(now, s.activity + Inactive)
<1>1. /\ s.start \in Sitting!Times /\ s.activity \in Sitting!Times /\ s.active \in Sitting!Times
      /\ s.close \in Sitting!Times /\ s.run \in Sitting!Times \cup {None}
  BY DEF Sitting!Sitting
<1>2. Inactive \in Nat /\ MaxTime \in Nat /\ None \notin Nat
  BY DEF Sitting!SittingAssumption
<1>3. s.run # None => s.run \in Nat /\ end \in Nat /\ s.run <= end /\ end <= now
  BY <1>1, <1>2 DEF Timely, Sitting!Min2, Sitting!Times
<1>4. Charged(s) \in Nat /\ s.start + Charged(s) <= now
  BY <1>1, <1>2, <1>3 DEF Timely, Charged, Sitting!Times
<1>5. Sitting!Stopped(s) = [s EXCEPT !.active = Charged(s), !.run = None]
  <2>1. CASE s.run = None
    <3>1. Charged(s) = s.active
      BY <2>1, <1>1 DEF Charged, Sitting!Times
    <3>2. s = [s EXCEPT !.active = s.active, !.run = s.run]
      BY DEF Sitting!Sitting
    <3> QED BY <2>1, <3>1, <3>2 DEF Sitting!Stopped
  <2>2. CASE s.run # None
    <3>1. s.active + (IF end > s.run THEN end - s.run ELSE 0) = Charged(s)
      BY <2>2, <1>1, <1>2, <1>3 DEF Charged, Sitting!Times
    <3>2. Sitting!Stopped(s)
          = [s EXCEPT !.active = s.active + (IF end > s.run THEN end - s.run ELSE 0), !.run = None]
      BY <2>2 DEF Sitting!Stopped
    <3> QED BY <3>1, <3>2
  <2> QED BY <2>1, <2>2
<1>6. Charged(s) \in Sitting!Times
  BY <1>1, <1>2, <1>4 DEF Sitting!Times
<1>7. Sitting!Stopped(s) \in Sitting!Sitting
  BY <1>5, <1>6 DEF Sitting!Sitting
<1>8. /\ Sitting!Stopped(s).start = s.start /\ Sitting!Stopped(s).close = s.close
      /\ Sitting!Stopped(s).activity = s.activity /\ Sitting!Stopped(s).active = Charged(s)
      /\ Sitting!Stopped(s).run = None
  BY <1>5 DEF Sitting!Sitting
<1>9. Timely(Sitting!Stopped(s))
  BY <1>4, <1>8 DEF Timely
<1> QED BY <1>4, <1>5, <1>7, <1>9

\* Opening a run charges nothing.
LEMMA RunningIs ==
  ASSUME Sitting!SittingAssumption, now \in 1..MaxTime,
         NEW s \in Sitting!Sitting, Timely(s), s.activity = now, NEW t, t # "hidden"
  PROVE  /\ Sitting!Running(s, t) \in Sitting!Sitting
         /\ Sitting!Running(s, t) = [s EXCEPT !.run = IF s.run = None THEN now ELSE s.run]
         /\ Sitting!Running(s, t).run # None
         /\ Charged(Sitting!Running(s, t)) = Charged(s)
         /\ Timely(Sitting!Running(s, t))
<1> DEFINE r == Sitting!Running(s, t)
<1>1. /\ s.start \in Sitting!Times /\ s.activity \in Sitting!Times /\ s.active \in Sitting!Times
      /\ s.close \in Sitting!Times /\ s.run \in Sitting!Times \cup {None}
  BY DEF Sitting!Sitting
<1>2. Inactive \in Nat /\ MaxTime \in Nat /\ None \notin Nat
  BY DEF Sitting!SittingAssumption
<1>3. r = [s EXCEPT !.run = IF s.run = None THEN now ELSE s.run]
  BY DEF Sitting!Running, Sitting!Sitting
<1>4. now \in Sitting!Times /\ now # None
  BY <1>2 DEF Sitting!Times
<1>5. r \in Sitting!Sitting
  BY <1>1, <1>3, <1>4 DEF Sitting!Sitting
<1>6. /\ r.start = s.start /\ r.close = s.close /\ r.activity = s.activity /\ r.active = s.active
      /\ r.run = IF s.run = None THEN now ELSE s.run
  BY <1>3 DEF Sitting!Sitting
<1>7. Timely(r) /\ r.run # None
  BY <1>1, <1>2, <1>4, <1>6 DEF Timely, Sitting!Times
<1>8. Charged(r) = Charged(s)
  BY <1>1, <1>2, <1>4, <1>6 DEF Charged, Sitting!Min2, Sitting!Times
<1> QED BY <1>3, <1>5, <1>7, <1>8

\* Reporting a step of a pass leaves each step once.
LEMMA StepReportedIs ==
  ASSUME NEW t \in Sitting!Tracker, LeftOnce(t), NEW k \in Sitting!Steps,
         None \notin Sitting!Tracker
  PROVE  /\ Sitting!StepReported(k, t) \in Sitting!Tracker /\ LeftOnce(Sitting!StepReported(k, t))
         /\ Sitting!StepReported(k, t).row = t.row
         /\ Sitting!StepReported(k, t).numbered = t.numbered
         /\ Sitting!StepReported(k, t).done = t.done
<1>1. CASE k \in t.reported
  BY <1>1 DEF Sitting!StepReported
<1>2. CASE k \notin t.reported
  <2> DEFINE u == Sitting!StepReported(k, t)
  <2>1. t.left[k] = 0 /\ ~t.done
    BY <1>2 DEF LeftOnce
  <2>2. u = [t EXCEPT !.reported = @ \cup {k}, !.left = [@ EXCEPT ![k] = 1]]
    BY <1>2, <2>1 DEF Sitting!StepReported, Sitting!Tracker
  <2>3. u \in Sitting!Tracker
    <3>1. [t.left EXCEPT ![k] = 1] \in [Sitting!Steps -> 0..2]
      BY DEF Sitting!Tracker
    <3>2. t.reported \cup {k} \in SUBSET Sitting!Steps
      BY DEF Sitting!Tracker
    <3> QED BY <2>2, <3>1, <3>2 DEF Sitting!Tracker
  <2>4. /\ u.reported = t.reported \cup {k} /\ u.left = [t.left EXCEPT ![k] = 1]
        /\ u.row = t.row /\ u.numbered = t.numbered /\ u.done = t.done
    BY <2>2 DEF Sitting!Tracker
  <2>5. LeftOnce(u)
    BY <2>1, <2>4 DEF LeftOnce, Sitting!Tracker
  <2> QED BY <2>3, <2>4, <2>5
<1> QED BY <1>1, <1>2

\* Activity charges what was worked before the silence, and no more.
LEMMA ActiveIs ==
  ASSUME Sitting!SittingAssumption, now \in 1..MaxTime, mounted \in BOOLEAN, tab = "shown",
         NEW s \in Sitting!Sitting, Timely(s), s.run # None <=> mounted
  PROVE  /\ Sitting!Active(s) \in Sitting!Sitting /\ Timely(Sitting!Active(s))
         /\ Sitting!Active(s).activity = now /\ (Sitting!Active(s).run # None <=> mounted)
         /\ Charged(Sitting!Active(s)) = Charged(s)
         /\ ~mounted => Sitting!Active(s).active = s.active
         /\ Sitting!Active(s).n = s.n /\ Sitting!Active(s).start = s.start
         /\ Sitting!Active(s).close = s.close /\ Sitting!Active(s).started = s.started
         /\ Sitting!Active(s).completed = s.completed
<1> DEFINE late_ == s.run # None /\ now - s.activity > Inactive
           t == IF late_ THEN Sitting!Stopped(s) ELSE s
           u == [t EXCEPT !.activity = now]
           r == IF mounted THEN Sitting!Running(u, tab) ELSE u
<1>1. /\ s.start \in Nat /\ s.activity \in Nat /\ s.active \in Nat
      /\ s.close \in Nat /\ s.run \in Nat \cup {None}
  BY DEF Sitting!Sitting, Sitting!Times
<1>2. Inactive \in Nat /\ MaxTime \in Nat /\ None \notin Nat /\ now \in Nat /\ now \in Sitting!Times
  BY DEF Sitting!SittingAssumption, Sitting!Times
<1>3. Sitting!Active(s) = r
  BY DEF Sitting!Active
<1>4. /\ t \in Sitting!Sitting /\ Timely(t) /\ t.n = s.n /\ t.start = s.start /\ t.close = s.close
      /\ t.started = s.started /\ t.completed = s.completed /\ t.activity = s.activity
      /\ late_ => t.active = Charged(s) /\ t.run = None
      /\ ~late_ => t = s
  <2>1. CASE late_
    <3>1. /\ Sitting!Stopped(s) = [s EXCEPT !.active = Charged(s), !.run = None]
          /\ Sitting!Stopped(s) \in Sitting!Sitting /\ Timely(Sitting!Stopped(s))
      BY StoppedIs
    <3> QED BY <2>1, <3>1 DEF Sitting!Sitting
  <2>2. CASE ~late_
    BY <2>2
  <2> QED BY <2>1, <2>2
<1>5. /\ u \in Sitting!Sitting /\ u.n = s.n /\ u.start = s.start /\ u.close = s.close
      /\ u.started = s.started /\ u.completed = s.completed /\ u.activity = now
      /\ u.active = t.active /\ u.run = t.run
  BY <1>2, <1>4 DEF Sitting!Sitting
<1>6. Timely(u)
  <2>1. t.activity \in Nat /\ (t.run = None \/ t.run \in Nat)
    BY <1>4 DEF Sitting!Sitting, Sitting!Times
  <2> QED BY <1>1, <1>2, <1>4, <1>5, <2>1 DEF Timely
<1>7. ~late_ /\ s.run # None => Charged(s) = s.active + now - s.run
  BY <1>1, <1>2 DEF Charged, Sitting!Min2
<1>8. u.run # None => Charged(u) = Charged(s)
  <2>1. u.run # None => ~late_ /\ u.active = s.active /\ u.run = s.run
    BY <1>4, <1>5
  <2> QED BY <1>1, <1>2, <1>5, <1>7, <2>1 DEF Charged, Sitting!Min2
<1>9. CASE ~mounted
  <2>1. ~late_ /\ r = u
    BY <1>9
  <2>2. Charged(u) = u.active /\ Charged(s) = s.active
    BY <1>1, <1>4, <1>5, <1>9, <2>1 DEF Charged
  <2> QED BY <1>3, <1>4, <1>5, <1>6, <1>9, <2>1, <2>2
<1>10. CASE mounted
  <2>1. /\ r \in Sitting!Sitting /\ r = [u EXCEPT !.run = IF u.run = None THEN now ELSE u.run]
        /\ r.run # None /\ Charged(r) = Charged(u) /\ Timely(r)
    BY <1>5, <1>6, <1>10, RunningIs
  <2>2. /\ r.n = s.n /\ r.start = s.start /\ r.close = s.close /\ r.started = s.started
        /\ r.completed = s.completed /\ r.activity = now
    <3>1. DOMAIN u = {"n", "start", "close", "activity", "active", "run", "started", "completed",
            "visits"}
      BY <1>5 DEF Sitting!Sitting
    <3> QED BY <1>5, <2>1, <3>1
  <2>3. Charged(u) = Charged(s)
    <3>1. CASE late_
      <4>1. Charged(s) \in Nat
        BY StoppedIs
      <4> QED BY <1>4, <1>5, <3>1, <4>1 DEF Charged
    <3>2. CASE ~late_
      BY <1>4, <1>5, <1>8, <1>10, <3>2
    <3> QED BY <3>1, <3>2
  <2> QED BY <1>3, <1>10, <2>1, <2>2, <2>3
<1> QED BY <1>9, <1>10

\* A key, a pointer or a scroll keeps the invariant.
LEMMA NoteActivityKeeps ==
  ASSUME Sitting!SittingAssumption, SittingInv, Sitting!NoteActivity
  PROVE  SittingInv'
<1>1. /\ sitting \in Sitting!Sitting /\ now \in 1..MaxTime /\ mounted \in BOOLEAN
      /\ Timely(sitting) /\ (sitting.run # None <=> mounted) /\ tab = "shown"
      /\ None \notin Sitting!Sitting
  BY DEF SittingInv, Sitting!TypeOK, TimesInv, ClockInv, Sitting!NoteActivity,
     Sitting!SittingAssumption
<1>2. /\ sitting' \in Sitting!Sitting /\ Timely(sitting')
      /\ sitting'.activity = now /\ (sitting'.run # None <=> mounted)
      /\ Charged(sitting') = Charged(sitting) /\ (~mounted => sitting'.active = sitting.active)
      /\ sitting'.n = sitting.n /\ sitting'.start = sitting.start
      /\ sitting'.close = sitting.close /\ sitting'.started = sitting.started
      /\ sitting'.completed = sitting.completed
  BY <1>1, ActiveIs DEF Sitting!NoteActivity
<1>3. /\ UNCHANGED <<now, record, mounted, tab, resumeAt, tracker, late, saving, counted,
                     worked, opened, ended, finished>>
      /\ quiet' = 0 /\ persist' = TRUE /\ sitting # None /\ sitting' # None
  BY <1>1, <1>2 DEF Sitting!NoteActivity
<1>4. Sitting!TypeOK'
  BY <1>2, <1>3 DEF SittingInv, Sitting!TypeOK, Sitting!SittingAssumption
<1>5. FormInv'
  BY <1>3 DEF SittingInv, FormInv, LateOpen
<1>6. TimesInv'
  BY <1>2, <1>3 DEF SittingInv, TimesInv, Timely
<1>7. ClockInv'
  BY <1>1, <1>2, <1>3 DEF SittingInv, ClockInv, Charged, Sitting!Min2, Sitting!SittingAssumption
<1>8. ReportInv' /\ StepsInv' /\ RowsInv'
  BY <1>2, <1>3 DEF SittingInv, ReportInv, StepsInv, LeftOnce, RowsInv, Awaited
<1> QED BY <1>4, <1>5, <1>6, <1>7, <1>8 DEF SittingInv

\* Entering the form opens a run at the present time.
LEMMA EnteredIs ==
  ASSUME Sitting!SittingAssumption, now \in 1..MaxTime, tab = "shown",
         NEW s \in Sitting!Sitting, Timely(s), s.run = None, s.visits < MaxVisits
  PROVE  /\ Sitting!Entered(s) \in Sitting!Sitting /\ Timely(Sitting!Entered(s))
         /\ Sitting!Entered(s).activity = now /\ Sitting!Entered(s).run # None
         /\ Charged(Sitting!Entered(s)) = s.active
         /\ Sitting!Entered(s).n = s.n /\ Sitting!Entered(s).started = s.started
         /\ Sitting!Entered(s).completed = s.completed
<1> DEFINE u == [s EXCEPT !.activity = now, !.visits = @ + 1]
           r == Sitting!Running(u, tab)
<1>1. now \in Sitting!Times /\ s.visits + 1 \in 0..MaxVisits
  BY DEF Sitting!SittingAssumption, Sitting!Times, Sitting!Sitting
<1>2. /\ u \in Sitting!Sitting /\ u.n = s.n /\ u.start = s.start /\ u.close = s.close
      /\ u.started = s.started /\ u.completed = s.completed /\ u.activity = now
      /\ u.active = s.active /\ u.run = None
  BY <1>1 DEF Sitting!Sitting
<1>3. Timely(u)
  BY <1>2 DEF Timely
<1>4. Charged(u) = s.active
  BY <1>2 DEF Charged, Sitting!Sitting, Sitting!Times
<1>5. /\ r \in Sitting!Sitting /\ r = [u EXCEPT !.run = IF u.run = None THEN now ELSE u.run]
      /\ r.run # None /\ Charged(r) = Charged(u) /\ Timely(r)
  BY <1>2, <1>3, RunningIs
<1>6. r.n = s.n /\ r.started = s.started /\ r.completed = s.completed /\ r.activity = now
  BY <1>2, <1>5 DEF Sitting!Sitting
<1>7. Sitting!Entered(s) = r
  BY DEF Sitting!Entered
<1> QED BY <1>4, <1>5, <1>6, <1>7

\* A form that is entered goes on with the sitting, or with the stored one, or opens another.
LEMMA EnterFormKeeps ==
  ASSUME Sitting!SittingAssumption, SittingInv, Sitting!EnterForm
  PROVE  SittingInv'
<1>1. /\ now \in 1..MaxTime /\ tab = "shown" /\ ~mounted /\ opened \in 0..MaxSittings
      /\ None \notin Sitting!Sitting /\ None \notin Nat /\ MaxTime \in Nat /\ Inactive \in Nat
      /\ ended \in [1..MaxSittings -> 0..2] /\ MaxSittings \in Nat
  BY DEF SittingInv, Sitting!TypeOK, Sitting!EnterForm, Sitting!SittingAssumption
<1>2. /\ UNCHANGED <<now, tab, late, saving, counted, finished>>
      /\ mounted' = TRUE /\ quiet' = 0 /\ tracker' = None /\ persist' = TRUE /\ resumeAt' = None
  BY DEF Sitting!EnterForm, Sitting!ResumeDisarmed
<1> DEFINE Goes == /\ opened' \in 0..MaxSittings /\ opened <= opened'
                   /\ sitting' \in Sitting!Sitting /\ Timely(sitting') /\ sitting'.activity = now
                   /\ sitting'.run # None /\ worked' = Charged(sitting')
                   /\ worked' \in Sitting!Times
                   /\ ended' \in [1..MaxSittings -> 0..2]
                   /\ \A n \in 1..MaxSittings : ended'[n] <= 1 /\ (n > opened' => ended'[n] = 0)
                   /\ sitting'.n <= opened' /\ ended'[sitting'.n] = 0
                   /\ record' # None => record' = record /\ ended' = ended /\ record.n = sitting'.n
                   /\ sitting'.completed + Awaited(late) <= sitting'.started
<1>a. Awaited(late) \in {0, 1} /\ Awaited(tracker) \in {0, 1}
  BY DEF Awaited
<1>3. ASSUME sitting # None PROVE Goes
  <2>1. /\ sitting \in Sitting!Sitting /\ Timely(sitting) /\ sitting.run = None
        /\ sitting.visits < MaxVisits /\ worked = Charged(sitting) /\ worked \in Sitting!Times
        /\ sitting' = Sitting!Entered(sitting) /\ UNCHANGED <<record, opened, ended, worked>>
    BY <1>1, <1>3 DEF SittingInv, Sitting!TypeOK, TimesInv, ClockInv, Sitting!EnterForm
  <2>2. Charged(sitting) = sitting.active
    BY <2>1 DEF Charged, Sitting!Sitting, Sitting!Times
  <2>3. /\ sitting' \in Sitting!Sitting /\ Timely(sitting') /\ sitting'.activity = now
        /\ sitting'.run # None /\ Charged(sitting') = sitting.active /\ sitting'.n = sitting.n
        /\ sitting'.started = sitting.started /\ sitting'.completed = sitting.completed
    BY <1>1, <2>1, EnteredIs
  <2>4. /\ \A n \in 1..MaxSittings : ended[n] <= 1 /\ (n > opened => ended[n] = 0)
        /\ sitting.n <= opened /\ ended[sitting.n] = 0 /\ (record # None => record.n = sitting.n)
    BY <1>3 DEF SittingInv, ReportInv
  <2>5. sitting.completed + Awaited(late) <= sitting.started
    BY <1>3, <1>a, <2>1 DEF SittingInv, RowsInv, Sitting!Sitting
  <2>6. sitting'.completed + Awaited(late) <= sitting'.started
    BY <1>a, <2>3, <2>5 DEF Sitting!Min2
  <2> QED BY <1>1, <2>1, <2>2, <2>3, <2>4, <2>6
<1>b. sitting = None => late = None
  BY <1>1 DEF SittingInv, FormInv, LateOpen
<1>4. ASSUME sitting = None, Sitting!Resumable PROVE Goes
  <2> DEFINE s == Sitting!Stored
  <2>1. /\ record # None /\ record \in Sitting!Sitting /\ Timely(record)
        /\ record.visits < MaxVisits
        /\ sitting' = Sitting!Entered(s) /\ worked' = s.active
        /\ UNCHANGED <<record, opened, ended>>
    BY <1>4 DEF SittingInv, Sitting!TypeOK, TimesInv, Sitting!EnterForm, Sitting!Resumable
  <2>2. /\ s \in Sitting!Sitting /\ s.run = None /\ s.visits = record.visits /\ s.n = record.n
        /\ s.started = record.started /\ s.completed = record.completed
        /\ s.active = record.active
        /\ s.start = record.start /\ s.close = record.close /\ s.activity = record.activity
    BY <2>1 DEF Sitting!Stored, Sitting!Sitting
  <2>3. Timely(s)
    BY <2>1, <2>2 DEF Timely
  <2>4. /\ sitting' \in Sitting!Sitting /\ Timely(sitting') /\ sitting'.activity = now
        /\ sitting'.run # None /\ Charged(sitting') = s.active /\ sitting'.n = s.n
        /\ sitting'.started = s.started /\ sitting'.completed = s.completed
    BY <1>1, <2>1, <2>2, <2>3, EnteredIs
  <2>5. /\ \A n \in 1..MaxSittings : ended[n] <= 1 /\ (n > opened => ended[n] = 0)
        /\ record.n <= opened /\ ended[record.n] = 0 /\ record.completed <= record.started
    BY <2>1 DEF SittingInv, ReportInv, RowsInv
  <2>6. worked' \in Sitting!Times
    BY <2>1, <2>2 DEF Sitting!Sitting
  <2>7. sitting'.completed + Awaited(late) <= sitting'.started
    BY <1>4, <1>b, <2>1, <2>2, <2>4, <2>5 DEF Sitting!Min2, Awaited, Sitting!Sitting
  <2> QED BY <1>1, <2>1, <2>2, <2>4, <2>5, <2>6, <2>7
<1>5. ASSUME sitting = None, ~Sitting!Resumable PROVE Goes
  <2> DEFINE s == Sitting!FreshSitting(opened + 1)
  <2>1. /\ opened < MaxSittings /\ opened' = opened + 1 /\ worked' = 0
        /\ sitting' = Sitting!Entered(s)
        /\ IF record # None THEN Sitting!Reported(record) /\ record' = None
                            ELSE UNCHANGED <<ended, record>>
    BY <1>5 DEF Sitting!EnterForm, Sitting!Forgotten
  <2>2. MaxVisits \in Nat \ {0} /\ now \in Sitting!Times /\ 0 \in Sitting!Times
    BY <1>1 DEF Sitting!SittingAssumption, Sitting!Times
  <2>3. /\ s \in Sitting!Sitting /\ s.run = None /\ s.visits = 0 /\ s.n = opened + 1
        /\ s.started = 0 /\ s.completed = 0 /\ s.active = 0
        /\ s.start = now /\ s.close = 0 /\ s.activity = now
    BY <1>1, <2>1, <2>2 DEF Sitting!FreshSitting, Sitting!Sitting
  <2>4. Timely(s)
    BY <1>1, <2>3 DEF Timely
  <2>5. /\ sitting' \in Sitting!Sitting /\ Timely(sitting') /\ sitting'.activity = now
        /\ sitting'.run # None /\ Charged(sitting') = 0 /\ sitting'.n = opened + 1
        /\ sitting'.started = 0 /\ sitting'.completed = 0
    BY <1>1, <2>1, <2>2, <2>3, <2>4, EnteredIs
  <2>6. /\ \A n \in 1..MaxSittings : ended[n] <= 1 /\ (n > opened => ended[n] = 0)
        /\ record # None => record \in Sitting!Sitting /\ record.n <= opened /\ ended[record.n] = 0
    BY DEF SittingInv, Sitting!TypeOK, ReportInv
  <2>7. /\ ended' \in [1..MaxSittings -> 0..2]
        /\ \A n \in 1..MaxSittings : ended'[n] <= 1 /\ (n > opened' => ended'[n] = 0)
        /\ ended'[opened + 1] = 0
    <3>1. CASE record = None
      BY <1>1, <2>1, <2>6, <3>1
    <3>2. CASE record # None
      <4>1. record.n \in 1..MaxSittings
        BY <2>6, <3>2 DEF Sitting!Sitting
      <4>2. ended' = [ended EXCEPT ![record.n] = 1]
        BY <1>1, <2>1, <2>6, <3>2, <4>1 DEF Sitting!Reported
      <4> QED BY <1>1, <2>1, <2>6, <3>2, <4>1, <4>2
    <3> QED BY <3>1, <3>2
  <2>8. sitting'.completed + Awaited(late) <= sitting'.started
    BY <1>5, <1>b, <2>5 DEF Sitting!Min2, Awaited
  <2> QED BY <1>1, <2>1, <2>2, <2>5, <2>7, <2>8
<1>6. Goes
  BY <1>3, <1>4, <1>5
<1>7. sitting' # None /\ Awaited(tracker)' = 0 /\ Awaited(late)' = Awaited(late)
  BY <1>1, <1>2, <1>6 DEF Awaited
<1>8. Sitting!TypeOK'
  <2>1. record' \in Sitting!Sitting \cup {None}
    BY <1>6 DEF SittingInv, Sitting!TypeOK
  <2> QED BY <1>1, <1>2, <1>6, <2>1 DEF SittingInv, Sitting!TypeOK
<1>9. FormInv'
  BY <1>1, <1>2, <1>7 DEF SittingInv, FormInv, LateOpen
<1>10. TimesInv'
  BY <1>2, <1>6 DEF SittingInv, TimesInv, Timely
<1>11. ClockInv'
  <2>1. quiet' = Sitting!Min2(now' - sitting'.activity, Inactive)
    BY <1>1, <1>2, <1>6 DEF Sitting!Min2
  <2> QED BY <1>1, <1>2, <1>6, <2>1 DEF ClockInv, Charged
<1>12. ReportInv'
  BY <1>6 DEF SittingInv, ReportInv
<1>13. RowsInv'
  <2>1. sitting'.completed + Awaited(late) <= sitting'.started
    BY <1>a, <1>6 DEF Sitting!Min2
  <2>2. sitting'.completed \in Nat
    BY <1>6 DEF Sitting!Sitting
  <2> QED BY <1>a, <1>2, <1>6, <1>7, <2>1, <2>2 DEF SittingInv, RowsInv
<1>14. StepsInv'
  BY <1>2 DEF SittingInv, StepsInv, LeftOnce
<1> QED BY <1>8, <1>9, <1>10, <1>11, <1>12, <1>13, <1>14 DEF SittingInv

\* An entry that is opened is started once, unless it was completed before.
LEMMA EntryStartedKeeps ==
  ASSUME Sitting!SittingAssumption, SittingInv, NEW r \in Rows, Sitting!EntryStarted(r)
  PROVE  SittingInv'
<1>1. /\ sitting \in Sitting!Sitting /\ mounted /\ tracker = None
      /\ tracker' = [row |-> r, numbered |-> r \notin counted, done |-> FALSE, step |-> 0,
                     reported |-> {}, left |-> [k \in Sitting!Steps |-> 0]]
      /\ UNCHANGED <<now, record, mounted, tab, resumeAt, late, saving, counted,
                     quiet, worked, opened, ended, finished>>
      /\ None \notin Sitting!Sitting /\ None \notin Sitting!Tracker /\ sitting # None
  BY DEF SittingInv, Sitting!TypeOK, Sitting!EntryStarted, Sitting!ghosts,
     Sitting!SittingAssumption
<1>2. tracker' \in Sitting!Tracker /\ LeftOnce(tracker') /\ tracker'.row = r /\ ~tracker'.done
  BY <1>1 DEF Sitting!Tracker, LeftOnce, Sitting!Steps, Sitting!SittingAssumption
<1>3. /\ sitting' \in Sitting!Sitting /\ persist' \in BOOLEAN
      /\ sitting'.started = sitting.started + (IF r \in counted THEN 0 ELSE 1)
      /\ sitting'.n = sitting.n /\ sitting'.start = sitting.start
      /\ sitting'.close = sitting.close
      /\ sitting'.activity = sitting.activity /\ sitting'.active = sitting.active
      /\ sitting'.run = sitting.run /\ sitting'.completed = sitting.completed
  <2>1. CASE r \in counted
    BY <1>1, <2>1 DEF SittingInv, Sitting!TypeOK, Sitting!EntryStarted, Sitting!Sitting
  <2>2. CASE r \notin counted
    BY <1>1, <2>2 DEF Sitting!EntryStarted, Sitting!Sitting
  <2> QED BY <2>1, <2>2
<1>4. Sitting!TypeOK'
  BY <1>1, <1>2, <1>3 DEF SittingInv, Sitting!TypeOK
<1>5. FormInv'
  BY <1>1, <1>3 DEF SittingInv, FormInv, LateOpen
<1>6. TimesInv' /\ ClockInv' /\ ReportInv'
  BY <1>1, <1>3 DEF SittingInv, TimesInv, ClockInv, ReportInv, Timely, Charged
<1>7. RowsInv'
  <2>1. Awaited(tracker) = 0 /\ Awaited(tracker)' = (IF r \in counted THEN 0 ELSE 1)
    BY <1>1, <1>2 DEF Awaited
  <2>2. Awaited(late)' = Awaited(late) /\ Awaited(late) \in {0, 1}
    BY <1>1 DEF Awaited
  <2>3. sitting.completed + Awaited(tracker) + Awaited(late) <= sitting.started
    BY <1>1 DEF SittingInv, RowsInv
  <2>4. sitting'.completed + Awaited(tracker)' + Awaited(late)' <= sitting'.started
    BY <1>1, <1>3, <2>1, <2>2, <2>3 DEF Sitting!Sitting
  <2> QED BY <1>1, <2>4 DEF SittingInv, RowsInv
<1>8. StepsInv'
  BY <1>1, <1>2 DEF SittingInv, StepsInv, LeftOnce
<1> QED BY <1>4, <1>5, <1>6, <1>7, <1>8 DEF SittingInv

\* A step that is left is reported.
LEMMA StepChangedKeeps ==
  ASSUME Sitting!SittingAssumption, SittingInv, NEW k \in Sitting!Steps, Sitting!StepChanged(k)
  PROVE  SittingInv'
<1> DEFINE u == Sitting!StepReported(tracker.step, tracker)
<1>1. /\ tracker \in Sitting!Tracker /\ mounted /\ tracker # None
      /\ tracker' = [u EXCEPT !.step = k]
      /\ UNCHANGED <<now, sitting, record, mounted, tab, resumeAt, persist, late, saving, counted,
                     quiet, worked, opened, ended, finished>>
      /\ None \notin Sitting!Tracker
  BY DEF SittingInv, Sitting!TypeOK, Sitting!StepChanged, Sitting!ghosts,
     Sitting!SittingAssumption
<1>2. tracker.step \in Sitting!Steps /\ LeftOnce(tracker)
  BY <1>1 DEF Sitting!Tracker, SittingInv, StepsInv
<1>3. /\ u \in Sitting!Tracker /\ LeftOnce(u) /\ u.row = tracker.row /\ u.done = tracker.done
  BY <1>1, <1>2, StepReportedIs
<1>4. /\ tracker' \in Sitting!Tracker /\ tracker'.row = tracker.row
      /\ tracker'.done = tracker.done
      /\ tracker'.left = u.left /\ tracker'.reported = u.reported
  BY <1>1, <1>3 DEF Sitting!Tracker
<1>5. LeftOnce(tracker')
  BY <1>1, <1>3, <1>4 DEF LeftOnce
<1>6. Sitting!TypeOK'
  BY <1>1, <1>4 DEF SittingInv, Sitting!TypeOK
<1>7. FormInv' /\ TimesInv' /\ ClockInv' /\ ReportInv'
  BY <1>1 DEF SittingInv, FormInv, LateOpen, TimesInv, ClockInv, ReportInv, Timely, Charged
<1>8. RowsInv'
  BY <1>1, <1>4 DEF SittingInv, RowsInv, Awaited
<1>9. StepsInv'
  BY <1>1, <1>5 DEF SittingInv, StepsInv, LeftOnce
<1> QED BY <1>6, <1>7, <1>8, <1>9 DEF SittingInv

\* Leaving the form closes the run, stores the sitting and arms the timer.
LEMMA LeaveFormKeeps ==
  ASSUME Sitting!SittingAssumption, SittingInv, Sitting!LeaveForm
  PROVE  SittingInv'
<1> DEFINE s == Sitting!Stopped(sitting)
<1>1. /\ sitting \in Sitting!Sitting /\ now \in 1..MaxTime /\ Timely(sitting) /\ sitting # None
      /\ mounted /\ tab = "shown" /\ None \notin Sitting!Sitting /\ None \notin Sitting!Tracker
      /\ None \notin Nat /\ Window \in Nat \ {0} /\ Inactive \in Nat /\ MaxTime \in Nat
  BY DEF SittingInv, Sitting!TypeOK, TimesInv, Sitting!LeaveForm, Sitting!SittingAssumption
<1>2. /\ mounted' = FALSE /\ tracker' = None /\ sitting' = [s EXCEPT !.close = now]
      /\ persist' = FALSE /\ record' = sitting' /\ resumeAt' = now + Window
      /\ late' = (IF saving /\ tracker # None THEN Sitting!Abandoned(tracker) ELSE late)
      /\ UNCHANGED <<now, tab, saving, counted, quiet, worked, opened, ended, finished>>
  BY DEF Sitting!LeaveForm, Sitting!ghosts
<1>3. /\ s = [sitting EXCEPT !.active = Charged(sitting), !.run = None]
      /\ s \in Sitting!Sitting /\ Charged(sitting) \in Nat
      /\ sitting.start + Charged(sitting) <= now
  BY <1>1, StoppedIs
<1>4. /\ sitting' \in Sitting!Sitting /\ sitting'.start = sitting.start /\ sitting'.close = now
      /\ sitting'.activity = sitting.activity /\ sitting'.active = Charged(sitting)
      /\ sitting'.run = None /\ sitting'.n = sitting.n /\ sitting'.started = sitting.started
      /\ sitting'.completed = sitting.completed
  <2>1. now \in Sitting!Times
    BY <1>1 DEF Sitting!Times
  <2> QED BY <1>1, <1>2, <1>3, <2>1 DEF Sitting!Sitting
<1>5. /\ late' \in Sitting!Tracker \cup {None} /\ LeftOnce(late')
      /\ late' # None /\ late' # late => tracker # None /\ late'.row = tracker.row
                                         /\ late'.done = tracker.done
  <2>1. CASE saving /\ tracker # None
    <3>1. tracker \in Sitting!Tracker /\ tracker.step \in Sitting!Steps /\ LeftOnce(tracker)
      BY <2>1 DEF SittingInv, Sitting!TypeOK, StepsInv, Sitting!Tracker
    <3> DEFINE u == Sitting!StepReported(tracker.step, tracker)
    <3>2. u \in Sitting!Tracker /\ LeftOnce(u) /\ u.row = tracker.row /\ u.done = tracker.done
      BY <1>1, <3>1, StepReportedIs
    <3>3. late' \in {u, tracker}
      BY <1>2, <2>1 DEF Sitting!Abandoned
    <3> QED BY <2>1, <3>1, <3>2, <3>3
  <2>2. CASE ~(saving /\ tracker # None)
    BY <1>2, <2>2 DEF SittingInv, Sitting!TypeOK, StepsInv
  <2> QED BY <2>1, <2>2
<1>6. Sitting!TypeOK'
  <2>1. resumeAt' \in Nat
    BY <1>1, <1>2
  <2> QED BY <1>2, <1>4, <1>5, <2>1 DEF SittingInv, Sitting!TypeOK
<1>7. FormInv'
  <2>1. resumeAt' > now /\ resumeAt' # None /\ sitting' # None
    BY <1>1, <1>2, <1>4
  <2> QED BY <1>1, <1>2, <2>1 DEF FormInv, LateOpen
<1>8. TimesInv'
  BY <1>1, <1>2, <1>3, <1>4 DEF TimesInv, Timely
<1>9. ClockInv'
  <2>1. worked = Charged(sitting) /\ quiet = Sitting!Min2(now - sitting.activity, Inactive)
    BY <1>1 DEF SittingInv, ClockInv
  <2>2. Charged(sitting)' = Charged(sitting)
    BY <1>3, <1>4 DEF Charged
  <2> QED BY <1>2, <1>3, <1>4, <2>1, <2>2 DEF ClockInv
<1>10. ReportInv'
  BY <1>1, <1>2, <1>4 DEF SittingInv, ReportInv
<1>11. RowsInv'
  <2>1. Awaited(tracker)' = 0 /\ {Awaited(tracker), Awaited(late)} \subseteq {0, 1}
    BY <1>2 DEF Awaited
  <2>2. Awaited(late)' \in {0, Awaited(tracker), Awaited(late)}
    BY <1>2, <1>5 DEF Awaited
  <2>3. sitting.completed + Awaited(tracker) + Awaited(late) <= sitting.started
    BY <1>1 DEF SittingInv, RowsInv
  <2>4. /\ sitting'.completed + Awaited(tracker)' + Awaited(late)' <= sitting'.started
        /\ sitting'.completed <= sitting'.started
    BY <1>1, <1>4, <2>1, <2>2, <2>3 DEF Sitting!Sitting
  <2> QED BY <1>2, <2>4 DEF SittingInv, RowsInv
<1>12. StepsInv'
  BY <1>2, <1>5 DEF StepsInv, LeftOnce
<1> QED BY <1>6, <1>7, <1>8, <1>9, <1>10, <1>11, <1>12 DEF SittingInv

\* Waiting for the save of Finish changes nothing the invariant is about.
LEMMA FinishKeeps ==
  ASSUME SittingInv, Sitting!Finish \/ UNCHANGED sittingVars
  PROVE  SittingInv'
<1>1. /\ UNCHANGED <<now, sitting, record, mounted, tab, resumeAt, persist, tracker, late, counted,
                     quiet, worked, opened, ended, finished>>
      /\ saving' \in BOOLEAN
  BY DEF Sitting!Finish, Sitting!ghosts, sittingVars, SittingInv, Sitting!TypeOK
<1>2. Sitting!TypeOK'
  BY <1>1 DEF SittingInv, Sitting!TypeOK
<1>3. FormInv' /\ TimesInv' /\ ClockInv' /\ ReportInv'
  BY <1>1 DEF SittingInv, FormInv, LateOpen, TimesInv, ClockInv, ReportInv, Timely, Charged
<1>4. RowsInv' /\ StepsInv'
  BY <1>1 DEF SittingInv, RowsInv, StepsInv, LeftOnce, Awaited
<1> QED BY <1>2, <1>3, <1>4 DEF SittingInv

\* A completion that is accepted counts the row, and the sitting counts it with it.
LEMMA CompletedIs ==
  ASSUME Sitting!SittingAssumption, SittingInv, tab # "frozen",
         NEW t \in {tracker, late}, t # None, Sitting!Accepts(t), Sitting!Completed(t)
  PROVE  /\ sitting # None /\ sitting \in Sitting!Sitting /\ sitting' \in Sitting!Sitting
         /\ persist' \in BOOLEAN
         /\ counted' = counted \cup {t.row} /\ t.row \in Rows
         /\ finished' \in [Rows -> 0..2]
         /\ \A r \in Rows : finished'[r] = IF r \in counted' THEN 1 ELSE 0
         /\ sitting'.n = sitting.n /\ sitting'.start = sitting.start
         /\ sitting'.close = sitting.close /\ sitting'.activity = sitting.activity
         /\ sitting'.active = sitting.active /\ sitting'.run = sitting.run
         /\ sitting'.started = sitting.started /\ sitting'.completed = sitting.completed + 1
<1>1. sitting # None /\ sitting \in Sitting!Sitting /\ t \in Sitting!Tracker
  BY DEF SittingInv, Sitting!TypeOK, FormInv, LateOpen
<1>2. /\ counted' = counted \cup {t.row} /\ sitting' = [sitting EXCEPT !.completed = @ + 1]
      /\ persist' = TRUE
      /\ finished' = [finished EXCEPT ![t.row] = IF @ = 2 THEN 2 ELSE @ + 1]
  BY <1>1 DEF Sitting!Completed
<1>3. t.row \in Rows /\ t.row \notin counted /\ finished \in [Rows -> 0..2]
  BY <1>1 DEF Sitting!Tracker, Sitting!Accepts, SittingInv, Sitting!TypeOK
<1>4. \A r \in Rows : finished[r] = IF r \in counted THEN 1 ELSE 0
  BY DEF SittingInv, RowsInv
<1>5. finished' = [finished EXCEPT ![t.row] = 1]
  <2>1. finished[t.row] = 0
    BY <1>3, <1>4
  <2> QED BY <1>2, <2>1
<1>6. finished' \in [Rows -> 0..2] /\ \A r \in Rows : finished'[r] = IF r \in counted' THEN 1 ELSE 0
  BY <1>2, <1>3, <1>4, <1>5
<1> QED BY <1>1, <1>2, <1>3, <1>6 DEF Sitting!Sitting

\* The answer of Finish completes the row of the tracker that waits, or of the visit that was
\* left.
LEMMA FinishAnsweredKeeps ==
  ASSUME Sitting!SittingAssumption, SittingInv, Sitting!FinishAnswered
  PROVE  SittingInv'
<1>1. /\ UNCHANGED <<now, record, mounted, tab, resumeAt, quiet, worked, opened, ended>>
      /\ saving' = FALSE /\ tab # "frozen" /\ None \notin Sitting!Sitting
      /\ None \notin Sitting!Tracker
  BY DEF Sitting!FinishAnswered, Sitting!SittingAssumption
<1>2. CASE UNCHANGED <<tracker, counted, finished, sitting, persist>> /\ late' = None
  <2>1. Sitting!TypeOK' /\ FormInv' /\ TimesInv' /\ ClockInv' /\ ReportInv'
    BY <1>1, <1>2
       DEF SittingInv, Sitting!TypeOK, FormInv, LateOpen, TimesInv, ClockInv, ReportInv, Timely,
           Charged
  <2>2. RowsInv'
    <3>1. sitting # None => /\ sitting.completed \in Nat /\ sitting.started \in Nat
                            /\ sitting.completed + Awaited(tracker) + Awaited(late)
                                 <= sitting.started
      BY DEF SittingInv, RowsInv, Sitting!TypeOK, Sitting!Sitting
    <3>2. /\ Awaited(tracker)' = Awaited(tracker) /\ Awaited(late)' = 0
          /\ {Awaited(tracker), Awaited(late)} \subseteq {0, 1}
      BY <1>2 DEF Awaited
    <3>3. sitting # None => sitting.completed + Awaited(tracker)' + Awaited(late)'
                              <= sitting.started
      BY <3>1, <3>2
    <3> QED BY <1>1, <1>2, <3>3 DEF SittingInv, RowsInv
  <2>3. StepsInv'
    BY <1>2 DEF SittingInv, StepsInv, LeftOnce
  <2> QED BY <2>1, <2>2, <2>3 DEF SittingInv
<1>3. CASE UNCHANGED <<tracker, counted, finished, sitting, persist, late>>
  <2>1. Sitting!TypeOK' /\ FormInv' /\ TimesInv' /\ ClockInv' /\ ReportInv'
    BY <1>1, <1>3
       DEF SittingInv, Sitting!TypeOK, FormInv, LateOpen, TimesInv, ClockInv, ReportInv, Timely,
           Charged
  <2>2. RowsInv' /\ StepsInv'
    BY <1>1, <1>3 DEF SittingInv, RowsInv, Awaited, StepsInv, LeftOnce
  <2> QED BY <2>1, <2>2 DEF SittingInv
<1>4. ASSUME NEW t \in {tracker, late}, t # None, Sitting!Accepts(t), Sitting!Completed(t),
             \/ t = late /\ late' = None /\ UNCHANGED tracker
             \/ t = tracker /\ late = None /\ UNCHANGED late
                /\ tracker' = [Sitting!AllReported(tracker) EXCEPT !.done = TRUE]
      PROVE  SittingInv'
  <2>1. /\ sitting # None /\ sitting \in Sitting!Sitting /\ sitting' \in Sitting!Sitting
        /\ persist' \in BOOLEAN
        /\ counted' = counted \cup {t.row} /\ t.row \in Rows
        /\ finished' \in [Rows -> 0..2]
        /\ \A r \in Rows : finished'[r] = IF r \in counted' THEN 1 ELSE 0
        /\ sitting'.n = sitting.n /\ sitting'.start = sitting.start
        /\ sitting'.close = sitting.close /\ sitting'.activity = sitting.activity
        /\ sitting'.active = sitting.active /\ sitting'.run = sitting.run
        /\ sitting'.started = sitting.started /\ sitting'.completed = sitting.completed + 1
    BY <1>1, <1>4, CompletedIs
  <2>2. /\ {tracker', late'} \subseteq Sitting!Tracker \cup {None}
        /\ LeftOnce(tracker') /\ LeftOnce(late')
        /\ tracker' # None => tracker # None /\ tracker'.row = tracker.row
        /\ tracker' # None /\ tracker' # tracker => tracker'.done
        /\ late' # None => late' = late
        /\ t = tracker => late' = None
    <3>1. CASE t = late /\ late' = None /\ UNCHANGED tracker
      BY <1>4, <3>1 DEF SittingInv, Sitting!TypeOK, StepsInv, LeftOnce
    <3>2. CASE t = tracker /\ late = None /\ UNCHANGED late
               /\ tracker' = [Sitting!AllReported(tracker) EXCEPT !.done = TRUE]
      <4> DEFINE left == [k \in Sitting!Steps |-> IF k \in tracker.reported THEN tracker.left[k]
                                                                       ELSE tracker.left[k] + 1]
      <4>1. tracker \in Sitting!Tracker /\ LeftOnce(tracker) /\ tracker # None
        BY <1>4, <3>2 DEF SittingInv, Sitting!TypeOK, StepsInv
      <4>2. left \in [Sitting!Steps -> 0..2] /\ \A k \in Sitting!Steps : left[k] = 1
        BY <4>1 DEF LeftOnce
      <4>3. tracker' = [tracker EXCEPT !.reported = Sitting!Steps, !.left = left, !.done = TRUE]
        BY <3>2 DEF Sitting!AllReported
      <4>4. /\ tracker' \in Sitting!Tracker /\ tracker'.row = tracker.row /\ tracker'.done
            /\ tracker'.left = left /\ tracker'.reported = Sitting!Steps
        BY <4>1, <4>2, <4>3 DEF Sitting!Tracker
      <4>5. LeftOnce(tracker')
        BY <4>2, <4>4 DEF LeftOnce
      <4> QED BY <1>1, <3>2, <4>1, <4>4, <4>5 DEF LeftOnce
    <3> QED BY <1>4, <3>1, <3>2
  <2>3. Sitting!TypeOK'
    BY <1>1, <2>1, <2>2 DEF SittingInv, Sitting!TypeOK
  <2>4. FormInv'
    BY <1>1, <2>1, <2>2 DEF SittingInv, FormInv, LateOpen
  <2>5. TimesInv' /\ ClockInv' /\ ReportInv'
    BY <1>1, <2>1 DEF SittingInv, TimesInv, ClockInv, ReportInv, Timely, Charged
  <2>6. RowsInv'
    <3>1. /\ sitting.completed + Awaited(tracker) + Awaited(late) <= sitting.started
          /\ sitting.completed \in Nat /\ sitting.started \in Nat
      BY <2>1 DEF SittingInv, RowsInv, Sitting!Sitting
    <3>2. {Awaited(tracker), Awaited(late), Awaited(tracker)', Awaited(late)'} \subseteq {0, 1}
      BY DEF Awaited
    <3>3. Awaited(t) = 1
      <4>1. t # None /\ ~t.done /\ t.row \notin counted
        BY <1>4 DEF Sitting!Accepts
      <4> QED BY <4>1 DEF Awaited
    <3>4. Awaited(tracker)' <= Awaited(tracker) /\ Awaited(late)' <= Awaited(late)
      BY <2>1, <2>2, <3>2 DEF Awaited
    <3>5. t = tracker /\ t # late => Awaited(tracker)' = 0
      BY <1>4, <2>1, <2>2 DEF Awaited
    <3>6. t = late => Awaited(late)' = 0
      BY <1>4, <2>1, <2>2 DEF Awaited
    <3>7. sitting'.completed + Awaited(tracker)' + Awaited(late)' <= sitting'.started
      <4>1. CASE t = late
        <5>1. Awaited(late) = 1 /\ Awaited(late)' = 0 /\ Awaited(tracker)' <= Awaited(tracker)
          BY <3>3, <3>4, <3>6, <4>1
        <5> QED BY <2>1, <3>1, <3>2, <5>1
      <4>2. CASE t = tracker /\ t # late
        <5>1. Awaited(tracker) = 1 /\ Awaited(tracker)' = 0 /\ Awaited(late)' <= Awaited(late)
          BY <3>3, <3>4, <3>5, <4>2
        <5> QED BY <2>1, <3>1, <3>2, <5>1
      <4> QED BY <1>4, <4>1, <4>2
    <3> QED BY <1>1, <2>1, <3>7 DEF SittingInv, RowsInv
  <2>7. StepsInv'
    BY <2>2 DEF StepsInv, LeftOnce
  <2> QED BY <2>3, <2>4, <2>5, <2>6, <2>7 DEF SittingInv
<1> QED BY <1>2, <1>3, <1>4 DEF Sitting!FinishAnswered

\* The stored copy is a copy.
LEMMA PersistFiresKeeps ==
  ASSUME SittingInv, Sitting!PersistFires
  PROVE  SittingInv'
<1>1. /\ UNCHANGED <<now, sitting, mounted, tab, resumeAt, tracker, late, saving, counted, finished,
                     quiet, worked, opened, ended>>
      /\ persist' = FALSE /\ record' = (IF sitting = None THEN record ELSE sitting)
      /\ tab # "frozen"
  BY DEF Sitting!PersistFires, Sitting!visit
<1>2. Sitting!TypeOK'
  BY <1>1 DEF SittingInv, Sitting!TypeOK
<1>3. FormInv' /\ TimesInv' /\ ClockInv' /\ ReportInv'
  BY <1>1 DEF SittingInv, FormInv, LateOpen, TimesInv, ClockInv, ReportInv, Timely, Charged
<1>4. StepsInv'
  BY <1>1 DEF SittingInv, StepsInv, LeftOnce
<1>5. RowsInv'
  <2>1. sitting # None => /\ sitting.completed \in Nat /\ sitting.started \in Nat
                          /\ sitting.completed + Awaited(tracker) + Awaited(late) <= sitting.started
    BY DEF SittingInv, RowsInv, Sitting!TypeOK, Sitting!Sitting
  <2>2. /\ Awaited(tracker)' = Awaited(tracker) /\ Awaited(late)' = Awaited(late)
        /\ {Awaited(tracker), Awaited(late)} \subseteq {0, 1}
    BY <1>1 DEF Awaited
  <2>3. sitting # None => sitting.completed <= sitting.started
    BY <2>1, <2>2
  <2> QED BY <1>1, <2>1, <2>2, <2>3 DEF SittingInv, RowsInv
<1> QED BY <1>2, <1>3, <1>4, <1>5 DEF SittingInv

\* The report of the open sitting is its first.
LEMMA EndedKeeps ==
  ASSUME SittingInv, NEW s \in Sitting!Sitting, s = sitting, sitting # None, Sitting!Reported(s),
         MaxSittings \in Nat
  PROVE  /\ ended' \in [1..MaxSittings -> 0..2]
         /\ \A n \in 1..MaxSittings : ended'[n] <= 1 /\ (n > opened => ended'[n] = 0)
<1>1. /\ ended \in [1..MaxSittings -> 0..2] /\ s.n \in 1..MaxSittings /\ opened \in 0..MaxSittings
      /\ \A n \in 1..MaxSittings : ended[n] <= 1 /\ (n > opened => ended[n] = 0)
      /\ s.n <= opened /\ ended[s.n] = 0
  BY DEF SittingInv, Sitting!TypeOK, ReportInv, Sitting!Sitting
<1>2. ended' = [ended EXCEPT ![s.n] = 1]
  BY <1>1 DEF Sitting!Reported
<1> QED BY <1>1, <1>2

\* The resume timer and a frozen page end the sitting and forget its copy.
LEMMA EndsKeeps ==
  ASSUME Sitting!SittingAssumption, SittingInv, Sitting!ResumeFires \/ Sitting!PageHide
  PROVE  SittingInv'
<1>1. /\ UNCHANGED <<now, mounted, tracker, late, saving, counted, finished, quiet, worked, opened>>
      /\ tab # "frozen" /\ tab' \in {"shown", "hidden", "frozen"}
      /\ tab' # "frozen" => tab' = tab /\ resumeAt # None /\ now >= resumeAt
  <2>1. tab \in {"shown", "hidden", "frozen"}
    BY DEF SittingInv, Sitting!TypeOK
  <2>2. CASE Sitting!ResumeFires
    BY <2>1, <2>2 DEF Sitting!ResumeFires, Sitting!visit
  <2>3. CASE Sitting!PageHide
    BY <2>3 DEF Sitting!PageHide, Sitting!visit
  <2> QED BY <2>2, <2>3
<1>2. CASE sitting = None
  <2>1. UNCHANGED <<sitting, record, persist, ended>> /\ resumeAt' \in {resumeAt, None}
    BY <1>2 DEF Sitting!ResumeFires, Sitting!PageHide
  <2>2. Sitting!TypeOK'
    BY <1>1, <2>1 DEF SittingInv, Sitting!TypeOK
  <2>3. FormInv'
    BY <1>1, <1>2, <2>1 DEF SittingInv, FormInv, LateOpen
  <2>4. TimesInv' /\ ClockInv' /\ ReportInv'
    BY <1>1, <1>2, <2>1 DEF SittingInv, TimesInv, ClockInv, ReportInv, Timely
  <2>5. RowsInv' /\ StepsInv'
    BY <1>1, <1>2, <2>1 DEF SittingInv, RowsInv, StepsInv, LeftOnce
  <2> QED BY <2>2, <2>3, <2>4, <2>5 DEF SittingInv
<1>3. CASE sitting # None
  <2>1. /\ Sitting!Reported(sitting) /\ sitting' = None /\ record' = None /\ resumeAt' = None
        /\ persist' = FALSE
    BY <1>3 DEF Sitting!ResumeFires, Sitting!PageHide, Sitting!EndSession, Sitting!Forgotten
  <2>2. /\ sitting \in Sitting!Sitting /\ MaxSittings \in Nat /\ now \in Nat
        /\ resumeAt \in Nat \cup {None}
    BY <1>3 DEF SittingInv, Sitting!TypeOK, Sitting!SittingAssumption
  <2>3. /\ ended' \in [1..MaxSittings -> 0..2]
        /\ \A n \in 1..MaxSittings : ended'[n] <= 1 /\ (n > opened => ended'[n] = 0)
    BY <1>3, <2>1, <2>2, EndedKeeps
  <2>4. Sitting!TypeOK'
    BY <1>1, <2>1, <2>3 DEF SittingInv, Sitting!TypeOK
  <2>5. FormInv'
    BY <1>1, <1>3, <2>1, <2>2 DEF SittingInv, FormInv, LateOpen
  <2>6. TimesInv' /\ ClockInv' /\ ReportInv'
    BY <1>1, <2>1, <2>3 DEF TimesInv, ClockInv, ReportInv
  <2>7. RowsInv' /\ StepsInv'
    BY <1>1, <2>1 DEF SittingInv, RowsInv, StepsInv, LeftOnce
  <2> QED BY <2>4, <2>5, <2>6, <2>7 DEF SittingInv
<1> QED BY <1>2, <1>3

\* A hidden tab closes the run.
LEMMA HideKeeps ==
  ASSUME Sitting!SittingAssumption, SittingInv, Sitting!Hide
  PROVE  SittingInv'
<1>1. /\ UNCHANGED <<now, mounted, resumeAt, persist, tracker, late, saving, counted, finished,
                     quiet, worked, opened, ended>>
      /\ tab = "shown" /\ tab' = "hidden"
  BY DEF Sitting!Hide, Sitting!visit
<1>2. CASE sitting = None
  <2>1. UNCHANGED <<sitting, record>>
    BY <1>2 DEF Sitting!Hide
  <2>2. Sitting!TypeOK' /\ FormInv'
    BY <1>1, <1>2, <2>1 DEF SittingInv, Sitting!TypeOK, FormInv, LateOpen
  <2>3. TimesInv' /\ ClockInv' /\ ReportInv'
    BY <1>1, <1>2, <2>1 DEF SittingInv, TimesInv, ClockInv, ReportInv, Timely
  <2>4. RowsInv' /\ StepsInv'
    BY <1>1, <1>2, <2>1 DEF SittingInv, RowsInv, StepsInv, LeftOnce
  <2> QED BY <2>2, <2>3, <2>4 DEF SittingInv
<1>3. CASE sitting # None
  <2>1. /\ sitting \in Sitting!Sitting /\ now \in 1..MaxTime /\ Timely(sitting)
        /\ None \notin Sitting!Sitting
        /\ sitting' = Sitting!Stopped(sitting) /\ record' = sitting'
    BY <1>3 DEF SittingInv, Sitting!TypeOK, TimesInv, Sitting!Hide, Sitting!SittingAssumption
  <2>2. /\ sitting' = [sitting EXCEPT !.active = Charged(sitting), !.run = None]
        /\ sitting' \in Sitting!Sitting /\ Charged(sitting) \in Nat /\ Timely(sitting')
    BY <2>1, StoppedIs
  <2>3. /\ sitting'.start = sitting.start /\ sitting'.close = sitting.close
        /\ sitting'.activity = sitting.activity /\ sitting'.active = Charged(sitting)
        /\ sitting'.run = None /\ sitting'.n = sitting.n /\ sitting'.started = sitting.started
        /\ sitting'.completed = sitting.completed
    BY <2>1, <2>2 DEF Sitting!Sitting
  <2>4. Charged(sitting)' = Charged(sitting) /\ (~mounted => sitting'.active = sitting.active)
    <3>1. ~mounted => Charged(sitting) = sitting.active
      BY <1>3, <2>1 DEF SittingInv, ClockInv, Charged, Sitting!Sitting, Sitting!Times
    <3> QED BY <2>2, <2>3, <3>1 DEF Charged
  <2>5. Sitting!TypeOK' /\ FormInv'
    BY <1>1, <1>3, <2>1, <2>2 DEF SittingInv, Sitting!TypeOK, FormInv, LateOpen
  <2>6. TimesInv'
    BY <1>1, <2>1, <2>2 DEF TimesInv, Timely
  <2>7. ClockInv'
    BY <1>1, <1>3, <2>2, <2>3, <2>4 DEF SittingInv, ClockInv
  <2>8. ReportInv' /\ StepsInv'
    BY <1>1, <1>3, <2>1, <2>3 DEF SittingInv, ReportInv, StepsInv, LeftOnce
  <2>9. RowsInv'
    <3>1. /\ sitting.completed \in Nat /\ sitting.started \in Nat
          /\ sitting.completed + Awaited(tracker) + Awaited(late) <= sitting.started
      BY <1>3, <2>1 DEF SittingInv, RowsInv, Sitting!Sitting
    <3>2. /\ Awaited(tracker)' = Awaited(tracker) /\ Awaited(late)' = Awaited(late)
          /\ {Awaited(tracker), Awaited(late)} \subseteq {0, 1}
      BY <1>1 DEF Awaited
    <3>3. sitting.completed <= sitting.started
      BY <3>1, <3>2
    <3> QED BY <1>1, <2>1, <2>3, <3>1, <3>2, <3>3 DEF SittingInv, RowsInv
  <2> QED BY <2>5, <2>6, <2>7, <2>8, <2>9 DEF SittingInv
<1> QED BY <1>2, <1>3

\* A tab that is shown again opens one, if the form is on the page.
LEMMA ShowKeeps ==
  ASSUME Sitting!SittingAssumption, SittingInv, Sitting!Show
  PROVE  SittingInv'
<1>1. /\ UNCHANGED <<now, record, mounted, resumeAt, persist, tracker, late, saving, counted,
                     finished, worked, opened, ended>>
      /\ tab = "hidden" /\ tab' = "shown"
  BY DEF Sitting!Show, Sitting!visit
<1>2. CASE ~(sitting # None /\ mounted)
  <2>1. UNCHANGED <<sitting, quiet>>
    BY <1>2 DEF Sitting!Show
  <2>2. Sitting!TypeOK' /\ FormInv'
    BY <1>1, <1>2, <2>1 DEF SittingInv, Sitting!TypeOK, FormInv, LateOpen
  <2>3. TimesInv' /\ ClockInv' /\ ReportInv'
    BY <1>1, <1>2, <2>1 DEF SittingInv, TimesInv, ClockInv, ReportInv, Timely, Charged
  <2>4. RowsInv' /\ StepsInv'
    BY <1>1, <1>2, <2>1 DEF SittingInv, RowsInv, StepsInv, LeftOnce, Awaited
  <2> QED BY <2>2, <2>3, <2>4 DEF SittingInv
<1>3. CASE sitting # None /\ mounted
  <2> DEFINE u == [sitting EXCEPT !.activity = now]
  <2>1. /\ sitting \in Sitting!Sitting /\ now \in 1..MaxTime /\ Timely(sitting)
        /\ sitting.run = None /\ worked = Charged(sitting) /\ now \in Sitting!Times
        /\ None \notin Sitting!Sitting /\ Inactive \in Nat
        /\ sitting' = Sitting!Running(u, "shown") /\ quiet' = 0
    BY <1>1, <1>3
       DEF SittingInv, Sitting!TypeOK, TimesInv, ClockInv, Sitting!Show,
           Sitting!SittingAssumption, Sitting!Times
  <2>2. /\ u \in Sitting!Sitting /\ u.activity = now /\ u.run = None /\ u.active = sitting.active
        /\ u.start = sitting.start /\ u.close = sitting.close /\ u.n = sitting.n
        /\ u.started = sitting.started /\ u.completed = sitting.completed
    BY <2>1 DEF Sitting!Sitting
  <2>3. Timely(u)
    BY <2>1, <2>2 DEF Timely
  <2>4. /\ sitting' \in Sitting!Sitting
        /\ sitting' = [u EXCEPT !.run = IF u.run = None THEN now ELSE u.run]
        /\ sitting'.run # None /\ Charged(sitting') = Charged(u) /\ Timely(sitting')
    BY <2>1, <2>2, <2>3, RunningIs
  <2>5. /\ sitting'.start = sitting.start /\ sitting'.close = sitting.close
        /\ sitting'.activity = now /\ sitting'.n = sitting.n /\ sitting'.started = sitting.started
        /\ sitting'.completed = sitting.completed
    BY <2>2, <2>4 DEF Sitting!Sitting
  <2>6. Charged(u) = Charged(sitting) /\ Charged(sitting)' = Charged(sitting')
    BY <1>1, <2>1, <2>2 DEF Charged
  <2>7. Sitting!TypeOK' /\ FormInv'
    BY <1>1, <1>3, <2>1, <2>4 DEF SittingInv, Sitting!TypeOK, FormInv, LateOpen
  <2>8. TimesInv'
    BY <1>1, <2>4 DEF SittingInv, TimesInv, Timely
  <2>9. ClockInv'
    BY <1>1, <1>3, <2>1, <2>4, <2>5, <2>6 DEF ClockInv, Sitting!Min2
  <2>10. ReportInv' /\ StepsInv' /\ RowsInv'
    BY <1>1, <1>3, <2>5 DEF SittingInv, ReportInv, StepsInv, LeftOnce, RowsInv, Awaited
  <2> QED BY <2>7, <2>8, <2>9, <2>10 DEF SittingInv
<1> QED BY <1>2, <1>3

\* A page that comes back from the cache with the form open opens a new sitting.
LEMMA PageShowKeeps ==
  ASSUME Sitting!SittingAssumption, SittingInv, Sitting!PageShow
  PROVE  SittingInv'
<1>1. /\ UNCHANGED <<now, record, mounted, resumeAt, counted, ended, finished>>
      /\ tab = "frozen" /\ tab' = "shown" /\ saving' = FALSE /\ late' = None /\ sitting = None
      /\ mounted \in BOOLEAN /\ (mounted => record = None) /\ (mounted => resumeAt = None)
  BY DEF Sitting!PageShow, SittingInv, Sitting!TypeOK, FormInv
<1>2. CASE ~mounted
  <2>1. UNCHANGED <<sitting, opened, worked, quiet, tracker, persist>>
    BY <1>2 DEF Sitting!PageShow
  <2>2. Sitting!TypeOK' /\ FormInv'
    BY <1>1, <1>2, <2>1 DEF SittingInv, Sitting!TypeOK, FormInv, LateOpen
  <2>3. TimesInv' /\ ClockInv' /\ ReportInv'
    BY <1>1, <1>2, <2>1 DEF SittingInv, TimesInv, ClockInv, ReportInv, Timely
  <2>4. RowsInv' /\ StepsInv'
    BY <1>1, <1>2, <2>1 DEF SittingInv, RowsInv, StepsInv, LeftOnce
  <2> QED BY <2>2, <2>3, <2>4 DEF SittingInv
<1>3. CASE mounted
  <2> DEFINE again == Sitting!StartedAgain
             f == Sitting!FreshSitting(opened + 1)
             u == [f EXCEPT !.visits = 1, !.started = again]
  <2>1. /\ opened < MaxSittings /\ opened' = opened + 1 /\ worked' = 0 /\ quiet' = 0
        /\ sitting' = Sitting!Running(u, "shown") /\ persist' = TRUE
        /\ tracker' = (IF again = 1 THEN [tracker EXCEPT !.numbered = TRUE] ELSE tracker)
    BY <1>1, <1>3 DEF Sitting!PageShow
  <2>2. /\ now \in 1..MaxTime /\ now \in Sitting!Times /\ 0 \in Sitting!Times
        /\ opened \in 0..MaxSittings /\ MaxSittings \in Nat /\ MaxVisits \in Nat \ {0}
        /\ None \notin Sitting!Sitting /\ None \notin Sitting!Tracker /\ Inactive \in Nat
        /\ ended \in [1..MaxSittings -> 0..2]
    BY DEF SittingInv, Sitting!TypeOK, Sitting!SittingAssumption, Sitting!Times
  <2>a. again \in {0, 1}
    BY DEF Sitting!StartedAgain
  <2> HIDE DEF again
  <2>b. /\ f \in Sitting!Sitting /\ f.run = None /\ f.n = opened + 1 /\ f.completed = 0
        /\ f.active = 0 /\ f.start = now /\ f.close = 0 /\ f.activity = now
    BY <2>1, <2>2 DEF Sitting!FreshSitting, Sitting!Sitting
  <2> HIDE DEF f
  <2>3. /\ u \in Sitting!Sitting /\ u.run = None /\ u.n = opened + 1 /\ u.started = again
        /\ u.completed = 0 /\ u.active = 0 /\ u.start = now /\ u.close = 0 /\ u.activity = now
    <3>1. 1 \in 0..MaxVisits /\ again \in Nat
      BY <2>2, <2>a
    <3> QED BY <2>b, <3>1 DEF Sitting!Sitting
  <2> HIDE DEF u
  <2>4. Timely(u) /\ Charged(u) = 0
    BY <2>2, <2>3 DEF Timely, Charged
  <2>5. /\ sitting' \in Sitting!Sitting
        /\ sitting' = [u EXCEPT !.run = IF u.run = None THEN now ELSE u.run]
        /\ sitting'.run # None /\ Charged(sitting') = 0 /\ Timely(sitting')
    <3> DEFINE r == Sitting!Running(u, "shown")
    <3>1. /\ r \in Sitting!Sitting /\ r = [u EXCEPT !.run = IF u.run = None THEN now ELSE u.run]
          /\ r.run # None /\ Charged(r) = Charged(u) /\ Timely(r)
      BY <2>2, <2>3, <2>4, RunningIs
    <3>2. sitting' = r
      BY <2>1
    <3> HIDE DEF r
    <3> QED BY <2>4, <3>1, <3>2
  <2>6. /\ sitting'.n = opened + 1 /\ sitting'.started = again /\ sitting'.completed = 0
        /\ sitting'.activity = now
    BY <2>3, <2>5 DEF Sitting!Sitting
  <2>7. /\ tracker' \in Sitting!Tracker \cup {None} /\ LeftOnce(tracker')
        /\ tracker' # None => /\ tracker # None /\ tracker'.done = tracker.done
                              /\ tracker'.row = tracker.row
    <3>1. tracker \in Sitting!Tracker \cup {None} /\ LeftOnce(tracker)
      BY DEF SittingInv, Sitting!TypeOK, StepsInv
    <3>2. CASE again = 1
      <4>1. tracker # None /\ tracker \in Sitting!Tracker
        BY <3>1, <3>2 DEF again, Sitting!StartedAgain
      <4>2. /\ tracker' \in Sitting!Tracker /\ tracker'.done = tracker.done
            /\ tracker'.row = tracker.row /\ tracker'.left = tracker.left
            /\ tracker'.reported = tracker.reported
        BY <2>1, <3>2, <4>1 DEF Sitting!Tracker
      <4> QED BY <2>2, <3>1, <4>1, <4>2 DEF LeftOnce
    <3>3. CASE again # 1
      BY <2>1, <3>1, <3>3
    <3> QED BY <3>2, <3>3
  <2>8. Awaited(tracker)' <= again /\ Awaited(tracker)' \in {0, 1} /\ again \in {0, 1}
        /\ Awaited(late)' = 0
    BY <1>1, <2>7 DEF Awaited, again, Sitting!StartedAgain
  <2>9. Sitting!TypeOK'
    <3>1. opened' \in 0..MaxSittings /\ worked' \in Sitting!Times /\ quiet' \in 0..Inactive
      BY <2>1, <2>2
    <3> QED BY <1>1, <2>1, <2>5, <2>7, <3>1 DEF SittingInv, Sitting!TypeOK
  <2>10. FormInv'
    BY <1>1, <1>3, <2>2, <2>5 DEF FormInv, LateOpen
  <2>11. TimesInv' /\ ClockInv'
    BY <1>1, <1>3, <2>1, <2>2, <2>5, <2>6 DEF TimesInv, ClockInv, Timely, Charged, Sitting!Min2
  <2>12. ReportInv'
    BY <1>1, <1>3, <2>1, <2>2, <2>6 DEF SittingInv, ReportInv
  <2>13. RowsInv'
    <3>1. sitting'.completed + Awaited(tracker)' + Awaited(late)' <= sitting'.started
      BY <2>6, <2>8
    <3> QED BY <1>1, <1>3, <3>1 DEF SittingInv, RowsInv
  <2>14. StepsInv'
    BY <1>1, <2>7 DEF StepsInv, LeftOnce
  <2> QED BY <2>9, <2>10, <2>11, <2>12, <2>13, <2>14 DEF SittingInv
<1> QED BY <1>1, <1>2, <1>3

\* A document that is gone leaves at most the stored copy.
LEMMA UnloadKeeps ==
  ASSUME Sitting!SittingAssumption, SittingInv, Sitting!Unload
  PROVE  SittingInv'
<1>1. /\ sitting' = None /\ mounted' = FALSE /\ tab' = "shown" /\ resumeAt' = None
      /\ persist' = FALSE /\ tracker' = None /\ late' = None /\ saving' = FALSE
      /\ record' \in {record, None}
      /\ UNCHANGED <<now, counted, quiet, worked, opened, ended, finished>>
  BY DEF Sitting!Unload, Sitting!ghosts
<1>2. Sitting!TypeOK' /\ FormInv'
  BY <1>1 DEF SittingInv, Sitting!TypeOK, FormInv, LateOpen
<1>3. TimesInv' /\ ClockInv' /\ ReportInv'
  BY <1>1 DEF SittingInv, TimesInv, ClockInv, ReportInv, Timely
<1>4. RowsInv' /\ StepsInv'
  BY <1>1 DEF SittingInv, RowsInv, StepsInv, LeftOnce
<1> QED BY <1>2, <1>3, <1>4 DEF SittingInv

\* Time that passes is worked as long as the resident is not silent for longer than Idle.
LEMMA TickKeeps ==
  ASSUME Sitting!SittingAssumption, SittingInv, Sitting!Tick
  PROVE  SittingInv'
<1>1. /\ UNCHANGED <<sitting, record, mounted, tab, resumeAt, persist, tracker, late, saving,
                     counted, finished, opened, ended>>
      /\ late = None /\ now < MaxTime /\ now' = now + 1
      /\ quiet' = Sitting!Min2(quiet + 1, Inactive)
      /\ worked' = IF mounted /\ tab = "shown" /\ sitting # None /\ quiet < Inactive
                   THEN worked + 1 ELSE worked
  BY DEF Sitting!Tick, Sitting!visit
<1>2. /\ now \in 1..MaxTime /\ MaxTime \in Nat /\ Inactive \in Nat /\ quiet \in 0..Inactive
      /\ worked \in Sitting!Times /\ None \notin Nat
  BY DEF SittingInv, Sitting!TypeOK, Sitting!SittingAssumption
<1>3. ASSUME sitting # None
      PROVE  /\ quiet' = Sitting!Min2(now' - sitting.activity, Inactive)
             /\ worked' = Charged(sitting)' /\ worked' \in Sitting!Times
  <2>1. /\ sitting.activity \in Nat /\ sitting.active \in Nat /\ sitting.start \in Nat
        /\ sitting.run \in Nat \cup {None}
    BY <1>3 DEF SittingInv, Sitting!TypeOK, Sitting!Sitting, Sitting!Times
  <2>2. /\ Timely(sitting) /\ (sitting.run # None <=> mounted /\ tab = "shown")
        /\ quiet = Sitting!Min2(now - sitting.activity, Inactive) /\ worked = Charged(sitting)
    BY <1>3 DEF SittingInv, TimesInv, ClockInv
  <2>3. quiet' = Sitting!Min2(now' - sitting.activity, Inactive)
    BY <1>1, <1>2, <2>1, <2>2 DEF Sitting!Min2, Timely
  <2>4. CASE sitting.run = None
    BY <1>1, <1>2, <2>1, <2>2, <2>3, <2>4 DEF Charged
  <2>5. CASE sitting.run # None
    <3>1. worked = sitting.active + Sitting!Min2(now, sitting.activity + Inactive) - sitting.run
      BY <2>2, <2>5 DEF Charged
    <3>2. Charged(sitting)' = sitting.active + Sitting!Min2(now + 1, sitting.activity + Inactive)
                              - sitting.run
      BY <1>1, <2>5 DEF Charged
    <3>3. worked' = (IF quiet < Inactive THEN worked + 1 ELSE worked)
      BY <1>1, <1>3, <2>2, <2>5
    <3>4. /\ sitting.run \in Nat /\ sitting.run <= sitting.activity /\ sitting.activity <= now
          /\ 1 <= sitting.start /\ sitting.start + sitting.active <= sitting.run
      BY <2>1, <2>2, <2>5 DEF Timely
    <3>5. Charged(sitting)' = worked'
      <4>1. CASE now - sitting.activity < Inactive
        <5>1. quiet < Inactive /\ Sitting!Min2(now, sitting.activity + Inactive) = now
          BY <1>2, <2>1, <2>2, <4>1 DEF Sitting!Min2
        <5>2. Sitting!Min2(now + 1, sitting.activity + Inactive) = now + 1
          BY <1>2, <2>1, <4>1 DEF Sitting!Min2
        <5> QED BY <1>2, <2>1, <3>1, <3>2, <3>3, <3>4, <5>1, <5>2
      <4>2. CASE ~(now - sitting.activity < Inactive)
        <5>1. ~(quiet < Inactive)
          BY <1>2, <2>1, <2>2, <4>2 DEF Sitting!Min2
        <5>2. /\ Sitting!Min2(now, sitting.activity + Inactive) = sitting.activity + Inactive
              /\ Sitting!Min2(now + 1, sitting.activity + Inactive) = sitting.activity + Inactive
          BY <1>2, <2>1, <4>2 DEF Sitting!Min2
        <5> QED BY <3>1, <3>2, <3>3, <5>1, <5>2
      <4> QED BY <4>1, <4>2
    <3>6. Charged(sitting)' \in Nat /\ Charged(sitting)' <= now + 1
      BY <1>2, <2>1, <3>2, <3>4 DEF Sitting!Min2
    <3>7. now + 1 <= MaxTime
      BY <1>1, <1>2
    <3> QED BY <1>2, <2>3, <3>5, <3>6, <3>7 DEF Sitting!Times
  <2> QED BY <2>4, <2>5
<1>4. Sitting!TypeOK'
  <2>1. now' \in 1..MaxTime /\ quiet' \in 0..Inactive
    BY <1>1, <1>2 DEF Sitting!Min2
  <2>2. worked' \in Sitting!Times
    BY <1>1, <1>2, <1>3
  <2> QED BY <1>1, <2>1, <2>2 DEF SittingInv, Sitting!TypeOK
<1>5. FormInv'
  BY <1>1 DEF SittingInv, FormInv, LateOpen
<1>6. TimesInv'
  <2>1. ASSUME NEW s \in Sitting!Sitting, Timely(s) PROVE Timely(s)'
    BY <1>1, <1>2, <2>1 DEF Timely, Sitting!Sitting, Sitting!Times
  <2>2. {sitting, record} \subseteq Sitting!Sitting \cup {None}
    BY DEF SittingInv, Sitting!TypeOK
  <2> QED BY <1>1, <2>1, <2>2 DEF SittingInv, TimesInv
<1>7. ClockInv'
  BY <1>1, <1>3 DEF SittingInv, ClockInv
<1>8. ReportInv' /\ RowsInv' /\ StepsInv'
  BY <1>1 DEF SittingInv, ReportInv, RowsInv, Awaited, StepsInv, LeftOnce
<1> QED BY <1>4, <1>5, <1>6, <1>7, <1>8 DEF SittingInv

\* Every step of the learning record, of the open content or of its pages keeps the invariant.
LEMMA SittingStep ==
  ASSUME Sitting!SittingAssumption, SittingInv, [Next]_vars
  PROVE  SittingInv'
<1>1. CASE Sitting!Next
  BY <1>1, EnterFormKeeps, LeaveFormKeeps, NoteActivityKeeps, FinishKeeps, FinishAnsweredKeeps,
     EntryStartedKeeps, StepChangedKeeps, PersistFiresKeeps, EndsKeeps, HideKeeps, ShowKeeps,
     PageShowKeeps, UnloadKeeps, TickKeeps
     DEF Sitting!Next
<1>2. CASE UNCHANGED sittingVars
  BY <1>2, FinishKeeps
<1> QED BY <1>1, <1>2 DEF Next, vars, recordVars

\* The invariant holds at first: there is no sitting.
LEMMA SittingInit ==
  ASSUME Sitting!SittingAssumption, Init
  PROVE  SittingInv
<1> USE DEF Init, Sitting!Init
<1>1. Sitting!TypeOK
  <2>1. /\ now \in 1..MaxTime /\ quiet \in 0..Inactive /\ worked \in Sitting!Times
        /\ opened \in 0..MaxSittings
    BY DEF Sitting!SittingAssumption, Sitting!Times
  <2>2. ended \in [1..MaxSittings -> 0..2] /\ finished \in [Rows -> 0..2]
    OBVIOUS
  <2> QED BY <2>1, <2>2 DEF Sitting!TypeOK
<1>2. FormInv /\ TimesInv /\ ClockInv
  BY DEF FormInv, LateOpen, TimesInv, ClockInv
<1>3. ReportInv /\ RowsInv /\ StepsInv
  BY DEF ReportInv, RowsInv, StepsInv, LeftOnce
<1> QED BY <1>1, <1>2, <1>3 DEF SittingInv

\* The inductive invariant holds throughout.
THEOREM SittingHolds == Spec => []SittingInv
<1>1. Init => SittingInv
  BY SittingInit, LearningAssumption
<1>2. SittingInv /\ [Next]_vars => SittingInv'
  BY SittingStep, LearningAssumption
<1> QED BY <1>1, <1>2, PTL DEF Spec

\* A sitting is reported at most once, whichever of pagehide, the resume timer and a later
\* visit ends it (endSession).
THEOREM ReportedOnceHolds == Spec => []ReportedOnce
<1>1. SittingInv => ReportedOnce
  BY DEF SittingInv, ReportInv, ReportedOnce, Sitting!ReportedOnce
<1> QED BY <1>1, SittingHolds, PTL

\* The active time of the open sitting is the time worked, and no more than it lasted
\* (openActiveRun, closeActiveRun, noteActivity, endSession).
THEOREM ActiveTimeExactHolds == Spec => []ActiveTimeExact
<1>1. SittingInv => ActiveTimeExact
  <2> SUFFICES ASSUME SittingInv, sitting # None
               PROVE  /\ Sitting!Stopped(sitting).active = worked
                      /\ Sitting!Stopped(sitting).active <= Sitting!Duration(sitting, mounted)
    BY DEF ActiveTimeExact, Sitting!ActiveTimeExact, Sitting!ActiveWithinDuration
  <2>1. /\ Sitting!SittingAssumption /\ now \in 1..MaxTime /\ sitting \in Sitting!Sitting
        /\ Timely(sitting) /\ mounted \in BOOLEAN
    BY LearningAssumption DEF SittingInv, Sitting!TypeOK, TimesInv
  <2>2. /\ Sitting!Stopped(sitting) = [sitting EXCEPT !.active = Charged(sitting), !.run = None]
        /\ Charged(sitting) \in Nat /\ sitting.start + Charged(sitting) <= now
    BY <2>1, StoppedIs
  <2>3. Sitting!Stopped(sitting).active = Charged(sitting)
    BY <2>1, <2>2 DEF Sitting!Sitting
  <2>4. worked = Charged(sitting)
    BY DEF SittingInv, ClockInv
  <2>5. Charged(sitting) <= Sitting!Duration(sitting, mounted)
    <3>1. sitting.start \in Nat /\ sitting.close \in Nat /\ sitting.active \in Nat
      BY <2>1 DEF Sitting!Sitting, Sitting!Times
    <3>2. CASE mounted
      BY <2>1, <2>2, <3>1, <3>2 DEF Sitting!Duration, Sitting!ClosedAt
    <3>3. CASE ~mounted
      <4>1. /\ sitting.start + sitting.active <= sitting.close
            /\ sitting.run = None /\ 1 <= sitting.start
        BY <2>1, <3>3 DEF SittingInv, ClockInv, Timely
      <4>2. Charged(sitting) = sitting.active
        BY <3>1, <4>1 DEF Charged
      <4> QED BY <3>1, <3>3, <4>1, <4>2 DEF Sitting!Duration, Sitting!ClosedAt
    <3> QED BY <2>1, <3>2, <3>3
  <2> QED BY <2>3, <2>4, <2>5
<1> QED BY <1>1, SittingHolds, PTL

\* A form on the page has a sitting, and a sitting without its form has the timer that ends it
\* (enterForm, leaveForm).
THEOREM SittingFollowsFormHolds == Spec => []SittingFollowsForm
<1>1. SittingInv => SittingFollowsForm
  BY DEF SittingInv, FormInv, SittingFollowsForm, Sitting!SittingFollowsForm
<1> QED BY <1>1, SittingHolds, PTL

\* An achievement is completed at most once over all visits, no more achievements are completed
\* in a sitting than were started, and every question of a pass is left once (entryCompleted,
\* reportStep).
THEOREM CompletedOnceHolds == Spec => []CompletedOnce
<1>1. SittingInv => CompletedOnce
  <2> SUFFICES ASSUME SittingInv PROVE CompletedOnce
    OBVIOUS
  <2>1. Sitting!CompletedOnce
    BY DEF SittingInv, RowsInv, Sitting!CompletedOnce
  <2>2. Sitting!CompletedWereStarted
    <3>1. {Awaited(tracker), Awaited(late)} \subseteq {0, 1}
      BY DEF Awaited
    <3>2. sitting # None => /\ sitting.completed \in Nat /\ sitting.started \in Nat
                            /\ sitting.completed + Awaited(tracker) + Awaited(late)
                                 <= sitting.started
      BY DEF SittingInv, RowsInv, Sitting!TypeOK, Sitting!Sitting
    <3> QED BY <3>1, <3>2 DEF Sitting!CompletedWereStarted
  <2>3. Sitting!EachStepOnce
    BY DEF SittingInv, StepsInv, LeftOnce, Sitting!EachStepOnce
  <2> QED BY <2>1, <2>2, <2>3 DEF CompletedOnce
<1> QED BY <1>1, SittingHolds, PTL

-----------------------------------------------------------------------------
(* What the first page lists *)

\* The entries as they are read: the fetch has not been served, or it holds what the server does
\* unless a deletion of an earlier visit was carried out meanwhile.
Reads(q) ==
  \/ q = Home!Fetch
  \/ q.status = "done" /\ q.rows \in SUBSET Entries /\ (ui.doubt \/ q.rows = held)

\* The list is shown exactly when it is not being read, and only what is shown can be deleted; an
\* entry that is listed and gone is one whose deletion has not been answered.
HomeListInv ==
  part = "home" =>
    /\ held \in SUBSET Entries /\ seen \in (SUBSET Entries) \cup {None}
    /\ \A q \in wire : q.op = "list" => Reads(q)
    /\ \A q, r \in wire : q.op = "list" /\ r.op = "list" => q = r
    /\ seen = None <=> \E q \in wire : q.op = "list"
    /\ ui.target # None \/ (\E q \in wire : q.op = "delete") => seen # None
    /\ \A q \in wire : q.op = "delete" /\ q.status = "done" => q.ids \cap held = {}
    /\ seen # None /\ ~ui.doubt =>
         /\ held \subseteq seen
         /\ \A e \in seen \ held : \E q \in wire : q.op = "delete" /\ q.status = "done"
              /\ e \in q.ids

\* What leaves the rows, the list and the requests about them alone keeps the invariant.
LEMMA HomeListKept ==
  ASSUME HomeListInv, part = "home", part' = part, UNCHANGED <<held, seen>>, ui'.doubt = ui.doubt,
         ui'.target # None => seen # None,
         \A q \in wire' : \/ q \in wire
                          \/ q.op # "list" /\ (q.op = "delete" => q.status = "sent" /\ seen # None),
         \A q \in wire : q.op \in {"list", "delete"} => q \in wire'
  PROVE  HomeListInv'
<1>1. \A q \in wire' : q.op = "list" => q \in wire /\ Reads(q)'
  BY DEF HomeListInv, Reads
<1>2. (\E q \in wire : q.op = "list") <=> (\E q \in wire' : q.op = "list")
  BY <1>1
<1> QED BY <1>1, <1>2 DEF HomeListInv

\* The entries are read and listed.
LEMMA HomeReadKeeps ==
  ASSUME HomeInv, HomeListInv, part = "home", part' = part,
         Home!Hydrated \/ Home!ListServed(held)
  PROVE  HomeListInv'
<1>1. DOMAIN ui = HomeFields /\ \A q \in wire : DOMAIN q = RequestFields
  BY DEF HomeInv
<1>2. None \notin SUBSET Entries
  BY LearningAssumption DEF Home!HomeAssumption
<1>3. CASE Home!Hydrated
  <2>1. PICK q \in wire : /\ q.op = "list" /\ wire' = wire \ {q} /\ UNCHANGED held
                          /\ seen' = (IF q.status = "done" THEN q.rows ELSE {})
                          /\ ui' = [ui EXCEPT !.doubt = ui.doubt \/ q.status # "done"]
    BY <1>3 DEF Home!Hydrated, Home!Pending
  <2>2. /\ held \in SUBSET Entries /\ ui.target = None /\ Reads(q)
        /\ \A p \in wire : p.op # "delete" /\ (p.op = "list" => p = q)
    BY <2>1 DEF HomeListInv
  <2>3. /\ \A p \in wire' : p \in wire /\ p.op \notin {"list", "delete"}
        /\ ui'.target = None /\ (~ui'.doubt <=> ~ui.doubt /\ q.status = "done")
    BY <1>1, <2>1, <2>2 DEF HomeFields
  <2>4. /\ seen' \in SUBSET Entries /\ (~ui'.doubt => seen' = held)
    BY <2>1, <2>2, <2>3 DEF Reads, Home!Fetch
  <2> QED BY <1>2, <2>1, <2>2, <2>3, <2>4 DEF HomeListInv
<1>4. CASE Home!ListServed(held)
  <2>1. PICK q \in wire : /\ q.op = "list" /\ UNCHANGED <<held, seen, ui>>
                          /\ wire' = (wire \ {q}) \cup {[q EXCEPT !.status = "done", !.rows = held]}
    BY <1>4 DEF Home!ListServed
  <2> DEFINE r == [q EXCEPT !.status = "done", !.rows = held]
  <2>2. r.op = "list" /\ r.status = "done" /\ r.rows = held /\ r \in wire'
    BY <1>1, <2>1 DEF RequestFields
  <2>3. wire' = (wire \ {q}) \cup {r}
    BY <2>1
  <2> HIDE DEF r
  <2>4. /\ held \in SUBSET Entries /\ seen = None /\ ui.target = None
        /\ \A p \in wire : p.op # "delete" /\ (p.op = "list" => p = q)
    BY <2>1 DEF HomeListInv
  <2>5. \A p \in wire' : p.op # "delete" /\ (p.op = "list" => p = r)
    BY <2>2, <2>3, <2>4
  <2>6. r.status = "done" /\ r.rows \in SUBSET Entries /\ r.rows = held'
    BY <2>1, <2>2, <2>4
  <2> HIDE DEF r
  <2>7. ui'.target = None
    BY <2>1, <2>4
  <2> QED BY <2>1, <2>2, <2>4, <2>5, <2>6, <2>7 DEF HomeListInv, Reads
<1> QED BY <1>3, <1>4

\* Dialogs, PDFs and a deletion that is asked for change no row and no list.
LEMMA HomeAskKeeps ==
  ASSUME HomeInv, HomeListInv, part = "home", part' = part,
         \/ Home!CancelDelete \/ Home!ConfirmDelete \/ Home!OpenSheet \/ Home!CloseSheet
         \/ Home!DownloadAll \/ (\E e \in Entries : Home!AskDelete(e) \/ Home!Download(e))
         \/ \E q \in wire : Home!Captured(q) \/ Home!NextPage(q) \/ Home!SavedAll(q)
  PROVE  HomeListInv'
<1>1. DOMAIN ui = HomeFields /\ \A q \in wire : DOMAIN q = RequestFields
  BY DEF HomeInv
<1>2. ui.target # None => seen # None
  BY DEF HomeListInv
<1>3. CASE Home!CancelDelete \/ Home!OpenSheet \/ Home!CloseSheet
  <2>1. UNCHANGED <<held, seen, wire>> /\ ui'.doubt = ui.doubt /\ ui'.target \in {ui.target, None}
    BY <1>1, <1>3 DEF Home!CancelDelete, Home!OpenSheet, Home!CloseSheet, Home!Shows, HomeFields
  <2> QED BY <1>2, <2>1, HomeListKept
<1>4. ASSUME NEW e, Home!AskDelete(e) PROVE HomeListInv'
  <2>1. UNCHANGED <<held, seen, wire>> /\ ui'.doubt = ui.doubt /\ seen # None
    BY <1>1, <1>4 DEF Home!AskDelete, Home!Listed, Home!Once, Home!Shows, HomeFields
  <2> QED BY <2>1, HomeListKept
<1>5. CASE Home!ConfirmDelete
  <2> DEFINE r == Home!Request("delete", {ui.target})
  <2>1. /\ wire' = wire \cup {r} /\ UNCHANGED <<held, seen>> /\ ui.target # None
        /\ ui'.doubt = ui.doubt /\ ui'.target = ui.target
    BY <1>1, <1>5 DEF Home!ConfirmDelete, Home!Submitted, HomeFields
  <2>2. r.op = "delete" /\ r.status = "sent"
    BY RequestIs DEF Home!Request
  <2> HIDE DEF r
  <2> QED BY <1>2, <2>1, <2>2, HomeListKept
<1>6. CASE Home!DownloadAll
  <2> DEFINE r == [Home!Request("all", Home!Listed) EXCEPT !.rows = {}]
  <2>1. /\ wire' = wire \cup {r} /\ UNCHANGED <<held, seen>>
        /\ ui'.doubt = ui.doubt /\ ui'.target = ui.target
    BY <1>1, <1>6 DEF Home!DownloadAll, Home!Submitted, Home!Once, HomeFields
  <2>2. r.op = "all"
    BY RequestIs DEF RequestFields
  <2> HIDE DEF r
  <2> QED BY <1>2, <2>1, <2>2, HomeListKept
<1>7. ASSUME NEW e, Home!Download(e) PROVE HomeListInv'
  <2> DEFINE r == Home!Request("pdf", {e})
  <2>1. /\ wire' = wire \cup {r} /\ UNCHANGED <<held, seen>>
        /\ ui'.doubt = ui.doubt /\ ui'.target = ui.target
    BY <1>1, <1>7 DEF Home!Download, Home!Submitted, Home!Once, HomeFields
  <2>2. r.op = "pdf"
    BY RequestIs
  <2> HIDE DEF r
  <2> QED BY <1>2, <2>1, <2>2, HomeListKept
<1>8. ASSUME NEW q \in wire, Home!NextPage(q) PROVE HomeListInv'
  <2>1. PICK e \in q.ids \ q.rows :
          wire' = (wire \ {q}) \cup {[q EXCEPT !.rows = q.rows \cup {e}]}
    BY <1>8 DEF Home!NextPage
  <2> DEFINE r == [q EXCEPT !.rows = q.rows \cup {e}]
  <2>2. q.op = "all" /\ r.op = "all" /\ UNCHANGED <<held, seen, ui>>
    BY <1>1, <1>8 DEF Home!NextPage, RequestFields
  <2>3. wire' = (wire \ {q}) \cup {r}
    BY <2>1
  <2> HIDE DEF r
  <2> QED BY <1>2, <2>2, <2>3, HomeListKept
<1>9. ASSUME NEW q \in wire, Home!Captured(q) \/ Home!SavedAll(q) PROVE HomeListInv'
  <2>1. q.op \in {"pdf", "all"} /\ wire' = wire \ {q} /\ UNCHANGED <<held, seen>>
    BY <1>9 DEF Home!Captured, Home!SavedAll
  <2>2. ui'.doubt = ui.doubt /\ ui'.target = ui.target
    BY <1>1, <1>9 DEF Home!Captured, Home!SavedAll, Home!DrawPdf, HomeFields
  <2> QED BY <1>2, <2>1, <2>2, HomeListKept
<1> QED BY <1>3, <1>4, <1>5, <1>6, <1>7, <1>8, <1>9

\* A deletion is carried out, answered or lost, of this visit or of an earlier one.
LEMMA HomeDeletionKeeps ==
  ASSUME HomeInv, HomeListInv, part = "home", part' = part, NEW q \in wire,
         Home!Serve(q) \/ Home!Deleted(q) \/ Home!NotDeleted(q) \/ Home!StrayEnds(q)
  PROVE  HomeListInv'
<1>1. DOMAIN ui = HomeFields /\ \A p \in wire : DOMAIN p = RequestFields
  BY DEF HomeInv
<1>2. None \notin SUBSET Entries
  BY LearningAssumption DEF Home!HomeAssumption
<1>3. CASE Home!Serve(q)
  <2> DEFINE r == [q EXCEPT !.status = "done"]
  <2>1. /\ q.op = "delete" /\ UNCHANGED <<seen, ui>> /\ wire' = (wire \ {q}) \cup {r}
        /\ q.status = "sent" /\ held' = held \ q.ids
    BY <1>3 DEF Home!Serve, Home!Served, Home!Becomes
  <2>2. r.op = "delete" /\ r.status = "done" /\ r.ids = q.ids /\ r \in wire'
    BY <1>1, <2>1 DEF RequestFields
  <2> HIDE DEF r
  <2>3. seen # None
    BY <2>1 DEF HomeListInv
  <2>4. seen \in SUBSET Entries /\ held \in SUBSET Entries
    BY <2>3 DEF HomeListInv
  <2>5. \A p \in wire : p.op # "list"
    BY <2>3 DEF HomeListInv
  <2>6. \A p \in wire' : p.op # "list"
    BY <2>1, <2>2, <2>5
  <2>7. ASSUME ~ui'.doubt
        PROVE  /\ held' \subseteq seen'
               /\ \A e \in seen' \ held' :
                    \E p \in wire' : p.op = "delete" /\ p.status = "done" /\ e \in p.ids
    <3>1. ~ui.doubt
      BY <2>1, <2>7
    <3>2. /\ held \subseteq seen
          /\ \A e \in seen \ held :
               \E p \in wire : p.op = "delete" /\ p.status = "done" /\ e \in p.ids
      BY <2>3, <3>1 DEF HomeListInv
    <3>3. ASSUME NEW e \in seen' \ held'
          PROVE  \E p \in wire' : p.op = "delete" /\ p.status = "done" /\ e \in p.ids
      <4>1. CASE e \in q.ids
        BY <2>2, <4>1
      <4>2. CASE e \notin q.ids
        <5>1. PICK p \in wire : p.op = "delete" /\ p.status = "done" /\ e \in p.ids
          BY <2>1, <3>2, <3>3, <4>2
        <5>2. p \in wire'
          BY <2>1, <4>2, <5>1
        <5> QED BY <5>1, <5>2
      <4> QED BY <4>1, <4>2
    <3> QED BY <2>1, <3>2, <3>3
  <2>8. \A p \in wire' : p.op = "delete" /\ p.status = "done" => p.ids \cap held' = {}
    BY <2>1, <2>2 DEF HomeListInv
  <2> QED BY <2>1, <2>3, <2>4, <2>6, <2>7, <2>8 DEF HomeListInv
<1>4. CASE Home!Deleted(q) \/ Home!NotDeleted(q)
  <2>1. /\ q.op = "delete" /\ wire' = wire \ {q} /\ UNCHANGED held /\ ui'.target = None
        /\ \/ seen' = Home!Listed \ q.ids /\ ui'.doubt = ui.doubt /\ q.status = "done"
           \/ seen' = seen /\ (~ui'.doubt => ~ui.doubt /\ q.status = "sent")
    BY <1>1, <1>4 DEF Home!Deleted, Home!NotDeleted, Home!Answered, HomeFields
  <2>2. seen # None
    BY <2>1 DEF HomeListInv
  <2>3. seen \in SUBSET Entries /\ held \in SUBSET Entries
    BY <2>2 DEF HomeListInv
  <2>4. \A p \in wire : p.op # "list"
    BY <2>2 DEF HomeListInv
  <2>5. CASE seen' = seen /\ (~ui'.doubt => ~ui.doubt /\ q.status = "sent")
    <3>1. \A p \in wire : p.op = "delete" /\ p.status = "done" => p \in wire' \/ ui'.doubt
      BY <2>1, <2>5
    <3> QED BY <2>1, <2>2, <2>4, <2>5, <3>1 DEF HomeListInv
  <2>6. CASE seen' = Home!Listed \ q.ids /\ ui'.doubt = ui.doubt /\ q.status = "done"
    <3>1. seen' = seen \ q.ids /\ seen' \in SUBSET Entries /\ seen' # None
      BY <1>2, <2>2, <2>6, <2>3 DEF Home!Listed
    <3>2. q.ids \cap held = {}
      BY <2>1, <2>6 DEF HomeListInv
    <3>3. ~ui.doubt => /\ held \subseteq seen
                       /\ \A e \in seen \ held :
                            \E p \in wire : p.op = "delete" /\ p.status = "done" /\ e \in p.ids
      BY <2>2 DEF HomeListInv
    <3>4. ~ui'.doubt => /\ held \subseteq seen'
                        /\ \A e \in seen' \ held :
                             \E p \in wire' : p.op = "delete" /\ p.status = "done" /\ e \in p.ids
      BY <2>1, <2>6, <3>1, <3>2, <3>3
    <3> QED BY <2>1, <2>2, <2>4, <3>1, <3>4 DEF HomeListInv
  <2> QED BY <2>1, <2>5, <2>6
<1>5. CASE Home!StrayEnds(q)
  <2>1. /\ q.op = "stray" /\ wire' = wire \ {q} /\ UNCHANGED seen /\ ui'.target = ui.target
        /\ \/ UNCHANGED <<held, ui>>
           \/ held' = held \ q.ids /\ (~ui'.doubt => ~ui.doubt /\ Home!Fetch \in wire)
    BY <1>1, <1>5 DEF Home!StrayEnds, HomeFields
  <2>2. /\ \A p \in wire' : p \in wire
        /\ \A p \in wire : p.op \in {"list", "delete"} => p \in wire'
    BY <2>1
  <2>3. CASE UNCHANGED <<held, ui>>
    <3>1. ui.target # None => seen # None
      BY DEF HomeListInv
    <3> QED BY <2>1, <2>2, <2>3, <3>1, HomeListKept
  <2>4. CASE held' = held \ q.ids /\ (~ui'.doubt => ~ui.doubt /\ Home!Fetch \in wire)
    <3>1. Home!Fetch.op = "list"
      BY DEF Home!Fetch
    <3>2. ~ui'.doubt => seen = None
      BY <2>4, <3>1 DEF HomeListInv
    <3>3. \A p \in wire : p.op = "list" /\ ~ui'.doubt => p = Home!Fetch
      BY <2>4, <3>1 DEF HomeListInv
    <3>4. \A p \in wire' : p.op = "list" => Reads(p)'
      BY <2>2, <3>3 DEF HomeListInv, Reads
    <3>5. seen' = None <=> \E p \in wire' : p.op = "list"
      BY <2>1, <2>2 DEF HomeListInv
    <3>6. held' \in SUBSET Entries /\ seen' \in (SUBSET Entries) \cup {None}
      BY <2>1, <2>4 DEF HomeListInv
    <3>7. \A p \in wire' : p.op = "delete" /\ p.status = "done" => p.ids \cap held' = {}
      BY <2>2, <2>4 DEF HomeListInv
    <3>8. /\ \A p, r \in wire' : p.op = "list" /\ r.op = "list" => p = r
          /\ ui'.target # None \/ (\E p \in wire' : p.op = "delete") => seen' # None
      BY <2>1, <2>2 DEF HomeListInv
    <3> QED BY <2>1, <3>2, <3>4, <3>5, <3>6, <3>7, <3>8 DEF HomeListInv
  <2> QED BY <2>1, <2>3, <2>4
<1> QED BY <1>3, <1>4, <1>5

\* A visit reads the entries anew.
LEMMA HomeVisitKeeps ==
  ASSUME HomeInv, HomeListInv, part = "home", part' = part, Home!Visit
  PROVE  HomeListInv'
<1>1. /\ DOMAIN ui = HomeFields /\ \A q \in wire : DOMAIN q = RequestFields
      /\ held \in SUBSET Entries
  BY DEF HomeInv, HomeListInv
<1>2. seen' = None /\ held' \in SUBSET Entries
  BY <1>1 DEF Home!Visit
<1>3. ui'.target = None
  BY DEF Home!Visit, Home!Mounted
<1>4. wire' = {[q EXCEPT !.op = "stray"] : q \in Home!Pending("delete")}
              \cup Home!Pending("stray") \cup {Home!Fetch}
  BY DEF Home!Visit
<1>5. ASSUME NEW p \in wire', p # Home!Fetch PROVE p.op = "stray"
  <2>1. CASE p \in Home!Pending("stray")
    BY <2>1 DEF Home!Pending
  <2>2. CASE \E q \in Home!Pending("delete") : p = [q EXCEPT !.op = "stray"]
    BY <1>1, <2>2 DEF Home!Pending, RequestFields
  <2> QED BY <1>4, <1>5, <2>1, <2>2
<1>6. Home!Fetch \in wire' /\ Home!Fetch.op = "list"
  BY <1>4 DEF Home!Fetch
<1> QED BY <1>2, <1>3, <1>5, <1>6 DEF HomeListInv, Reads

\* Every step of the first page, and of any other part, keeps the invariant.
LEMMA HomeListStep ==
  ASSUME HomeInv, HomeListInv, [Next]_vars
  PROVE  HomeListInv'
<1>1. CASE part = "home" /\ part' = part /\ Home!Next
  BY <1>1, HomeReadKeeps, HomeAskKeeps, HomeDeletionKeeps, HomeVisitKeeps DEF Home!Next
<1>2. CASE part' = part /\ UNCHANGED pageVars
  BY <1>2 DEF pageVars, HomeListInv, Reads
<1>3. CASE part # "home" /\ part' = part
  BY <1>3 DEF HomeListInv
<1> QED BY <1>1, <1>2, <1>3 DEF Next, vars

LEMMA HomeListInit ==
  ASSUME Init PROVE HomeListInv
<1> SUFFICES ASSUME part = "home" PROVE HomeListInv
  BY DEF HomeListInv
<1>1. held \in SUBSET Entries /\ seen = None /\ wire = {Home!Fetch} /\ ui = Home!Mounted
  BY DEF Init, Home!Init
<1>2. Home!Fetch.op = "list" /\ ui.target = None
  BY <1>1 DEF Home!Fetch, Home!Mounted
<1> QED BY <1>1, <1>2 DEF HomeListInv, Reads

\* With nothing under way the list and the rows agree, unless an answer was lost.
LEMMA HomeListFresh ==
  ASSUME HomeListInv, part = "home" PROVE Home!QuietIsFresh
<1> SUFFICES ASSUME wire = {}, seen # None, ~ui.doubt PROVE seen = held
  BY DEF Home!QuietIsFresh, Home!Fresh
<1> QED BY DEF HomeListInv

-----------------------------------------------------------------------------
(* The knowledge center *)

Tabs == {"library", "video", "link"}
ContentFields == {"tab", "manages", "recent", "form", "sheet", "polling", "chains", "acts", "busy",
  "doubt"}
RowFields == {"at", "featured", "items", "ready"}

\* A list shows all of a row but whether it is ready; a sheet where it is visible.
Compared(which) == IF which = "list" THEN {"at", "featured", "items"} ELSE {"at"}
Matches(which, row, with) == \A f \in Compared(which) : row[f] = with[f]

\* The requests that change what the lists show, and the sheet.
SheetChanges == {"show", "hide", "show all", "hide all"}
ListChanges == SheetChanges \cup {"featured", "visible", "add"}
Changes(which) == IF which = "list" THEN ListChanges ELSE SheetChanges

\* A request asks for the list, or the sheet, of a tab; a change of it was carried out.
Asks(q, which, k) == q.op = which /\ q.ids = {k}
Changed(q, which, k) == q.op \in Changes(which) /\ q.status = "done" /\ k \in q.ids

\* What a list or a sheet shows is in doubt, or a change was carried out whose answer will have
\* it fetched, or it is being fetched and what was read still holds, or nothing is shown, or the
\* row as it is.
UpToDate(which, k) ==
  \/ <<which, k>> \in ui.doubt
  \/ \E q \in wire : Changed(q, which, k)
  \/ \E q \in wire : Asks(q, which, k) /\ (q.status = "sent" \/ Matches(which, q.rows, held[k]))
  \/ /\ seen[which][k] = None \/ Matches(which, seen[which][k], held[k])
     /\ \A q \in wire : ~Asks(q, which, k)

\* One fetch of each list and of each sheet at a time.
RequestTyped(q) ==
  /\ DOMAIN q = RequestFields /\ q.status \in {"sent", "done"} /\ q.ids \in SUBSET Tabs
  /\ q.op \in Content!Fetches => \E k \in Tabs : q.ids = {k}
Wires(w) ==
  /\ \A q \in w : RequestTyped(q)
  /\ \A q, r \in w : q.op \in Content!Fetches /\ q.op = r.op /\ q.ids = r.ids => q = r

\* Only those who manage several facilities have sheets, and they have no switch on a card; and
\* while the page polls there is a chain of polls.
PageTyped ==
  /\ DOMAIN ui = ContentFields /\ (ui.sheet # "" => ui.manages /\ ui.sheet \in Tabs)
  /\ \A q \in wire : q.op = "visible" => ~ui.manages
  /\ ui.polling => ui.chains # {}
RowsTyped ==
  /\ DOMAIN held = Tabs /\ \A k \in Tabs : DOMAIN held[k] = RowFields
  /\ DOMAIN seen = Content!Fetches /\ \A which \in Content!Fetches : DOMAIN seen[which] = Tabs

ContentInv ==
  part = "content" =>
    /\ PageTyped /\ RowsTyped /\ Wires(wire)
    /\ \A k \in Tabs : UpToDate("list", k) /\ (ui.sheet = k => UpToDate("sheet", k))

\* What starts to be fetched is up to date.
LEMMA BeingFetched ==
  ASSUME NEW which, NEW k, \E q \in wire' : Asks(q, which, k) /\ q.status = "sent"
  PROVE  UpToDate(which, k)'
BY DEF UpToDate, Asks

\* What stays as it is, with its fetch and the changes of it, stays up to date.
LEMMA StaysUpToDate ==
  ASSUME NEW which, NEW k, UpToDate(which, k), held' = held, seen'[which][k] = seen[which][k],
         <<which, k>> \in ui.doubt => <<which, k>> \in ui'.doubt,
         \A q \in wire : Asks(q, which, k) \/ Changed(q, which, k) => q \in wire',
         \A q \in wire' : Asks(q, which, k) => q \in wire
  PROVE  UpToDate(which, k)'
BY DEF UpToDate, Asks, Changed

\* Fetching replaces the fetches of some lists or sheets by new ones, and leaves the rest.
LEMMA FetchingIs ==
  ASSUME NEW which \in Content!Fetches, NEW kinds \in SUBSET Tabs, NEW w, Wires(w)
  PROVE  LET new == Content!Fetching(which, kinds, w) IN
         /\ Wires(new)
         /\ \A k \in kinds : \E q \in new : Asks(q, which, k) /\ q.status = "sent"
         /\ \A q \in w : q \in new \/ (q.op = which /\ q.ids \subseteq kinds)
         /\ \A q \in new : q \in w \/ \E k \in kinds : Asks(q, which, k)
<1> DEFINE new == Content!Fetching(which, kinds, w)
           Of(k) == [Content!Fetch EXCEPT !.op = which, !.ids = {k}]
<1>1. ASSUME NEW k \in kinds
      PROVE  RequestTyped(Of(k)) /\ Asks(Of(k), which, k) /\ Of(k).status = "sent"
  BY <1>1 DEF Content!Fetch, RequestTyped, RequestFields, Asks
<1>2. new = {q \in w : ~(q.op = which /\ q.ids \subseteq kinds)} \cup {Of(k) : k \in kinds}
  BY DEF Content!Fetching
<1> HIDE DEF new, Of
<1>3. \A q \in new : (q \in w /\ ~(q.op = which /\ q.ids \subseteq kinds))
        \/ \E k \in kinds : q = Of(k)
  BY <1>2
<1>4. \A q \in new : RequestTyped(q)
  BY <1>1, <1>3 DEF Wires
<1>5. ASSUME NEW q \in new, NEW r \in new, q.op \in Content!Fetches, q.op = r.op, q.ids = r.ids
      PROVE  q = r
  <2>1. CASE q \in w /\ r \in w
    BY <1>5, <2>1 DEF Wires
  <2>2. CASE q \notin w \/ r \notin w
    <3>1. q.op = which /\ \E k \in kinds : q.ids = {k} /\ r.ids = {k}
      BY <1>1, <1>3, <1>5, <2>2 DEF Asks
    <3>2. \E j \in kinds : q = Of(j)
      BY <1>3, <3>1
    <3>3. \E j \in kinds : r = Of(j)
      BY <1>3, <1>5, <3>1
    <3>4. PICK i \in kinds, j \in kinds : q = Of(i) /\ r = Of(j)
      BY <3>2, <3>3
    <3>5. q.ids = {i} /\ r.ids = {j}
      BY <1>1, <3>4 DEF Asks
    <3> QED BY <1>5, <3>4, <3>5
  <2> QED BY <2>1, <2>2
<1>6. \A k \in kinds : \E q \in new : Asks(q, which, k) /\ q.status = "sent"
  BY <1>1, <1>2
<1>7. \A q \in w : q \in new \/ (q.op = which /\ q.ids \subseteq kinds)
  BY <1>2
<1>8. \A q \in new : q \in w \/ \E k \in kinds : Asks(q, which, k)
  BY <1>1, <1>3
<1> QED BY <1>4, <1>5, <1>6, <1>7, <1>8 DEF Wires, new

\* A fetch that starts leaves the lists and sheets up to date that it is not about, and brings
\* the others up to date; a request that is answered may go if they are fetched.
LEMMA FetchKeeps ==
  ASSUME NEW op \in Content!Fetches, NEW kinds \in SUBSET Tabs, NEW w, w \subseteq wire,
           Wires(wire),
         wire' = Content!Fetching(op, kinds, w), held' = held,
         NEW which \in Content!Fetches, NEW k \in Tabs,
         (which = op /\ k \in kinds) \/ UpToDate(which, k),
         (which = op /\ k \in kinds) \/
           /\ \A q \in wire : Asks(q, which, k) \/ Changed(q, which, k) => q \in w
           /\ <<which, k>> \in ui.doubt => <<which, k>> \in ui'.doubt
           /\ seen'[which][k] = seen[which][k]
  PROVE  UpToDate(which, k)'
<1>1. Wires(w)
  BY DEF Wires
<1>2. /\ \A j \in kinds : \E q \in wire' : Asks(q, op, j) /\ q.status = "sent"
      /\ \A q \in w : q \in wire' \/ (q.op = op /\ q.ids \subseteq kinds)
      /\ \A q \in wire' : q \in w \/ \E j \in kinds : Asks(q, op, j)
  BY <1>1, FetchingIs
<1>3. CASE which = op /\ k \in kinds
  BY <1>2, <1>3, BeingFetched
<1>4. CASE ~(which = op /\ k \in kinds)
  <2>1. ASSUME NEW q \in wire, Asks(q, which, k) \/ Changed(q, which, k) PROVE q \in wire'
    <3>1. q \in w
      BY <1>4, <2>1
    <3>2. ~(q.op = op /\ q.ids \subseteq kinds)
      BY <1>4, <2>1 DEF Asks, Changed, Changes, ListChanges, SheetChanges, Content!Fetches
    <3> QED BY <1>2, <3>1, <3>2
  <2>2. \A q \in wire' : Asks(q, which, k) => q \in wire
    BY <1>2, <1>4 DEF Asks
  <2> QED BY <1>4, <2>1, <2>2, StaysUpToDate
<1> QED BY <1>3, <1>4

\* The page goes on, and nothing on the wire has to do with a fetch or a change that was carried
\* out.
LEMMA ContentStays ==
  ASSUME ContentInv, part = "content", part' = part, UNCHANGED <<held, seen>>, Wires(wire'),
         DOMAIN ui' = ContentFields, ui'.manages = ui.manages, ui'.doubt = ui.doubt,
         ui'.sheet \in {ui.sheet, ""}, ui'.polling => ui'.chains # {},
         \A q \in wire : q.op \in Content!Fetches \/ (q.op \in ListChanges /\ q.status = "done")
                         => q \in wire',
         \A q \in wire' : q \in wire \/ (q.op \notin Content!Fetches
           /\ (q.op = "visible" => ~ui.manages))
  PROVE  ContentInv'
<1>1. PageTyped' /\ RowsTyped'
  BY DEF ContentInv, PageTyped, RowsTyped
<1>2. ASSUME NEW which \in Content!Fetches, NEW k \in Tabs, UpToDate(which, k)
      PROVE  UpToDate(which, k)'
  <2>1. \A q \in wire : Asks(q, which, k) \/ Changed(q, which, k) => q \in wire'
    BY DEF Asks, Changed, Changes, ListChanges
  <2>2. \A q \in wire' : Asks(q, which, k) => q \in wire
    BY DEF Asks
  <2> QED BY <1>2, <2>1, <2>2, StaysUpToDate
<1>3. \A k \in Tabs : UpToDate("list", k)' /\ (ui'.sheet = k => UpToDate("sheet", k)')
  BY <1>2 DEF ContentInv, Content!Fetches, Tabs
<1> QED BY <1>1, <1>3 DEF ContentInv

\* Tabs, forms, sheets and the second that passes change nothing that is shown or under way; nor
\* does an answered poll, and the last one ends the refusal.
LEMMA ContentShows ==
  ASSUME ContentInv, part = "content", part' = part,
         \/ Content!Done \/ Content!CancelForm
         \/ (\E k \in Tabs : Content!SwitchTab(k) \/ Content!AddForm(k))
         \/ (\E op \in {"featured", "visible"}, k \in Tabs : Content!SecondPasses(op, k))
         \/ (\E c \in ui.chains : Content!PollAnswered(c))
         \/ (\E c \in ui.chains : Content!Poll(c) /\ ~ui.polling)
  PROVE  ContentInv'
<1>1. DOMAIN ui = ContentFields /\ (ui.polling => ui.chains # {}) /\ Wires(wire)
  BY DEF ContentInv, PageTyped
<1>2. /\ UNCHANGED <<held, seen, wire>> /\ DOMAIN ui' = ContentFields
      /\ ui'.manages = ui.manages /\ ui'.doubt = ui.doubt /\ ui'.sheet \in {ui.sheet, ""}
      /\ ui'.polling => ui'.chains # {}
  <2>1. CASE \/ Content!Done \/ Content!CancelForm
             \/ (\E k \in Tabs : Content!SwitchTab(k) \/ Content!AddForm(k))
             \/ (\E op \in {"featured", "visible"}, k \in Tabs : Content!SecondPasses(op, k))
    BY <1>1, <2>1
       DEF Content!Done, Content!CancelForm, Content!SwitchTab, Content!AddForm,
           Content!SecondPasses, Content!Shows, Content!Once, ContentFields
  <2>2. ASSUME NEW c \in ui.chains, Content!PollAnswered(c)
        PROVE  /\ UNCHANGED <<held, seen, wire>> /\ DOMAIN ui' = ContentFields
               /\ ui'.manages = ui.manages /\ ui'.doubt = ui.doubt /\ ui'.sheet = ui.sheet
               /\ ui'.polling => ui'.chains # {}
    <3>1. UNCHANGED <<held, seen, wire>> /\ ui' = Content!Polled(c)
      BY <2>2 DEF Content!PollAnswered, Content!Shows
    <3>2. CASE c.tick = Polls
      BY <1>1, <3>1, <3>2 DEF Content!Polled, ContentFields
    <3>3. CASE c.tick # Polls
      <4> DEFINE d == [c EXCEPT !.asked = FALSE, !.tick = @ + 1]
      <4>1. ui' = [ui EXCEPT !.chains = (ui.chains \ {c}) \cup {d}]
        BY <1>1, <3>1, <3>3 DEF Content!Polled, ContentFields
      <4> HIDE DEF d
      <4> QED BY <1>1, <3>1, <4>1 DEF ContentFields
    <3> QED BY <3>2, <3>3
  <2>3. ASSUME NEW c \in ui.chains, Content!Poll(c), ~ui.polling
        PROVE  /\ UNCHANGED <<held, seen, wire>> /\ DOMAIN ui' = ContentFields
               /\ ui'.manages = ui.manages /\ ui'.doubt = ui.doubt /\ ui'.sheet = ui.sheet
               /\ ~ui'.polling
    BY <1>1, <2>3 DEF Content!Poll, ContentFields
  <2> QED BY <2>1, <2>2, <2>3
<1> QED BY <1>1, <1>2, ContentStays

\* A change is sent.
LEMMA ContentSends ==
  ASSUME ContentInv, part = "content", part' = part, NEW op, op \notin Content!Fetches,
           NEW k \in Tabs,
         Content!Sends(op, k), op = "visible" => ~ui.manages,
         DOMAIN ui' = ContentFields, ui'.manages = ui.manages, ui'.doubt = ui.doubt,
         ui'.sheet = ui.sheet, ui'.polling = ui.polling, ui'.chains = ui.chains
  PROVE  ContentInv'
<1> DEFINE r == Content!Writing(op, k, ui.acts)
<1>1. wire' = wire \cup {r} /\ UNCHANGED <<held, seen>>
  BY DEF Content!Sends
<1>2. RequestTyped(r) /\ r.op = op /\ r.status = "sent"
  BY DEF Content!Writing, Content!Request, RequestTyped, RequestFields, Tabs
<1> HIDE DEF r
<1>3. Wires(wire')
  BY <1>1, <1>2 DEF ContentInv, Wires
<1>4. ui'.polling => ui'.chains # {}
  BY DEF ContentInv, PageTyped
<1> QED BY <1>1, <1>2, <1>3, <1>4, ContentStays

LEMMA ContentAsks ==
  ASSUME ContentInv, part = "content", part' = part,
         \/ (\E op \in {"featured", "visible"}, k \in Tabs : Content!Toggle(op, k))
         \/ (\E op \in SheetChanges, k \in Tabs : Content!SetVisibility(k, op))
         \/ (\E k \in Tabs : Content!SubmitForm(k))
         \/ Content!Retry
  PROVE  ContentInv'
<1>1. DOMAIN ui = ContentFields
  BY DEF ContentInv, PageTyped
<1>2. ASSUME NEW op \in {"featured", "visible"}, NEW k \in Tabs, Content!Toggle(op, k)
      PROVE  ContentInv'
  <2>1. /\ Content!Sends(op, k) /\ (op = "visible" => ~ui.manages)
        /\ ui' = [Content!Once EXCEPT !.recent = @ \cup {<<op, k>>}]
    BY <1>2 DEF Content!Toggle
  <2>2. /\ DOMAIN ui' = ContentFields /\ ui'.manages = ui.manages /\ ui'.doubt = ui.doubt
        /\ ui'.sheet = ui.sheet /\ ui'.polling = ui.polling /\ ui'.chains = ui.chains
    BY <1>1, <2>1 DEF Content!Once, ContentFields
  <2> QED BY <2>1, <2>2, ContentSends DEF Content!Fetches
<1>3. ASSUME NEW op \in SheetChanges, NEW k \in Tabs, Content!SetVisibility(k, op) PROVE ContentInv'
  <2>1. Content!Sends(op, k) /\ ui' = Content!Once
    BY <1>3 DEF Content!SetVisibility
  <2>2. /\ DOMAIN ui' = ContentFields /\ ui'.manages = ui.manages /\ ui'.doubt = ui.doubt
        /\ ui'.sheet = ui.sheet /\ ui'.polling = ui.polling /\ ui'.chains = ui.chains
    BY <1>1, <2>1 DEF Content!Once, ContentFields
  <2> QED BY <2>1, <2>2, ContentSends DEF Content!Fetches, SheetChanges
<1>4. ASSUME NEW k \in Tabs, Content!SubmitForm(k) PROVE ContentInv'
  <2>1. Content!Sends("add", k) /\ ui' = Content!Submitted(Content!Once, k)
    BY <1>4 DEF Content!SubmitForm
  <2>2. /\ DOMAIN ui' = ContentFields /\ ui'.manages = ui.manages /\ ui'.doubt = ui.doubt
        /\ ui'.sheet = ui.sheet /\ ui'.polling = ui.polling /\ ui'.chains = ui.chains
    BY <1>1, <2>1 DEF Content!Submitted, Content!Once, ContentFields
  <2> QED BY <2>1, <2>2, ContentSends DEF Content!Fetches
<1>5. CASE Content!Retry
  <2>1. Content!Sends("retry", "video") /\ ui' = Content!Once
    BY <1>5 DEF Content!Retry
  <2>2. /\ DOMAIN ui' = ContentFields /\ ui'.manages = ui.manages /\ ui'.doubt = ui.doubt
        /\ ui'.sheet = ui.sheet /\ ui'.polling = ui.polling /\ ui'.chains = ui.chains
    BY <1>1, <2>1 DEF Content!Once, ContentFields
  <2> QED BY <2>1, <2>2, ContentSends DEF Content!Fetches, Tabs
<1> QED BY <1>2, <1>3, <1>4, <1>5

\* Lists are fetched, with a new query or the old, once an answer to a request about them is gone.
LEMMA ListsFetched ==
  ASSUME ContentInv, part = "content", part' = part, NEW kinds \in SUBSET Tabs, NEW w,
           w \subseteq wire,
         wire' = Content!Fetching("list", kinds, w), held' = held,
         \A q \in wire \ w : q.op \notin Content!Fetches
                             /\ \A k \in Tabs : /\ Changed(q, "list", k) => k \in kinds
                                                /\ ~Changed(q, "sheet", k),
         DOMAIN ui' = ContentFields, ui'.doubt = ui.doubt \ {<<"list", k>> : k \in kinds},
         ui'.manages = ui.manages, ui'.sheet = ui.sheet, ui'.polling => ui'.chains # {},
         DOMAIN seen' = DOMAIN seen, DOMAIN seen'.list = Tabs, seen'.sheet = seen.sheet,
         \A k \in Tabs \ kinds : seen'.list[k] = seen.list[k]
  PROVE  ContentInv'
<1>1. PageTyped /\ RowsTyped /\ Wires(wire) /\ Wires(w)
  BY DEF ContentInv, Wires
<1>2. /\ Wires(wire') /\ \A q \in wire' : q \in wire \/ q.op = "list"
  <2>1. Wires(wire') /\ \A q \in wire' : q \in w \/ \E k \in kinds : Asks(q, "list", k)
    <3>1. "list" \in Content!Fetches
      BY DEF Content!Fetches
    <3> QED BY <1>1, <3>1, FetchingIs
  <2> QED BY <2>1 DEF Asks
<1>3. \A v, k : <<v, k>> \in ui.doubt /\ ~(v = "list" /\ k \in kinds) => <<v, k>> \in ui'.doubt
  OBVIOUS
<1>4. PageTyped' /\ RowsTyped'
  <2>1. PageTyped'
    BY <1>1, <1>2, <1>3 DEF PageTyped
  <2>2. RowsTyped'
    BY <1>1 DEF RowsTyped, Content!Fetches
  <2> QED BY <2>1, <2>2
<1>5. ASSUME NEW k \in Tabs PROVE UpToDate("list", k)' /\ (ui'.sheet = k => UpToDate("sheet", k)')
  <2>1. UpToDate("list", k) /\ (ui.sheet = k => UpToDate("sheet", k))
    BY DEF ContentInv
  <2>2. ASSUME NEW which \in Content!Fetches, UpToDate(which, k) PROVE UpToDate(which, k)'
    <3>1. CASE which = "list" /\ k \in kinds
      BY <1>1, <3>1, FetchKeeps DEF Content!Fetches
    <3>2. CASE ~(which = "list" /\ k \in kinds)
      <4>1. \A q \in wire : Asks(q, which, k) \/ Changed(q, which, k) => q \in w
        BY <2>2, <3>2 DEF Asks, Content!Fetches
      <4>2. seen'[which][k] = seen[which][k]
        BY <2>2, <3>2 DEF Content!Fetches
      <4>3. <<which, k>> \in ui.doubt => <<which, k>> \in ui'.doubt
        BY <1>3, <3>2
      <4> QED BY <1>1, <2>2, <3>2, <4>1, <4>2, <4>3, FetchKeeps DEF Content!Fetches
    <3> QED BY <3>1, <3>2
  <2> QED BY <2>1, <2>2 DEF Content!Fetches
<1> QED BY <1>2, <1>4, <1>5 DEF ContentInv

LEMMA ContentQueries ==
  ASSUME ContentInv, part = "content", part' = part, NEW kinds \in Content!Queried,
         Content!QueryLists(kinds)
  PROVE  ContentInv'
<1>1. DOMAIN ui = ContentFields /\ RowsTyped /\ (ui.polling => ui.chains # {})
  BY DEF ContentInv, PageTyped
<1>2. kinds \in SUBSET Tabs
  BY DEF Content!Queried, Tabs
<1>3. /\ DOMAIN ui' = ContentFields /\ ui'.doubt = ui.doubt \ {<<"list", k>> : k \in kinds}
      /\ ui'.manages = ui.manages /\ ui'.sheet = ui.sheet /\ (ui'.polling => ui'.chains # {})
  BY <1>1 DEF Content!QueryLists, Content!Once, Content!Certain, ContentFields
<1>4. /\ wire' = Content!Fetching("list", kinds, wire) /\ held' = held
      /\ seen' = [seen EXCEPT !.list = [k \in Tabs |-> IF k \in kinds THEN None ELSE seen.list[k]]]
  BY <1>1 DEF Content!QueryLists, RowsTyped, Content!Fetches, Tabs
<1>5. /\ DOMAIN seen' = DOMAIN seen /\ DOMAIN seen'.list = Tabs /\ seen'.sheet = seen.sheet
      /\ \A k \in Tabs \ kinds : seen'.list[k] = seen.list[k]
  BY <1>1, <1>4 DEF RowsTyped, Content!Fetches
<1> QED BY <1>1, <1>2, <1>3, <1>4, <1>5, ListsFetched

\* A video that is polled for has its list fetched.
LEMMA ContentPolls ==
  ASSUME ContentInv, part = "content", part' = part, NEW c \in ui.chains, Content!Poll(c),
           ui.polling
  PROVE  ContentInv'
<1>1. DOMAIN ui = ContentFields /\ RowsTyped
  BY DEF ContentInv, PageTyped
<1> DEFINE d == [c EXCEPT !.asked = TRUE]
<1>2. /\ wire' = Content!Fetching("list", {"video"}, wire) /\ UNCHANGED <<held, seen>>
      /\ ui' = [Content!Certain(ui, "list", {"video"}) EXCEPT !.chains = (@ \ {c}) \cup {d}]
  BY DEF Content!Poll
<1> HIDE DEF d
<1>3. /\ DOMAIN ui' = ContentFields /\ ui'.doubt = ui.doubt \ {<<"list", k>> : k \in {"video"}}
      /\ ui'.manages = ui.manages /\ ui'.sheet = ui.sheet /\ d \in ui'.chains
  BY <1>1, <1>2 DEF Content!Certain, ContentFields
<1>4. {"video"} \in SUBSET Tabs
  BY DEF Tabs
<1>5. DOMAIN seen'.list = Tabs
  BY <1>1, <1>2 DEF RowsTyped, Content!Fetches
<1> QED BY <1>1, <1>2, <1>3, <1>4, <1>5, ListsFetched

\* The sheet of a tab is opened and fetched.
LEMMA ContentManages ==
  ASSUME ContentInv, part = "content", part' = part, NEW k \in Tabs, Content!Manage(k)
  PROVE  ContentInv'
<1>1. PageTyped /\ RowsTyped /\ Wires(wire)
  BY DEF ContentInv
<1>2. /\ wire' = Content!Fetching("sheet", {k}, wire) /\ UNCHANGED <<held, seen>>
      /\ ui' = Content!Certain([Content!Once EXCEPT !.sheet = k], "sheet", {k}) /\ ui.manages
  BY DEF Content!Manage
<1>3. /\ DOMAIN ui' = ContentFields
      /\ ui'.manages = ui.manages /\ ui'.sheet = k
      /\ ui'.polling = ui.polling /\ ui'.chains = ui.chains
      /\ ui'.doubt = ui.doubt \ {<<"sheet", j>> : j \in {k}}
  BY <1>1, <1>2 DEF PageTyped, Content!Once, Content!Certain, ContentFields
<1>4. /\ \A j : <<"list", j>> \in ui.doubt => <<"list", j>> \in ui'.doubt
      /\ ui'.polling => ui'.chains # {}
  BY <1>1, <1>3 DEF PageTyped
<1>5. {k} \in SUBSET Tabs /\ "sheet" \in Content!Fetches /\ "list" \in Content!Fetches
  BY DEF Content!Fetches
<1>6. Wires(wire') /\ \A q \in wire' : q \in wire \/ q.op = "sheet"
  <2>1. Wires(wire') /\ \A q \in wire' : q \in wire \/ \E j \in {k} : Asks(q, "sheet", j)
    <3> DEFINE kinds == {k}
    <3>1. kinds \in SUBSET Tabs /\ wire' = Content!Fetching("sheet", kinds, wire)
      BY <1>2, <1>5
    <3> HIDE DEF kinds
    <3>2. Wires(wire') /\ \A q \in wire' : q \in wire \/ \E j \in kinds : Asks(q, "sheet", j)
      BY <1>1, <1>5, <3>1, FetchingIs
    <3> QED BY <3>2 DEF kinds
  <2> QED BY <2>1 DEF Asks
<1>7. PageTyped' /\ RowsTyped'
  BY <1>1, <1>2, <1>3, <1>4, <1>6 DEF PageTyped, RowsTyped
<1>8. UpToDate("sheet", k)'
  BY <1>1, <1>2, <1>5, FetchKeeps
<1>9. ASSUME NEW j \in Tabs PROVE UpToDate("list", j)'
  <2>1. UpToDate("list", j)
    BY DEF ContentInv
  <2> QED BY <1>1, <1>2, <1>4, <1>5, <2>1, FetchKeeps
<1> QED BY <1>3, <1>6, <1>7, <1>8, <1>9 DEF ContentInv

\* A list or a sheet is read, and shown or lost.
LEMMA ContentFetches ==
  ASSUME ContentInv, part = "content", part' = part, NEW q \in wire,
         Content!FetchServed(q) \/ Content!FetchArrives(q) \/ Content!FetchLost(q)
  PROVE  ContentInv'
<1>1. PageTyped /\ RowsTyped /\ Wires(wire) /\ RequestTyped(q) /\ q.op \in Content!Fetches
  BY DEF ContentInv, Wires, Content!FetchServed, Content!FetchArrives, Content!FetchLost,
     Content!Fetches
<1>2. PICK k \in Tabs : q.ids = {k}
  BY <1>1 DEF RequestTyped
<1>3. \A r \in wire : Asks(r, q.op, k) => r = q
  BY <1>1, <1>2 DEF Wires, Asks
<1>4. SUFFICES ASSUME TRUE
      PROVE  /\ PageTyped' /\ RowsTyped' /\ Wires(wire') /\ ui'.sheet = ui.sheet
             /\ \A which \in Content!Fetches, j \in Tabs : UpToDate(which, j) => UpToDate(which, j)'
  BY DEF ContentInv, Content!Fetches
<1>5. CASE Content!FetchServed(q)
  <2> DEFINE r == [q EXCEPT !.status = "done", !.rows = held[k]]
  <2>1. wire' = (wire \ {q}) \cup {r} /\ UNCHANGED <<held, seen, ui>> /\ q.status = "sent"
    BY <1>2, <1>5 DEF Content!FetchServed
  <2>2. RequestTyped(r) /\ r.op = q.op /\ r.ids = q.ids /\ r.rows = held[k] /\ r.status = "done"
    BY <1>1 DEF RequestTyped, RequestFields
  <2> HIDE DEF r
  <2>3. Wires(wire')
    <3>1. \A p \in wire' : p = r \/ (p \in wire /\ p # q)
      BY <2>1
    <3>2. \A p \in wire : p # q => ~(p.op = q.op /\ p.ids = q.ids)
      BY <1>1 DEF Wires
    <3> QED BY <1>1, <2>2, <3>1, <3>2 DEF Wires
  <2>4. PageTyped' /\ RowsTyped'
    BY <1>1, <2>1, <2>2 DEF PageTyped, RowsTyped, Content!Fetches
  <2>5. ASSUME NEW which \in Content!Fetches, NEW j \in Tabs, UpToDate(which, j)
        PROVE  UpToDate(which, j)'
    <3>1. CASE which = q.op /\ j = k
      <4>1. Asks(r, which, j) /\ r \in wire' /\ Matches(which, r.rows, held[j])
        BY <1>2, <2>1, <2>2, <3>1 DEF Asks, Matches
      <4> QED BY <2>1, <4>1 DEF UpToDate
    <3>2. CASE ~(which = q.op /\ j = k)
      <4>1. ~Asks(q, which, j) /\ ~Asks(r, which, j) /\ ~Changed(q, which, j)
        BY <1>2, <2>1, <2>2, <3>2 DEF Asks, Changed
      <4> QED BY <2>1, <2>5, <4>1, StaysUpToDate
    <3> QED BY <3>1, <3>2
  <2> QED BY <2>1, <2>3, <2>4, <2>5
<1>6. CASE Content!FetchArrives(q)
  <2>1. wire' = wire \ {q} /\ UNCHANGED <<held, ui>> /\ seen' = [seen EXCEPT ![q.op][k] = q.rows]
          /\ q.status = "done"
    BY <1>2, <1>6 DEF Content!FetchArrives
  <2>2. Wires(wire') /\ PageTyped'
    BY <1>1, <2>1 DEF Wires, PageTyped
  <2>3. /\ DOMAIN seen' = DOMAIN seen /\ \A which \in Content!Fetches : DOMAIN seen'[which] = Tabs
        /\ seen'[q.op][k] = q.rows
        /\ \A which \in Content!Fetches, j \in Tabs :
             ~(which = q.op /\ j = k) => seen'[which][j] = seen[which][j]
    BY <1>1, <2>1 DEF RowsTyped
  <2>4. RowsTyped'
    BY <1>1, <2>1, <2>3 DEF RowsTyped
  <2>5. ASSUME NEW which \in Content!Fetches, NEW j \in Tabs, UpToDate(which, j)
        PROVE  UpToDate(which, j)'
    <3>1. CASE which = q.op /\ j = k
      <4>1. \A r \in wire' : ~Asks(r, which, j)
        BY <1>3, <2>1, <3>1
      <4>2. \A r \in wire : Changed(r, which, j) => r \in wire'
        BY <1>1, <2>1 DEF Changed, Changes, ListChanges, SheetChanges, Content!Fetches
      <4>3. Asks(q, which, j)
        BY <1>2, <3>1 DEF Asks
      <4>4. \A r \in wire : Asks(r, which, j) => r.status = "done" /\ r.rows = q.rows
        BY <1>3, <2>1, <3>1
      <4> QED BY <2>1, <2>3, <2>5, <3>1, <4>1, <4>2, <4>3, <4>4 DEF UpToDate
    <3>2. CASE ~(which = q.op /\ j = k)
      <4>1. ~Asks(q, which, j) /\ ~Changed(q, which, j)
        BY <1>1, <1>2, <3>2
           DEF Asks, Changed, Changes, ListChanges, SheetChanges, Content!Fetches
      <4>2. /\ \A r \in wire : Asks(r, which, j) \/ Changed(r, which, j) => r \in wire'
            /\ \A r \in wire' : Asks(r, which, j) => r \in wire
        BY <2>1, <4>1
      <4>3. seen'[which][j] = seen[which][j] /\ UNCHANGED <<held, ui>>
        BY <2>1, <2>3, <3>2
      <4> QED BY <2>5, <4>2, <4>3, StaysUpToDate
    <3> QED BY <3>1, <3>2
  <2> QED BY <2>1, <2>2, <2>4, <2>5
<1>7. CASE Content!FetchLost(q)
  <2>1. /\ wire' = wire \ {q} /\ UNCHANGED <<held, seen>>
        /\ ui' = [ui EXCEPT !.doubt = ui.doubt \cup {<<q.op, j>> : j \in {k}}]
    BY <1>2, <1>7 DEF Content!FetchLost
  <2>2. /\ DOMAIN ui' = ContentFields /\ ui'.manages = ui.manages /\ ui'.sheet = ui.sheet
        /\ ui'.polling = ui.polling /\ ui'.chains = ui.chains
        /\ ui.doubt \subseteq ui'.doubt /\ <<q.op, k>> \in ui'.doubt
    BY <1>1, <2>1 DEF PageTyped, ContentFields
  <2>3. Wires(wire') /\ PageTyped' /\ RowsTyped'
    BY <1>1, <2>1, <2>2 DEF Wires, PageTyped, RowsTyped
  <2>4. ASSUME NEW which \in Content!Fetches, NEW j \in Tabs, UpToDate(which, j)
        PROVE  UpToDate(which, j)'
    <3>1. CASE which = q.op /\ j = k
      BY <2>2, <3>1 DEF UpToDate
    <3>2. CASE ~(which = q.op /\ j = k)
      <4>1. ~Asks(q, which, j) /\ ~Changed(q, which, j)
        BY <1>1, <1>2, <3>2
           DEF Asks, Changed, Changes, ListChanges, SheetChanges, Content!Fetches
      <4> QED BY <2>1, <2>2, <2>4, <4>1, StaysUpToDate
    <3> QED BY <3>1, <3>2
  <2> QED BY <2>2, <2>3, <2>4
<1> QED BY <1>5, <1>6, <1>7

\* A request changes the rows it is about, and of them what its kind says.
LEMMA ChangedRow ==
  ASSUME NEW row, DOMAIN row = RowFields, NEW op
  PROVE  /\ DOMAIN Content!Changed(row, op) = RowFields
         /\ op \notin ListChanges => Content!Changed(row, op) = row
         /\ op \notin SheetChanges /\ op # "visible" => Content!Changed(row, op).at = row.at
<1>1. CASE op \notin ListChanges
  BY <1>1 DEF Content!Changed, ListChanges, SheetChanges
<1>2. CASE op \in ListChanges \ (SheetChanges \cup {"visible"})
  <2>1. CASE op = "featured"
    BY <1>2, <2>1 DEF Content!Changed, ListChanges, SheetChanges, RowFields
  <2>2. CASE op = "add"
    BY <1>2, <2>2 DEF Content!Changed, ListChanges, SheetChanges, RowFields
  <2> QED BY <1>2, <2>1, <2>2 DEF ListChanges
<1>3. CASE op \in SheetChanges \cup {"visible"}
  <2>1. \E at : Content!Changed(row, op) = [row EXCEPT !.at = at]
    BY <1>3 DEF Content!Changed, SheetChanges
  <2> QED BY <1>3, <2>1 DEF RowFields, SheetChanges, ListChanges
<1> QED BY <1>1, <1>2, <1>3

\* A row that changes in what a list or a sheet does not show leaves it up to date.
LEMMA AlikeUpToDate ==
  ASSUME NEW which, NEW k, UpToDate(which, k), UNCHANGED <<seen, ui>>,
         \A f \in Compared(which) : held'[k][f] = held[k][f],
         \A q \in wire : Asks(q, which, k) \/ Changed(q, which, k) => q \in wire',
         \A q \in wire' : Asks(q, which, k) => q \in wire
  PROVE  UpToDate(which, k)'
<1>1. \A row : Matches(which, row, held[k]) => Matches(which, row, held[k]')
  BY DEF Matches
<1> QED BY <1>1 DEF UpToDate, Asks, Changed

\* The server carries a change out.
LEMMA ContentServed ==
  ASSUME ContentInv, part = "content", part' = part, NEW q \in wire, Content!Serve(q)
  PROVE  ContentInv'
<1> DEFINE r == [q EXCEPT !.status = "done"]
<1>1. PageTyped /\ RowsTyped /\ Wires(wire) /\ RequestTyped(q)
  BY DEF ContentInv, Wires
<1>2. PICK k \in q.ids : held' = [held EXCEPT ![k] = Content!Changed(held[k], q.op)]
  BY DEF Content!Serve, Content!Served
<1>3. /\ q.op \notin Content!Fetches /\ q.status = "sent" /\ wire' = (wire \ {q}) \cup {r}
      /\ UNCHANGED <<seen, ui>>
  BY DEF Content!Serve, Content!Served, Content!Becomes
<1>4. RequestTyped(r) /\ r.op = q.op /\ r.ids = q.ids /\ r.status = "done"
  BY <1>1 DEF RequestTyped, RequestFields
<1> HIDE DEF r
<1>5. k \in Tabs /\ DOMAIN held[k] = RowFields
  BY <1>1 DEF RequestTyped, RowsTyped
<1>6. /\ DOMAIN held' = Tabs /\ held'[k] = Content!Changed(held[k], q.op)
      /\ \A j \in Tabs : j # k => held'[j] = held[j]
  BY <1>1, <1>2, <1>5 DEF RowsTyped
<1>7. PageTyped' /\ RowsTyped' /\ Wires(wire')
  <2>1. PageTyped'
    BY <1>1, <1>3, <1>4 DEF PageTyped
  <2>2. RowsTyped'
    BY <1>1, <1>3, <1>5, <1>6, ChangedRow DEF RowsTyped
  <2>3. Wires(wire')
    BY <1>1, <1>3, <1>4 DEF Wires
  <2> QED BY <2>1, <2>2, <2>3
<1>8. ASSUME NEW which \in Content!Fetches, NEW j \in Tabs, UpToDate(which, j),
             which = "sheet" => q.op # "visible"
      PROVE  UpToDate(which, j)'
  <2>1. CASE j = k /\ q.op \in Changes(which)
    <3>1. Changed(r, which, j) /\ r \in wire'
      BY <1>3, <1>4, <2>1 DEF Changed
    <3> QED BY <3>1 DEF UpToDate, Changed
  <2>2. CASE ~(j = k /\ q.op \in Changes(which))
    <3>1. \A f \in Compared(which) : held'[j][f] = held[j][f]
      <4>1. CASE j # k
        BY <1>6, <4>1
      <4>2. CASE j = k /\ which = "list"
        BY <1>5, <1>6, <2>2, <4>2, ChangedRow DEF Changes
      <4>3. CASE j = k /\ which = "sheet"
        BY <1>5, <1>6, <1>8, <2>2, <4>3, ChangedRow DEF Changes, Compared
      <4> QED BY <4>1, <4>2, <4>3 DEF Content!Fetches
    <3>2. /\ \A p \in wire : Asks(p, which, j) \/ Changed(p, which, j) => p \in wire'
          /\ \A p \in wire' : Asks(p, which, j) => p \in wire
      BY <1>3, <1>4 DEF Asks, Changed
    <3> QED BY <1>3, <1>8, <3>1, <3>2, AlikeUpToDate
  <2> QED BY <2>1, <2>2
<1>9. ASSUME NEW j \in Tabs
      PROVE  UpToDate("list", j)' /\ (ui'.sheet = j => UpToDate("sheet", j)')
  <2>1. UpToDate("list", j) /\ (ui.sheet = j => UpToDate("sheet", j))
    BY DEF ContentInv
  <2>2. ui.sheet = j => q.op # "visible"
    BY <1>1 DEF PageTyped, Tabs
  <2> QED BY <1>3, <1>8, <2>1, <2>2 DEF Content!Fetches
<1> QED BY <1>7, <1>9 DEF ContentInv

\* A video that is ready by now changes nothing the lists and sheets are compared in.
LEMMA ContentDownloads ==
  ASSUME ContentInv, part = "content", part' = part, Content!Downloads
  PROVE  ContentInv'
<1>1. PageTyped /\ RowsTyped /\ Wires(wire)
  BY DEF ContentInv
<1>2. /\ held' = [held EXCEPT !["video"] = [held["video"] EXCEPT !.ready = TRUE]]
      /\ UNCHANGED <<seen, wire, ui>>
  BY DEF Content!Downloads
<1>3. /\ DOMAIN held' = Tabs
      /\ \A k \in Tabs : /\ DOMAIN held'[k] = RowFields
                         /\ \A f \in RowFields \ {"ready"} : held'[k][f] = held[k][f]
  BY <1>1, <1>2 DEF RowsTyped, RowFields, Tabs
<1>4. PageTyped' /\ RowsTyped' /\ Wires(wire')
  BY <1>1, <1>2, <1>3 DEF PageTyped, RowsTyped
<1>5. ASSUME NEW which \in Content!Fetches, NEW k \in Tabs, UpToDate(which, k)
      PROVE  UpToDate(which, k)'
  <2>1. \A f \in Compared(which) : held'[k][f] = held[k][f]
    BY <1>3 DEF Compared, RowFields
  <2> QED BY <1>2, <1>5, <2>1, AlikeUpToDate
<1> QED BY <1>2, <1>4, <1>5 DEF ContentInv, Content!Fetches

\* A star, a switch or a form is answered, and the list it is about is fetched.
LEMMA ContentAnswered ==
  ASSUME ContentInv, part = "content", part' = part, NEW q \in wire,
         Content!Toggled(q) \/ Content!Added(q)
  PROVE  ContentInv'
<1>1. DOMAIN ui = ContentFields /\ RowsTyped /\ (ui.polling => ui.chains # {})
  BY DEF ContentInv, PageTyped
<1>2. /\ q.op \in {"featured", "visible", "add"} /\ UNCHANGED <<held, seen>>
      /\ wire' = Content!Fetching("list", q.ids, wire \ {q})
  BY DEF Content!Toggled, Content!Added
<1>3. q.ids \in SUBSET Tabs
  BY DEF ContentInv, Wires, RequestTyped
<1>4. \A k \in Tabs : (Changed(q, "list", k) => k \in q.ids) /\ ~Changed(q, "sheet", k)
  BY <1>2 DEF Changed, Changes, SheetChanges
<1>5. /\ DOMAIN ui' = ContentFields /\ ui'.manages = ui.manages /\ ui'.sheet = ui.sheet
      /\ ui'.polling => ui'.chains # {}
      /\ ui'.doubt = ui.doubt \ {<<"list", k>> : k \in q.ids}
  <2>1. CASE Content!Toggled(q)
    BY <1>1, <2>1 DEF Content!Toggled, Content!Certain, ContentFields
  <2>2. CASE Content!Added(q)
    <3> DEFINE u == [Content!Certain(ui, "list", q.ids) EXCEPT
                       !.busy = @ \ q.ids, !.form = IF @ \in q.ids THEN "" ELSE @]
    <3>1. /\ DOMAIN u = ContentFields /\ u.manages = ui.manages /\ u.sheet = ui.sheet
          /\ u.polling = ui.polling /\ u.chains = ui.chains
          /\ u.doubt = ui.doubt \ {<<"list", k>> : k \in q.ids}
      BY <1>1 DEF Content!Certain, ContentFields
    <3>2. ui' = u \/ ui' = Content!Polling(u, q.nth)
      BY <2>2 DEF Content!Added
    <3> HIDE DEF u
    <3> QED BY <1>1, <3>1, <3>2 DEF Content!Polling, ContentFields
  <2> QED BY <2>1, <2>2
<1>6. q.op \notin Content!Fetches /\ DOMAIN seen.list = Tabs
  BY <1>1, <1>2 DEF Content!Fetches, RowsTyped
<1> QED BY <1>1, <1>2, <1>3, <1>4, <1>5, <1>6, ListsFetched

\* A switch of a sheet is answered, and the lists and the sheet that is open are fetched.
LEMMA ContentVisible ==
  ASSUME ContentInv, part = "content", part' = part, NEW q \in wire, Content!Visible(q)
  PROVE  ContentInv'
<1> DEFINE w == wire \ {q}
           w2 == IF ui.sheet = "" THEN w ELSE Content!Fetching("sheet", {ui.sheet}, w)
<1>1. PageTyped /\ RowsTyped /\ Wires(w)
  BY DEF ContentInv, Wires
<1>2. /\ wire' = Content!Fetching("list", Tabs, w2) /\ UNCHANGED <<held, seen>>
      /\ ui' = Content!Certain(Content!Certain(ui, "list", Tabs), "sheet", {ui.sheet})
  BY DEF Content!Visible, Content!AfterSheet, Tabs
<1>3. /\ DOMAIN ui' = ContentFields /\ ui'.manages = ui.manages /\ ui'.sheet = ui.sheet
      /\ ui'.polling = ui.polling /\ ui'.chains = ui.chains
  BY <1>1, <1>2 DEF Content!Certain, PageTyped, ContentFields
<1>4. /\ Wires(w2) /\ \A p \in w2 : p \in wire \/ p.op = "sheet"
      /\ ui.sheet # "" => \E p \in w2 : Asks(p, "sheet", ui.sheet) /\ p.status = "sent"
  <2>1. CASE ui.sheet = ""
    BY <1>1, <2>1
  <2>2. CASE ui.sheet # ""
    <3> DEFINE kinds == {ui.sheet}
    <3>1. kinds \in SUBSET Tabs /\ w2 = Content!Fetching("sheet", kinds, w)
      BY <1>1, <2>2 DEF PageTyped
    <3>2. "sheet" \in Content!Fetches
      BY DEF Content!Fetches
    <3>3. ui.sheet \in kinds /\ w \subseteq wire
      OBVIOUS
    <3> HIDE DEF kinds, w, w2
    <3>4. /\ Wires(w2)
          /\ \A k \in kinds : \E p \in w2 : Asks(p, "sheet", k) /\ p.status = "sent"
          /\ \A p \in w2 : p \in w \/ \E k \in kinds : Asks(p, "sheet", k)
      BY <1>1, <3>1, <3>2, FetchingIs
    <3> QED BY <3>3, <3>4 DEF Asks
  <2> QED BY <2>1, <2>2
<1> HIDE DEF w, w2
<1>5. /\ Wires(wire')
      /\ \A k \in Tabs : \E p \in wire' : Asks(p, "list", k) /\ p.status = "sent"
      /\ \A p \in w2 : p \in wire' \/ (p.op = "list" /\ p.ids \subseteq Tabs)
      /\ \A p \in wire' : p \in w2 \/ \E k \in Tabs : Asks(p, "list", k)
  <2> DEFINE kinds == Tabs
  <2>1. "list" \in Content!Fetches /\ kinds \in SUBSET Tabs
          /\ wire' = Content!Fetching("list", kinds, w2)
    BY <1>2 DEF Content!Fetches
  <2> HIDE DEF kinds
  <2>2. /\ Wires(wire')
        /\ \A k \in kinds : \E p \in wire' : Asks(p, "list", k) /\ p.status = "sent"
        /\ \A p \in w2 : p \in wire' \/ (p.op = "list" /\ p.ids \subseteq kinds)
        /\ \A p \in wire' : p \in w2 \/ \E k \in kinds : Asks(p, "list", k)
    <3>1. Wires(w2)
      BY <1>4
    <3> QED BY <2>1, <3>1, FetchingIs
  <2> QED BY <2>2 DEF kinds
<1>6. \A p \in wire' : p \in wire \/ p.op \in Content!Fetches
  BY <1>4, <1>5 DEF Asks, Content!Fetches
<1>7. PageTyped' /\ RowsTyped'
  <2>1. PageTyped'
    BY <1>1, <1>3, <1>6 DEF PageTyped, Content!Fetches
  <2> QED BY <1>1, <1>2, <2>1 DEF RowsTyped
<1>8. ASSUME NEW k \in Tabs
      PROVE  UpToDate("list", k)' /\ (ui'.sheet = k => UpToDate("sheet", k)')
  <2>1. UpToDate("list", k)'
    BY <1>5, BeingFetched
  <2>2. ASSUME ui.sheet = k PROVE UpToDate("sheet", k)'
    <3>1. PICK p \in w2 : Asks(p, "sheet", k) /\ p.status = "sent"
      BY <1>4, <2>2 DEF Tabs
    <3>2. p \in wire'
      BY <1>5, <3>1 DEF Asks
    <3> QED BY <3>1, <3>2, BeingFetched
  <2> QED BY <1>3, <2>1, <2>2
<1> QED BY <1>5, <1>7, <1>8 DEF ContentInv

\* A retry is answered, or a request fails: what it may have changed is in doubt.
LEMMA ContentFails ==
  ASSUME ContentInv, part = "content", part' = part, NEW q \in wire,
         Content!Retried(q) \/ Content!FailsHere(q)
  PROVE  ContentInv'
<1>1. PageTyped /\ RowsTyped /\ Wires(wire) /\ DOMAIN ui = ContentFields
        /\ (ui.polling => ui.chains # {})
  BY DEF ContentInv, PageTyped
<1>2. wire' = wire \ {q} /\ UNCHANGED <<held, seen>> /\ Wires(wire') /\ q.op \notin Content!Fetches
  BY <1>1 DEF Wires, Content!Retried, Content!FailsHere, Content!Fetches
<1>3. /\ DOMAIN ui' = ContentFields /\ ui'.manages = ui.manages /\ ui'.sheet = ui.sheet
      /\ ui'.polling => ui'.chains # {}
      /\ \/ ui'.doubt = ui.doubt /\ (q.op = "retry" \/ q.status = "sent")
         \/ ui'.doubt = ui.doubt \cup (Content!Fetches \X q.ids)
  BY <1>1 DEF Content!Retried, Content!FailsHere, Content!Polling, ContentFields
<1>4. CASE ui'.doubt = ui.doubt /\ (q.op = "retry" \/ q.status = "sent")
  <2>1. \A p \in wire : p.op \in Content!Fetches \/ (p.op \in ListChanges /\ p.status = "done")
          => p \in wire'
    BY <1>2, <1>4 DEF ListChanges, SheetChanges
  <2> QED BY <1>2, <1>3, <1>4, <2>1, ContentStays
<1>5. CASE ui'.doubt = ui.doubt \cup (Content!Fetches \X q.ids)
  <2>1. PageTyped' /\ RowsTyped'
    BY <1>1, <1>2, <1>3 DEF PageTyped, RowsTyped
  <2>2. ASSUME NEW which \in Content!Fetches, NEW k \in Tabs, UpToDate(which, k)
        PROVE  UpToDate(which, k)'
    <3>1. CASE k \in q.ids
      BY <1>5, <3>1 DEF UpToDate
    <3>2. CASE k \notin q.ids
      BY <1>2, <1>5, <2>2, <3>2, StaysUpToDate DEF Asks, Changed
    <3> QED BY <3>1, <3>2
  <2> QED BY <1>2, <1>3, <2>1, <2>2 DEF ContentInv, Content!Fetches
<1> QED BY <1>3, <1>4, <1>5

\* Every step of the knowledge center, and of any other part, keeps the invariant.
LEMMA ContentStep ==
  ASSUME ContentInv, [Next]_vars
  PROVE  ContentInv'
<1>1. ASSUME part = "content", part' = part, Content!Next PROVE ContentInv'
  <2>1. CASE \E q \in wire :
               \/ Content!FetchServed(q) \/ Content!FetchArrives(q) \/ Content!FetchLost(q)
               \/ Content!Serve(q) \/ Content!Toggled(q) \/ Content!Visible(q) \/ Content!Added(q)
               \/ Content!Retried(q) \/ Content!FailsHere(q)
    BY <1>1, <2>1, ContentFetches, ContentServed, ContentAnswered, ContentVisible, ContentFails
  <2>2. CASE \E c \in ui.chains : Content!Poll(c) \/ Content!PollAnswered(c)
    BY <1>1, <2>2, ContentShows, ContentPolls
  <2>3. CASE \/ Content!Done \/ Content!CancelForm \/ Content!Retry \/ Content!Downloads
             \/ \E kinds \in Content!Queried : Content!QueryLists(kinds)
    BY <1>1, <2>3, ContentShows, ContentAsks, ContentDownloads, ContentQueries
  <2>4. CASE \E k \in Tabs :
               \/ Content!SwitchTab(k) \/ Content!Manage(k)
               \/ \E op \in {"featured", "visible"} : Content!Toggle(op, k)
                    \/ Content!SecondPasses(op, k)
               \/ \E op \in SheetChanges : Content!SetVisibility(k, op)
               \/ Content!AddForm(k) \/ Content!SubmitForm(k)
    BY <1>1, <2>4, ContentShows, ContentAsks, ContentManages
  <2>5. \/ \E q \in wire :
             \/ Content!FetchServed(q) \/ Content!FetchArrives(q) \/ Content!FetchLost(q)
             \/ Content!Serve(q) \/ Content!Toggled(q) \/ Content!Visible(q) \/ Content!Added(q)
             \/ Content!Retried(q) \/ Content!FailsHere(q)
        \/ \E c \in ui.chains : Content!Poll(c) \/ Content!PollAnswered(c)
        \/ Content!Done \/ Content!CancelForm \/ Content!Retry \/ Content!Downloads
        \/ \E kinds \in Content!Queried : Content!QueryLists(kinds)
        \/ \E k \in Tabs :
             \/ Content!SwitchTab(k) \/ Content!Manage(k)
             \/ \E op \in {"featured", "visible"} : Content!Toggle(op, k)
                  \/ Content!SecondPasses(op, k)
             \/ \E op \in SheetChanges : Content!SetVisibility(k, op)
             \/ Content!AddForm(k) \/ Content!SubmitForm(k)
    BY <1>1, Zenon DEF Content!Next, Tabs, SheetChanges
  <2> QED BY <2>1, <2>2, <2>3, <2>4, <2>5
<1>2. CASE part' = part /\ UNCHANGED pageVars
  BY <1>2 DEF pageVars, ContentInv, PageTyped, RowsTyped, UpToDate
<1>3. CASE part # "content" /\ part' = part
  BY <1>3 DEF ContentInv
<1> QED BY <1>1, <1>2, <1>3 DEF Next, vars

LEMMA ContentInit ==
  ASSUME Init PROVE ContentInv
<1> SUFFICES ASSUME part = "content" PROVE ContentInv
  BY DEF ContentInv
<1>1. Content!Init
  BY DEF Init
<1>2. wire = {} /\ Wires(wire)
  BY <1>1 DEF Content!Init, Wires
<1>3. /\ held = [k \in Tabs |-> Content!Row]
      /\ seen = [list |-> [k \in Tabs |-> Content!Row], sheet |-> [k \in Tabs |-> None]]
  BY <1>1 DEF Content!Init, Tabs
<1>4. RowsTyped
  BY <1>3 DEF RowsTyped, RowFields, Content!Row, Content!Fetches
<1>5. DOMAIN ui = ContentFields /\ ui.sheet = "" /\ ~ui.polling
  BY <1>1 DEF Content!Init, Content!Idle, ContentFields
<1>6. PageTyped
  BY <1>2, <1>5 DEF PageTyped
<1>7. ASSUME NEW k \in Tabs PROVE UpToDate("list", k) /\ ui.sheet # k
  BY <1>2, <1>3, <1>5 DEF UpToDate, Matches, Tabs
<1> QED BY <1>2, <1>4, <1>6, <1>7 DEF ContentInv

\* With nothing under way the lists and the sheet that is open show the rows, unless an answer
\* was lost.
LEMMA ContentFresh ==
  ASSUME ContentInv, part = "content" PROVE Content!QuietIsFresh
<1> SUFFICES ASSUME wire = {} PROVE Content!QuietIsFresh
  BY DEF Content!QuietIsFresh
<1>1. ASSUME NEW k \in Tabs, seen.list[k] # None, <<"list", k>> \notin ui.doubt
      PROVE  Content!Agree(seen.list[k], held[k], {"at", "featured", "items"})
  BY <1>1 DEF ContentInv, UpToDate, Matches, Compared, Content!Agree
<1>2. ASSUME ui.sheet # "", seen.sheet[ui.sheet] # None, <<"sheet", ui.sheet>> \notin ui.doubt
      PROVE  seen.sheet[ui.sheet].at = held[ui.sheet].at
  <2>1. PICK k \in Tabs : ui.sheet = k /\ UpToDate("sheet", k)
    BY <1>2 DEF ContentInv, PageTyped
  <2> QED BY <1>2, <2>1 DEF UpToDate, Matches, Compared
<1> QED BY <1>1, <1>2 DEF Content!QuietIsFresh, Tabs

-----------------------------------------------------------------------------
(* Favorites *)

FavoritesFields ==
  {"here", "tab", "pending", "crossed", "form", "old", "acts", "busy", "doubt"}

\* Two clicks on a star that overlap differ in what they found, and there is one fetch of each list.
FavoriteTyped(q) ==
  /\ DOMAIN q = RequestFields /\ q.status \in {"sent", "done"}
  /\ q.op = "toggle" => q.nth \in {0, 1} /\ \E i \in Items : q.ids = {i}
FavoritesWire(w) ==
  /\ \A q \in w : FavoriteTyped(q)
  /\ \A q, r \in w : q.op \in FavoritesPage!Lists /\ q.op = r.op => q = r
  /\ \A q, r \in w : q.op = "toggle" /\ r.op = "toggle" /\ q.ids = r.ids /\ q.nth = r.nth => q = r

FavoritesTyped ==
  /\ DOMAIN ui = FavoritesFields /\ DOMAIN seen = FavoritesPage!Lists /\ held \in SUBSET Items
  /\ ui.pending \in [Items -> {"none", "yes", "no"}] /\ ui.tab \in {"all", "favorites"}
  /\ ui.old \in SUBSET FavoritesPage!Lists
  /\ ~ui.here => \A i \in Items : ui.pending[i] = "none"

\* The clicks on the star of a content that are not answered.
Toggles(i) == {q \in wire : q.op = "toggle" /\ q.ids = {i}}

\* Only clicks that overlapped leave two requests; and lists of an earlier visit are being fetched.
CrossedInv == \A i \in Items \ ui.crossed : \A q, r \in Toggles(i) : q = r
OldInv == ui.here => \A l \in ui.old : \E q \in wire : q.op = l

\* Whether a content will be a favorite when the clicks on its star are carried out.
Sent(i, b) == \E q \in Toggles(i) : q.nth = b /\ q.status = "sent"
Expected(i) == (i \in held) <=> (Sent(i, 0) <=> Sent(i, 1))

\* A star that was clicked shows what is expected, and after one click the opposite of what the
\* click found.
StarInv(i) ==
  /\ Toggles(i) # {} => ui.pending[i] # "none"
  /\ ui.pending[i] # "none" => (ui.pending[i] = "yes" <=> Expected(i))
  /\ i \notin ui.crossed => \A q \in Toggles(i) : ui.pending[i] = FavoritesPage!Mark(q.nth # 1)

\* The lists are right about the stars that were not clicked, unless they are of an earlier
\* visit, or their fetch was lost, and no star was clicked since.
Agrees(s) == \A i \in Items : ui.pending[i] = "none" => (i \in s <=> i \in held)
Untouched == \A i \in Items : ui.pending[i] = "none" /\ Toggles(i) = {}
ListInv(l) ==
  /\ \/ seen[l] = None \/ Agrees(seen[l])
     \/ (l \in ui.old \/ l \in ui.doubt) /\ Untouched
  /\ \A q \in wire : q.op = l /\ q.status = "done" => Agrees(q.rows)
Sure == ui.here /\ "star" \notin ui.doubt

\* The list of favorites is in doubt, or a click was carried out whose answer will have it
\* fetched, or it is being fetched and what was read still holds, or it is right.
FavoritesUpToDate ==
  \/ "favorites" \in ui.doubt
  \/ \E q \in wire : q.op = "toggle" /\ q.status = "done"
  \/ \E q \in wire : q.op = "favorites" /\ (q.status = "sent" \/ q.rows = held)
  \/ seen.favorites \in {None, held} /\ \A q \in wire : q.op # "favorites"

FavoritesInv ==
  part = "favorites" =>
    /\ FavoritesTyped /\ FavoritesWire(wire) /\ CrossedInv /\ OldInv
    /\ Sure => (\A i \in Items : StarInv(i)) /\ (\A l \in FavoritesPage!Lists : ListInv(l))
    /\ ui.here => FavoritesUpToDate

\* A step that leaves the rows, what is shown and the stars alone, and of the requests the clicks
\* and the fetches, keeps the invariant.
LEMMA FavoritesStay ==
  ASSUME FavoritesInv, part = "favorites", part' = part, UNCHANGED <<held, seen>>,
         FavoritesTyped', FavoritesWire(wire'),
         ui'.crossed = ui.crossed, ui'.old = ui.old, ui'.doubt = ui.doubt,
         ui'.here => ui.here /\ ui'.pending = ui.pending,
         \A q \in wire \cup wire' : q.op \in FavoritesPage!Lists \cup {"toggle"} => q \in wire
           /\ q \in wire'
  PROVE  FavoritesInv'
<1>1. \A i \in Items : Toggles(i)' = Toggles(i)
  BY DEF Toggles
<1>2. CrossedInv'
  BY <1>1 DEF FavoritesInv, CrossedInv
<1>3. OldInv'
  BY DEF FavoritesInv, OldInv, FavoritesTyped
<1>4. ASSUME Sure'
      PROVE  (\A i \in Items : StarInv(i)') /\ (\A l \in FavoritesPage!Lists : ListInv(l)')
  <2>1. Sure /\ ui'.pending = ui.pending
    BY <1>4 DEF Sure
  <2>2. /\ \A i \in Items : StarInv(i)
        /\ \A l \in FavoritesPage!Lists : ListInv(l)
    BY <2>1 DEF FavoritesInv
  <2>3. \A i \in Items, b \in {0, 1} : Sent(i, b)' <=> Sent(i, b)
    BY <1>1 DEF Sent
  <2>4. \A i \in Items : Expected(i)' <=> Expected(i)
    BY <2>3 DEF Expected
  <2>5. \A i \in Items : StarInv(i)'
    BY <1>1, <2>1, <2>2, <2>4 DEF StarInv
  <2>6. ASSUME NEW l \in FavoritesPage!Lists PROVE ListInv(l)'
    BY <1>1, <2>1, <2>2 DEF ListInv, Agrees, Untouched
  <2> QED BY <2>5, <2>6
<1>5. ui'.here => FavoritesUpToDate'
  BY DEF FavoritesInv, FavoritesUpToDate, FavoritesPage!Lists
<1> QED BY <1>2, <1>3, <1>4, <1>5 DEF FavoritesInv

\* The form, the tabs, and leaving.
LEMMA FavoritesShow ==
  ASSUME FavoritesInv, part = "favorites", part' = part,
         \/ FavoritesPage!RequestContent \/ FavoritesPage!CancelRequest \/ FavoritesPage!SendRequest
         \/ FavoritesPage!Leave
         \/ (\E t \in {"all", "favorites"} : FavoritesPage!Tab(t))
         \/ (\E q \in wire : FavoritesPage!Requested(q))
  PROVE  FavoritesInv'
<1>1. FavoritesTyped /\ FavoritesWire(wire)
  BY DEF FavoritesInv
<1>2. CASE FavoritesPage!SendRequest
  <2> DEFINE r == [FavoritesPage!Request("ask", {}) EXCEPT !.nth = ui.acts]
  <2>1. wire' = wire \cup {r} /\ UNCHANGED <<held, seen>>
    BY <1>2 DEF FavoritesPage!SendRequest
  <2>2. FavoriteTyped(r) /\ r.op = "ask"
    BY DEF FavoritesPage!Request, FavoriteTyped, RequestFields
  <2> HIDE DEF r
  <2>3. /\ DOMAIN ui' = FavoritesFields /\ ui'.pending = ui.pending /\ ui'.tab = ui.tab
        /\ ui'.crossed = ui.crossed /\ ui'.old = ui.old /\ ui'.doubt = ui.doubt
             /\ ui'.here = ui.here
    BY <1>1, <1>2
       DEF FavoritesPage!SendRequest, FavoritesPage!Submitted, FavoritesPage!Once,
           FavoritesTyped, FavoritesFields
  <2>4. FavoritesTyped'
    BY <1>1, <2>1, <2>3 DEF FavoritesTyped
  <2>5. FavoritesWire(wire')
    BY <1>1, <2>1, <2>2 DEF FavoritesWire, FavoritesPage!Lists
  <2> QED BY <2>1, <2>2, <2>3, <2>4, <2>5, FavoritesStay DEF FavoritesPage!Lists
<1>3. ASSUME NEW q \in wire, FavoritesPage!Requested(q) PROVE FavoritesInv'
  <2>1. wire' = wire \ {q} /\ UNCHANGED <<held, seen>> /\ q.op = "ask"
    BY <1>3 DEF FavoritesPage!Requested
  <2>2. /\ DOMAIN ui' = FavoritesFields /\ ui'.pending = ui.pending /\ ui'.tab = ui.tab
        /\ ui'.crossed = ui.crossed /\ ui'.old = ui.old /\ ui'.doubt = ui.doubt
             /\ ui'.here = ui.here
    BY <1>1, <1>3 DEF FavoritesPage!Requested, FavoritesTyped, FavoritesFields
  <2>3. FavoritesTyped'
    BY <1>1, <2>1, <2>2 DEF FavoritesTyped
  <2>4. FavoritesWire(wire')
    BY <1>1, <2>1 DEF FavoritesWire
  <2> QED BY <2>1, <2>2, <2>3, <2>4, FavoritesStay DEF FavoritesPage!Lists
<1>4. CASE \/ FavoritesPage!RequestContent \/ FavoritesPage!CancelRequest
           \/ \E t \in {"all", "favorites"} : FavoritesPage!Tab(t)
  <2>1. /\ UNCHANGED <<held, seen, wire>>
        /\ DOMAIN ui' = FavoritesFields /\ ui'.pending = ui.pending
             /\ ui'.tab \in {"all", "favorites"}
        /\ ui'.crossed = ui.crossed /\ ui'.old = ui.old /\ ui'.doubt = ui.doubt
             /\ ui'.here = ui.here
    BY <1>1, <1>4
       DEF FavoritesPage!RequestContent, FavoritesPage!CancelRequest, FavoritesPage!Tab,
           FavoritesPage!Shows, FavoritesPage!Once, FavoritesTyped, FavoritesFields
  <2>2. FavoritesTyped'
    BY <1>1, <2>1 DEF FavoritesTyped
  <2> QED BY <1>1, <2>1, <2>2, FavoritesStay
<1>5. CASE FavoritesPage!Leave
  <2>1. /\ UNCHANGED <<held, seen, wire>>
        /\ DOMAIN ui' = FavoritesFields /\ ui'.pending = [i \in Items |-> "none"]
             /\ ui'.tab = ui.tab
        /\ ui'.crossed = ui.crossed /\ ui'.old = ui.old /\ ui'.doubt = ui.doubt /\ ~ui'.here
    BY <1>1, <1>5
       DEF FavoritesPage!Leave, FavoritesPage!Shows, FavoritesPage!NoPending, FavoritesTyped,
           FavoritesFields
  <2>2. FavoritesTyped'
    BY <1>1, <2>1 DEF FavoritesTyped
  <2> QED BY <1>1, <2>1, <2>2, FavoritesStay
<1> QED BY <1>2, <1>3, <1>4, <1>5

\* Fetching lists replaces their fetches by new ones, and leaves the clicks and the rest.
LEMMA FavoritesFetchingIs ==
  ASSUME NEW lists \in SUBSET FavoritesPage!Lists, NEW w, FavoritesWire(w)
  PROVE  LET new == FavoritesPage!Fetching(lists, w) IN
         /\ FavoritesWire(new)
         /\ \A l \in lists : \E q \in new : q.op = l /\ q.status = "sent"
         /\ \A q \in w : q \in new \/ q.op \in lists
         /\ \A q \in new : IF q.op \in lists THEN q.status = "sent" ELSE q \in w
<1> DEFINE new == FavoritesPage!Fetching(lists, w)
           Of(l) == [FavoritesPage!Fetch EXCEPT !.op = l]
<1>1. ASSUME NEW l \in lists PROVE FavoriteTyped(Of(l)) /\ Of(l).op = l /\ Of(l).status = "sent"
  BY <1>1 DEF FavoritesPage!Fetch, FavoriteTyped, RequestFields, FavoritesPage!Lists
<1>2. new = {q \in w : q.op \notin lists} \cup {Of(l) : l \in lists}
  BY DEF FavoritesPage!Fetching
<1> HIDE DEF new, Of
<1>3. \A q \in new : (q \in w /\ q.op \notin lists) \/ (q.op \in lists /\ q = Of(q.op))
  BY <1>1, <1>2
<1>4. FavoritesWire(new)
  <2>1. \A q \in new : FavoriteTyped(q)
    BY <1>1, <1>3 DEF FavoritesWire
  <2>2. \A q, r \in new : q.op \in FavoritesPage!Lists /\ q.op = r.op => q = r
    BY <1>3 DEF FavoritesWire
  <2>3. \A q, r \in new : q.op = "toggle" /\ r.op = "toggle" /\ q.ids = r.ids /\ q.nth = r.nth
          => q = r
    BY <1>3 DEF FavoritesWire, FavoritesPage!Lists
  <2> QED BY <2>1, <2>2, <2>3 DEF FavoritesWire
<1>5. \A l \in lists : \E q \in new : q.op = l /\ q.status = "sent"
  BY <1>1, <1>2
<1>6. \A q \in w : q \in new \/ q.op \in lists
  BY <1>2
<1>7. \A q \in new : IF q.op \in lists THEN q.status = "sent" ELSE q \in w
  BY <1>1, <1>3
<1> QED BY <1>4, <1>5, <1>6, <1>7 DEF new

\* A new query shows nothing until its lists arrive.
LEMMA FavoritesQuery ==
  ASSUME FavoritesInv, part = "favorites", part' = part, FavoritesPage!QueryLists
  PROVE  FavoritesInv'
<1> DEFINE lists == FavoritesPage!Lists
<1>1. FavoritesTyped /\ FavoritesWire(wire) /\ ui.here
  BY DEF FavoritesInv, FavoritesPage!QueryLists, FavoritesPage!Free
<1>2. /\ wire' = FavoritesPage!Fetching(lists, wire) /\ held' = held
      /\ seen' = [list |-> None, favorites |-> None]
  BY DEF FavoritesPage!QueryLists
<1>3. /\ FavoritesWire(wire')
      /\ \A l \in lists : \E q \in wire' : q.op = l /\ q.status = "sent"
      /\ \A q \in wire : q \in wire' \/ q.op \in lists
      /\ \A q \in wire' : IF q.op \in lists THEN q.status = "sent" ELSE q \in wire
  BY <1>1, <1>2, FavoritesFetchingIs
<1>4. /\ DOMAIN ui' = FavoritesFields /\ ui'.pending = ui.pending /\ ui'.tab = ui.tab
      /\ ui'.crossed = ui.crossed /\ ui'.old = {} /\ ui'.doubt = ui.doubt \ lists
           /\ ui'.here = ui.here
  BY <1>1 DEF FavoritesPage!QueryLists, FavoritesPage!Once, FavoritesTyped, FavoritesFields
<1>5. FavoritesTyped'
  BY <1>1, <1>2, <1>4 DEF FavoritesTyped, FavoritesPage!Lists
<1>6. \A i \in Items : Toggles(i)' = Toggles(i)
  BY <1>3 DEF Toggles, FavoritesPage!Lists
<1>7. CrossedInv' /\ OldInv' /\ FavoritesUpToDate'
  <2>1. CrossedInv'
    BY <1>4, <1>6 DEF FavoritesInv, CrossedInv
  <2> QED BY <1>3, <1>4, <2>1 DEF OldInv, FavoritesUpToDate, FavoritesPage!Lists
<1>8. ASSUME Sure' PROVE (\A i \in Items : StarInv(i)') /\ (\A l \in lists : ListInv(l)')
  <2>1. Sure
    BY <1>4, <1>8 DEF Sure, FavoritesPage!Lists
  <2>2. \A i \in Items : Expected(i)' <=> Expected(i)
    BY <1>2, <1>6 DEF Expected, Sent
  <2>3. \A i \in Items : StarInv(i)'
    BY <1>4, <1>6, <2>1, <2>2 DEF StarInv, FavoritesInv
  <2>4. \A l \in lists : ListInv(l)'
    BY <1>2, <1>3 DEF ListInv, FavoritesPage!Lists
  <2> QED BY <2>3, <2>4
<1> QED BY <1>3, <1>5, <1>7, <1>8 DEF FavoritesInv

\* A return to the page: no star has been clicked yet, and the lists are of an earlier visit.
LEMMA FavoritesReturn ==
  ASSUME FavoritesInv, part = "favorites", part' = part, FavoritesPage!Return
  PROVE  FavoritesInv'
<1> DEFINE lists == FavoritesPage!Lists
<1>1. FavoritesTyped /\ FavoritesWire(wire) /\ \A i \in Items : ui.pending[i] = "none"
  BY DEF FavoritesInv, FavoritesPage!Return, FavoritesTyped
<1>2. wire' = FavoritesPage!Fetching(lists, wire) /\ UNCHANGED <<held, seen>>
  BY DEF FavoritesPage!Return
<1>3. /\ FavoritesWire(wire')
      /\ \A l \in lists : \E q \in wire' : q.op = l /\ q.status = "sent"
      /\ \A q \in wire : q \in wire' \/ q.op \in lists
      /\ \A q \in wire' : IF q.op \in lists THEN q.status = "sent" ELSE q \in wire
  BY <1>1, <1>2, FavoritesFetchingIs
<1>4. /\ DOMAIN ui' = FavoritesFields /\ ui'.pending = ui.pending /\ ui'.tab = "all"
      /\ ui'.crossed = ui.crossed /\ ui'.old = lists /\ ui'.here
      /\ ui'.doubt = IF FavoritesPage!Pending("toggle") = {} THEN {} ELSE lists \cup {"star"}
  BY <1>1 DEF FavoritesPage!Return, FavoritesPage!Once, FavoritesTyped, FavoritesFields
<1>5. FavoritesTyped'
  BY <1>1, <1>2, <1>4 DEF FavoritesTyped
<1>6. \A i \in Items : Toggles(i)' = Toggles(i)
  BY <1>3 DEF Toggles, FavoritesPage!Lists
<1>7. CrossedInv' /\ OldInv' /\ FavoritesUpToDate'
  <2>1. CrossedInv'
    BY <1>4, <1>6 DEF FavoritesInv, CrossedInv
  <2> QED BY <1>3, <1>4, <2>1 DEF OldInv, FavoritesUpToDate, FavoritesPage!Lists
<1>8. ASSUME Sure' PROVE (\A i \in Items : StarInv(i)') /\ (\A l \in lists : ListInv(l)')
  <2>1. FavoritesPage!Pending("toggle") = {}
    BY <1>4, <1>8 DEF Sure
  <2>2. \A i \in Items : Toggles(i)' = {} /\ ui'.pending[i] = "none"
    BY <1>1, <1>4, <1>6, <2>1 DEF Toggles, FavoritesPage!Pending
  <2>3. \A i \in Items : StarInv(i)'
    BY <2>2 DEF StarInv
  <2>4. \A l \in lists : ListInv(l)'
    BY <1>3, <1>4, <2>2 DEF ListInv, Untouched
  <2> QED BY <2>3, <2>4
<1> QED BY <1>3, <1>5, <1>7, <1>8 DEF FavoritesInv

\* A list is read, and shown or lost.
LEMMA FavoritesFetch ==
  ASSUME FavoritesInv, part = "favorites", part' = part, NEW q \in wire,
         FavoritesPage!FetchServed(q) \/ FavoritesPage!FetchArrives(q) \/ FavoritesPage!FetchLost(q)
  PROVE  FavoritesInv'
<1> DEFINE lists == FavoritesPage!Lists
<1>1. FavoritesTyped /\ FavoritesWire(wire) /\ FavoriteTyped(q) /\ q.op \in lists
  BY DEF FavoritesInv, FavoritesWire, FavoritesPage!FetchServed, FavoritesPage!FetchArrives,
         FavoritesPage!FetchLost
<1>2. \A r \in wire : r.op = q.op => r = q
  BY <1>1 DEF FavoritesWire
<1>3. CASE FavoritesPage!FetchServed(q)
  <2> DEFINE r == [q EXCEPT !.status = "done", !.rows = held]
  <2>1. wire' = (wire \ {q}) \cup {r} /\ UNCHANGED <<held, seen, ui>> /\ q.status = "sent"
    BY <1>3 DEF FavoritesPage!FetchServed
  <2>2. FavoriteTyped(r) /\ r.op = q.op /\ r.status = "done" /\ r.rows = held
    BY <1>1 DEF FavoriteTyped, RequestFields, FavoritesPage!Lists
  <2> HIDE DEF r
  <2>3. \A p \in wire' : p = r \/ (p \in wire /\ p.op # q.op)
    BY <1>2, <2>1
  <2>4. \A p \in wire : p \in wire' \/ p = q
    BY <2>1
  <2>5. FavoritesWire(wire')
    BY <1>1, <2>2, <2>3 DEF FavoritesWire, FavoritesPage!Lists
  <2>6. \A i \in Items : Toggles(i)' = Toggles(i)
    BY <1>1, <2>2, <2>3, <2>4 DEF Toggles, FavoritesPage!Lists
  <2>7. r \in wire'
    BY <2>1
  <2>8. FavoritesTyped' /\ CrossedInv' /\ OldInv'
    <3>1. CrossedInv'
      BY <2>1, <2>6 DEF FavoritesInv, CrossedInv
    <3>2. OldInv'
      BY <2>1, <2>2, <2>4, <2>7 DEF FavoritesInv, OldInv
    <3> QED BY <1>1, <2>1, <3>1, <3>2 DEF FavoritesTyped
  <2>9. ui'.here => FavoritesUpToDate'
    BY <1>1, <2>1, <2>2, <2>3, <2>4, <2>7 DEF FavoritesInv, FavoritesUpToDate, FavoritesPage!Lists
  <2>10. ASSUME Sure' PROVE (\A i \in Items : StarInv(i)') /\ (\A l \in lists : ListInv(l)')
    <3>1. Sure
      BY <2>1, <2>10 DEF Sure
    <3>2. \A i \in Items : Expected(i)' <=> Expected(i)
      BY <2>1, <2>6 DEF Expected, Sent
    <3>3. \A i \in Items : StarInv(i)'
      BY <2>1, <2>6, <3>1, <3>2 DEF StarInv, FavoritesInv
    <3>4. ASSUME NEW l \in lists PROVE ListInv(l)'
      <4>1. ListInv(l)
        BY <3>1 DEF FavoritesInv
      <4>2. \A s : Agrees(s)' <=> Agrees(s)
        BY <2>1 DEF Agrees
      <4>3. Agrees(held)
        BY DEF Agrees
      <4>4. Untouched' <=> Untouched
        BY <2>1, <2>6 DEF Untouched
      <4>5. \A p \in wire' : p.op = l /\ p.status = "done" => Agrees(p.rows)
        BY <2>2, <2>3, <4>1, <4>3 DEF ListInv
      <4> QED BY <2>1, <4>1, <4>2, <4>4, <4>5 DEF ListInv
    <3> QED BY <3>3, <3>4
  <2> QED BY <2>5, <2>8, <2>9, <2>10 DEF FavoritesInv
<1>4. ASSUME wire' = wire \ {q}, held' = held, DOMAIN ui' = FavoritesFields,
             ui'.pending = ui.pending, ui'.tab = ui.tab, ui'.crossed = ui.crossed,
             ui'.here = ui.here, ui'.old = ui.old \ {q.op}, ui.doubt \subseteq ui'.doubt,
             ui'.doubt \subseteq ui.doubt \cup {q.op},
             DOMAIN seen' = lists, \A l \in lists \ {q.op} : seen'[l] = seen[l],
             \/ q.status = "done" /\ seen'[q.op] = q.rows
             \/ q.op \in ui'.doubt /\ seen'[q.op] = seen[q.op]
      PROVE  FavoritesInv'
  <2>1. /\ \A p \in wire' : p \in wire /\ p.op # q.op
        /\ \A p \in wire : p \in wire' \/ p = q
    BY <1>2, <1>4
  <2>2. \A i \in Items : Toggles(i)' = Toggles(i)
    BY <1>1, <2>1 DEF Toggles, FavoritesPage!Lists
  <2>3. FavoritesTyped' /\ FavoritesWire(wire') /\ CrossedInv' /\ OldInv'
    <3>1. FavoritesTyped'
      BY <1>1, <1>4 DEF FavoritesTyped
    <3>2. FavoritesWire(wire')
      BY <1>1, <2>1 DEF FavoritesWire
    <3>3. CrossedInv'
      BY <1>4, <2>2 DEF FavoritesInv, CrossedInv
    <3>4. OldInv'
      BY <1>4, <2>1 DEF FavoritesInv, OldInv
    <3> QED BY <3>1, <3>2, <3>3, <3>4
  <2>4. ui'.here => FavoritesUpToDate'
    <3>1. CASE q.op = "list"
      BY <1>4, <2>1, <3>1 DEF FavoritesInv, FavoritesUpToDate, FavoritesPage!Lists
    <3>2. CASE q.op = "favorites"
      <4>1. \A p \in wire' : p.op # "favorites"
        BY <2>1, <3>2
      <4>2. \A p \in wire : p.op = "favorites" => p = q
        BY <1>2, <3>2
      <4>3. \A p \in wire : p.op = "toggle" => p \in wire'
        BY <2>1, <3>2
      <4> QED BY <1>4, <3>2, <4>1, <4>2, <4>3 DEF FavoritesInv, FavoritesUpToDate
    <3> QED BY <1>1, <3>1, <3>2 DEF FavoritesPage!Lists
  <2>5. ASSUME Sure' PROVE (\A i \in Items : StarInv(i)') /\ (\A l \in lists : ListInv(l)')
    <3>1. Sure
      BY <1>4, <2>5 DEF Sure
    <3>2. \A i \in Items : Expected(i)' <=> Expected(i)
      BY <1>4, <2>2 DEF Expected, Sent
    <3>3. \A i \in Items : StarInv(i)'
      BY <1>4, <2>2, <3>1, <3>2 DEF StarInv, FavoritesInv
    <3>4. ASSUME NEW l \in lists PROVE ListInv(l)'
      <4>1. ListInv(l)
        BY <3>1 DEF FavoritesInv
      <4>2. \A s : Agrees(s)' <=> Agrees(s)
        BY <1>4 DEF Agrees
      <4>3. Untouched' <=> Untouched
        BY <1>4, <2>2 DEF Untouched
      <4>4. \A p \in wire' : p.op = l /\ p.status = "done" => Agrees(p.rows)'
        BY <2>1, <4>1, <4>2 DEF ListInv
      <4>5. CASE l # q.op
        BY <1>4, <4>1, <4>2, <4>3, <4>4, <4>5 DEF ListInv
      <4>6. CASE l = q.op /\ q.status = "done" /\ seen'[q.op] = q.rows
        <5>1. Agrees(q.rows)
          BY <4>1, <4>6 DEF ListInv
        <5> QED BY <4>2, <4>4, <4>6, <5>1 DEF ListInv
      <4>7. CASE l = q.op /\ q.op \in ui'.doubt /\ seen'[q.op] = seen[q.op]
        BY <4>1, <4>2, <4>3, <4>4, <4>7 DEF ListInv
      <4> QED BY <1>4, <4>5, <4>6, <4>7
    <3> QED BY <3>3, <3>4
  <2> QED BY <2>3, <2>4, <2>5 DEF FavoritesInv
<1>5. CASE FavoritesPage!FetchArrives(q)
  <2>1. /\ wire' = wire \ {q} /\ held' = held /\ q.status = "done"
        /\ seen' = [seen EXCEPT ![q.op] = q.rows] /\ ui' = [ui EXCEPT !.old = ui.old \ {q.op}]
    BY <1>5 DEF FavoritesPage!FetchArrives
  <2>2. /\ DOMAIN seen' = lists /\ seen'[q.op] = q.rows
        /\ \A l \in lists \ {q.op} : seen'[l] = seen[l]
    BY <1>1, <2>1 DEF FavoritesTyped
  <2>3. /\ DOMAIN ui' = FavoritesFields /\ ui'.pending = ui.pending /\ ui'.tab = ui.tab
        /\ ui'.crossed = ui.crossed /\ ui'.here = ui.here /\ ui'.old = ui.old \ {q.op}
        /\ ui'.doubt = ui.doubt
    BY <1>1, <2>1 DEF FavoritesTyped, FavoritesFields
  <2> QED BY <1>4, <2>1, <2>2, <2>3
<1>6. CASE FavoritesPage!FetchLost(q)
  <2>1. /\ wire' = wire \ {q} /\ UNCHANGED <<held, seen>>
        /\ ui' = [ui EXCEPT !.old = ui.old \ {q.op}, !.doubt = ui.doubt \cup {q.op}]
    BY <1>6 DEF FavoritesPage!FetchLost
  <2>2. /\ DOMAIN ui' = FavoritesFields /\ ui'.pending = ui.pending /\ ui'.tab = ui.tab
        /\ ui'.crossed = ui.crossed /\ ui'.here = ui.here /\ ui'.old = ui.old \ {q.op}
        /\ ui'.doubt = ui.doubt \cup {q.op}
    BY <1>1, <2>1 DEF FavoritesTyped, FavoritesFields
  <2>3. DOMAIN seen' = lists
    BY <1>1, <2>1 DEF FavoritesTyped
  <2> QED BY <1>4, <2>1, <2>2, <2>3
<1> QED BY <1>3, <1>5, <1>6

\* A star shows what is expected when nothing about it is in doubt.
LEMMA StarShown ==
  ASSUME FavoritesTyped, Sure, ui.doubt = {}, ui.old = {}, NEW i \in Items,
           i \in FavoritesPage!Content,
         StarInv(i), \A l \in FavoritesPage!Lists : ListInv(l)
  PROVE  FavoritesPage!Star(i) <=> Expected(i)
<1>1. ui.pending[i] \in {"none", "yes", "no"}
  BY DEF FavoritesTyped
<1>2. CASE ui.pending[i] # "none"
  <2>1. FavoritesPage!Star(i) <=> ui.pending[i] = "yes"
    BY <1>2 DEF FavoritesPage!Star
  <2> QED BY <1>2, <2>1 DEF StarInv
<1>3. CASE ui.pending[i] = "none"
  <2>1. Expected(i) <=> i \in held
    <3>1. Toggles(i) = {}
      BY <1>3 DEF StarInv
    <3>2. ~Sent(i, 0) /\ ~Sent(i, 1)
      BY <3>1 DEF Sent
    <3> QED BY <3>2 DEF Expected
  <2>2. \A l \in FavoritesPage!Lists : seen[l] = None \/ (i \in seen[l] <=> i \in held)
    BY <1>3 DEF ListInv, Agrees
  <2>3. seen.list = None \/ (i \in seen.list <=> i \in held)
    BY <2>2 DEF FavoritesPage!Lists
  <2>4. seen.favorites = None \/ (i \in seen.favorites <=> i \in held)
    BY <2>2 DEF FavoritesPage!Lists
  <2>5. FavoritesPage!Star(i) <=> (ui.tab = "favorites" \/ i \in seen.list)
    BY <1>3 DEF FavoritesPage!Star, FavoritesPage!Favorited
  <2>6. CASE ui.tab = "all"
    BY <2>1, <2>3, <2>5, <2>6 DEF FavoritesPage!Content
  <2>7. CASE ui.tab = "favorites"
    BY <2>1, <2>4, <2>5, <2>7 DEF FavoritesPage!Content
  <2> QED BY <2>6, <2>7 DEF FavoritesTyped
<1> QED BY <1>2, <1>3

\* A click on a star.
LEMMA FavoritesToggle ==
  ASSUME FavoritesInv, part = "favorites", part' = part, NEW i \in Items,
         FavoritesPage!ToggleFavorite(i)
  PROVE  FavoritesInv'
<1> DEFINE lists == FavoritesPage!Lists
           b == IF FavoritesPage!Star(i) THEN 1 ELSE 0
           r == [FavoritesPage!Request("toggle", {i}) EXCEPT !.nth = b]
<1>1. FavoritesTyped /\ FavoritesWire(wire) /\ ui.here
  BY DEF FavoritesInv, FavoritesPage!ToggleFavorite, FavoritesPage!Free
<1>2. /\ wire' = wire \cup {r} /\ UNCHANGED <<held, seen>>
      /\ i \in FavoritesPage!Content /\ ui.old = {}
  BY DEF FavoritesPage!ToggleFavorite
<1>3. \A q \in Toggles(i) : q.nth # b
  <2>1. \A q \in Toggles(i) : (q.nth = 1) # FavoritesPage!Star(i)
    BY DEF FavoritesPage!ToggleFavorite, FavoritesPage!Pending, FavoritesPage!Before, Toggles
  <2>2. FavoritesPage!Star(i) \in BOOLEAN
    BY DEF FavoritesPage!Star, FavoritesPage!Favorited
  <2>3. CASE FavoritesPage!Star(i)
    BY <2>1, <2>2, <2>3
  <2>4. CASE ~FavoritesPage!Star(i)
    BY <2>1, <2>2, <2>4
  <2> QED BY <2>3, <2>4
<1>4. /\ DOMAIN ui' = FavoritesFields /\ ui'.tab = ui.tab /\ ui'.old = {} /\ ui'.here
      /\ ui'.pending = [ui.pending EXCEPT ![i] = FavoritesPage!Mark(~FavoritesPage!Star(i))]
      /\ ui'.doubt = IF ui.doubt = {} THEN ui.doubt ELSE ui.doubt \cup {"star"}
      /\ ui'.crossed = IF \E q \in FavoritesPage!Pending("toggle") : q.ids = {i}
                         THEN ui.crossed \cup {i} ELSE ui.crossed
  BY <1>1, <1>2 DEF FavoritesPage!ToggleFavorite, FavoritesPage!Once, FavoritesTyped,
     FavoritesFields
<1>5. /\ ui'.pending \in [Items -> {"none", "yes", "no"}] /\ ui'.pending[i] # "none"
      /\ ui'.pending[i] = "yes" <=> ~FavoritesPage!Star(i)
      /\ ui'.pending[i] = FavoritesPage!Mark(b # 1)
      /\ \A j \in Items \ {i} : ui'.pending[j] = ui.pending[j]
  <2>1. ui.pending \in [Items -> {"none", "yes", "no"}]
    BY <1>1 DEF FavoritesTyped
  <2>2. CASE FavoritesPage!Star(i)
    BY <1>4, <2>1, <2>2 DEF FavoritesPage!Mark
  <2>3. CASE ~FavoritesPage!Star(i)
    BY <1>4, <2>1, <2>3 DEF FavoritesPage!Mark
  <2> QED BY <2>2, <2>3
<1>6. b \in {0, 1}
  OBVIOUS
<1>7. FavoriteTyped(r) /\ r.op = "toggle" /\ r.ids = {i} /\ r.nth = b /\ r.status = "sent"
  BY <1>6 DEF FavoritesPage!Request, FavoriteTyped, RequestFields
<1>8. ui'.crossed = IF Toggles(i) # {} THEN ui.crossed \cup {i} ELSE ui.crossed
  BY <1>4 DEF FavoritesPage!Pending, Toggles
<1>9. FavoritesPage!Star(i) <=> b = 1
  OBVIOUS
<1> HIDE DEF r, b
<1>10. FavoritesTyped' /\ FavoritesWire(wire')
  <2>1. FavoritesTyped'
    BY <1>1, <1>2, <1>4, <1>5 DEF FavoritesTyped
  <2>2. FavoritesWire(wire')
    BY <1>1, <1>2, <1>3, <1>7 DEF FavoritesWire, Toggles, FavoritesPage!Lists
  <2> QED BY <2>1, <2>2
<1>11. Toggles(i)' = Toggles(i) \cup {r} /\ \A j \in Items \ {i} : Toggles(j)' = Toggles(j)
  BY <1>2, <1>7 DEF Toggles
<1>12. CrossedInv' /\ OldInv' /\ FavoritesUpToDate'
  <2>1. CrossedInv'
    <3> SUFFICES ASSUME NEW j \in Items, j \notin ui'.crossed, NEW p \in Toggles(j)',
      NEW q \in Toggles(j)'
                 PROVE  p = q
      BY DEF CrossedInv
    <3>1. CASE j = i
      BY <1>8, <1>11, <3>1
    <3>2. CASE j # i
      BY <1>8, <1>11, <3>2 DEF FavoritesInv, CrossedInv
    <3> QED BY <3>1, <3>2
  <2>2. OldInv'
    BY <1>4 DEF OldInv
  <2>3. FavoritesUpToDate'
    BY <1>1, <1>2, <1>4, <1>7 DEF FavoritesInv, FavoritesUpToDate
  <2> QED BY <2>1, <2>2, <2>3
<1>13. ASSUME Sure' PROVE (\A j \in Items : StarInv(j)') /\ (\A l \in lists : ListInv(l)')
  <2>1. Sure /\ ui.doubt = {} /\ ui'.doubt = {}
    BY <1>1, <1>4, <1>13 DEF Sure
  <2>2. (\A j \in Items : StarInv(j)) /\ (\A l \in lists : ListInv(l))
    BY <2>1 DEF FavoritesInv
  <2>3. FavoritesPage!Star(i) <=> Expected(i)
    BY <1>1, <1>2, <2>1, <2>2, StarShown
  <2>4. Expected(i)' <=> ~Expected(i)
    <3>1. /\ \E p \in Toggles(i)' : p.nth = b /\ p.status = "sent"
          /\ ~\E p \in Toggles(i) : p.nth = b /\ p.status = "sent"
      BY <1>3, <1>7, <1>11
    <3>2. \A c \in {0, 1} : c # b => (Sent(i, c)' <=> Sent(i, c))
      BY <1>7, <1>11 DEF Sent
    <3>3. CASE b = 0
      <4>1. Sent(i, 0)' /\ ~Sent(i, 0)
        BY <3>1, <3>3 DEF Sent
      <4>2. Sent(i, 1)' <=> Sent(i, 1)
        BY <3>2, <3>3
      <4> QED BY <1>2, <4>1, <4>2 DEF Expected
    <3>4. CASE b = 1
      <4>1. Sent(i, 1)' /\ ~Sent(i, 1)
        BY <3>1, <3>4 DEF Sent
      <4>2. Sent(i, 0)' <=> Sent(i, 0)
        BY <3>2, <3>4
      <4> QED BY <1>2, <4>1, <4>2 DEF Expected
    <3> QED BY <1>6, <3>3, <3>4
  <2>5. StarInv(i)'
    <3>1. ui'.pending[i] = "yes" <=> Expected(i)'
      BY <1>5, <2>3, <2>4
    <3>2. i \notin ui'.crossed => \A q \in Toggles(i)' : ui'.pending[i] = FavoritesPage!Mark(q.nth # 1)
      <4>1. i \notin ui'.crossed => Toggles(i)' = {r}
        BY <1>8, <1>11
      <4> QED BY <1>5, <1>7, <4>1
    <3> QED BY <1>5, <3>1, <3>2 DEF StarInv
  <2>6. ASSUME NEW j \in Items, j # i PROVE StarInv(j)'
    <3>1. Toggles(j)' = Toggles(j) /\ ui'.pending[j] = ui.pending[j]
            /\ (j \notin ui'.crossed => j \notin ui.crossed)
      BY <1>5, <1>8, <1>11, <2>6
    <3>2. Expected(j)' <=> Expected(j)
      BY <1>2, <3>1 DEF Expected, Sent
    <3> QED BY <2>2, <3>1, <3>2 DEF StarInv
  <2>7. ASSUME NEW l \in lists PROVE ListInv(l)'
    <3>1. ListInv(l)
      BY <2>2
    <3>2. \A s : Agrees(s) => Agrees(s)'
      BY <1>2, <1>5 DEF Agrees
    <3>3. seen[l] = None \/ Agrees(seen[l])
      BY <1>2, <2>1, <3>1 DEF ListInv
    <3>4. \A q \in wire' : q.op = l => q \in wire
      BY <1>2, <1>7 DEF FavoritesPage!Lists
    <3> QED BY <1>2, <3>1, <3>2, <3>3, <3>4 DEF ListInv
  <2> QED BY <2>5, <2>6, <2>7
<1> QED BY <1>10, <1>12, <1>13 DEF FavoritesInv

\* The server turns a favorite into none, or the other way round.
LEMMA FavoritesServe ==
  ASSUME FavoritesInv, part = "favorites", part' = part, NEW q \in wire, FavoritesPage!Serve(q)
  PROVE  FavoritesInv'
<1> DEFINE lists == FavoritesPage!Lists
           r == [q EXCEPT !.status = "done"]
<1>1. FavoritesTyped /\ FavoritesWire(wire) /\ FavoriteTyped(q)
  BY DEF FavoritesInv, FavoritesWire
<1>2. /\ wire' = (wire \ {q}) \cup {r} /\ UNCHANGED <<seen, ui>> /\ q.status = "sent"
      /\ \/ q.op = "ask" /\ held' = held
         \/ q.op = "toggle" /\ held' = (held \ q.ids) \cup (q.ids \ held)
  BY DEF FavoritesPage!Serve, FavoritesPage!Served, FavoritesPage!Becomes
<1>3. FavoriteTyped(r) /\ r.op = q.op /\ r.ids = q.ids /\ r.nth = q.nth /\ r.status = "done"
  BY <1>1 DEF FavoriteTyped, RequestFields
<1> HIDE DEF r
<1>4. /\ \A p \in wire' : p = r \/ (p \in wire /\ p # q)
      /\ \A p \in wire : p \in wire' \/ p = q
      /\ r \in wire'
  BY <1>2
<1>5. FavoritesWire(wire')
  BY <1>1, <1>2, <1>3, <1>4 DEF FavoritesWire, FavoritesPage!Lists
<1>6. CASE q.op = "ask"
  <2>1. FavoritesTyped'
    BY <1>1, <1>2, <1>6 DEF FavoritesTyped
  <2>2. \A p \in wire \cup wire' : p.op \in lists \cup {"toggle"} => p \in wire /\ p \in wire'
    BY <1>3, <1>4, <1>6 DEF FavoritesPage!Lists
  <2> QED BY <1>2, <1>5, <1>6, <2>1, <2>2, FavoritesStay
<1>7. CASE q.op = "toggle"
  <2>1. PICK i \in Items : q.ids = {i}
    BY <1>1, <1>7 DEF FavoriteTyped
  <2>2. q.nth \in {0, 1}
    BY <1>1, <1>7 DEF FavoriteTyped
  <2>3. /\ held' = (held \ {i}) \cup ({i} \ held)
        /\ i \in held' <=> i \notin held
        /\ \A j \in Items \ {i} : j \in held' <=> j \in held
    BY <1>2, <1>7, <2>1
  <2>4. /\ Toggles(i)' = (Toggles(i) \ {q}) \cup {r} /\ q \in Toggles(i)
        /\ \A j \in Items \ {i} : Toggles(j)' = Toggles(j)
    <3>1. q \in Toggles(i)
      BY <1>7, <2>1 DEF Toggles
    <3>2. Toggles(i)' = (Toggles(i) \ {q}) \cup {r}
      BY <1>2, <1>3, <1>7, <2>1 DEF Toggles
    <3>3. ASSUME NEW j \in Items \ {i} PROVE Toggles(j)' = Toggles(j)
      <4>1. r.ids # {j} /\ q.ids # {j}
        BY <1>3, <2>1
      <4> QED BY <1>2, <4>1 DEF Toggles
    <3> QED BY <3>1, <3>2, <3>3
  <2>5. FavoritesTyped' /\ CrossedInv' /\ OldInv' /\ FavoritesUpToDate'
    <3>1. FavoritesTyped'
      BY <1>1, <1>2, <2>3 DEF FavoritesTyped
    <3>2. CrossedInv'
      <4> SUFFICES ASSUME NEW j \in Items, j \notin ui.crossed, NEW p1 \in Toggles(j)',
        NEW p2 \in Toggles(j)'
                   PROVE  p1 = p2
        BY <1>2 DEF CrossedInv
      <4>1. \A p3, p4 \in Toggles(j) : p3 = p4
        BY DEF FavoritesInv, CrossedInv
      <4>2. CASE j = i
        BY <2>4, <4>1, <4>2
      <4>3. CASE j # i
        BY <2>4, <4>1, <4>3
      <4> QED BY <4>2, <4>3
    <3>3. OldInv'
      BY <1>1, <1>2, <1>4, <1>7 DEF FavoritesInv, OldInv, FavoritesTyped, FavoritesPage!Lists
    <3>4. FavoritesUpToDate'
      BY <1>3, <1>4, <1>7 DEF FavoritesUpToDate
    <3> QED BY <3>1, <3>2, <3>3, <3>4
  <2>6. ASSUME Sure' PROVE (\A j \in Items : StarInv(j)') /\ (\A l \in lists : ListInv(l)')
    <3>1. Sure
      BY <1>2, <2>6 DEF Sure
    <3>2. (\A j \in Items : StarInv(j)) /\ (\A l \in lists : ListInv(l))
      BY <3>1 DEF FavoritesInv
    <3>3. Expected(i)' <=> Expected(i)
      <4>1. \A p \in Toggles(i) : p.nth = q.nth => p = q
        BY <1>1, <1>7, <2>1 DEF FavoritesWire, Toggles
      <4>2. Sent(i, q.nth) /\ ~(\E p \in Toggles(i)' : p.nth = q.nth /\ p.status = "sent")
        BY <1>2, <1>3, <2>4, <4>1 DEF Sent
      <4>3. \A c \in {0, 1} : c # q.nth => (Sent(i, c)' <=> Sent(i, c))
        BY <1>3, <2>4 DEF Sent
      <4>4. CASE q.nth = 0
        <5>1. Sent(i, 0) /\ ~Sent(i, 0)'
          BY <4>2, <4>4 DEF Sent
        <5>2. Sent(i, 1)' <=> Sent(i, 1)
          BY <4>3, <4>4
        <5> QED BY <2>3, <5>1, <5>2 DEF Expected
      <4>5. CASE q.nth = 1
        <5>1. Sent(i, 1) /\ ~Sent(i, 1)'
          BY <4>2, <4>5 DEF Sent
        <5>2. Sent(i, 0)' <=> Sent(i, 0)
          BY <4>3, <4>5
        <5> QED BY <2>3, <5>1, <5>2 DEF Expected
      <4> QED BY <2>2, <4>4, <4>5
    <3>4. ui.pending[i] # "none"
      BY <2>4, <3>2 DEF StarInv
    <3>5. StarInv(i)'
      BY <1>2, <1>3, <2>4, <3>2, <3>3, <3>4 DEF StarInv
    <3>6. ASSUME NEW j \in Items, j # i PROVE StarInv(j)'
      <4>1. Toggles(j)' = Toggles(j) /\ (j \in held' <=> j \in held)
        BY <2>3, <2>4, <3>6
      <4>2. Expected(j)' <=> Expected(j)
        BY <4>1 DEF Expected, Sent
      <4> QED BY <1>2, <3>2, <4>1, <4>2 DEF StarInv
    <3>7. ASSUME NEW l \in lists PROVE ListInv(l)'
      <4>1. ListInv(l)
        BY <3>2
      <4>2. \A s : Agrees(s) => Agrees(s)'
        BY <1>2, <2>3, <3>4 DEF Agrees
      <4>3. ~Untouched
        BY <3>4 DEF Untouched
      <4>4. seen[l] = None \/ Agrees(seen[l])
        BY <4>1, <4>3 DEF ListInv
      <4>5. \A p \in wire' : p.op = l => p \in wire
        BY <1>3, <1>4, <1>7 DEF FavoritesPage!Lists
      <4> QED BY <1>2, <4>1, <4>2, <4>4, <4>5 DEF ListInv
    <3> QED BY <3>5, <3>6, <3>7
  <2> QED BY <1>5, <2>5, <2>6 DEF FavoritesInv
<1> QED BY <1>2, <1>6, <1>7

\* What is expected once a click that was carried out is answered is what was expected before.
LEMMA AnsweredExpected ==
  ASSUME NEW q, q.status = "done" \/ q.op # "toggle", NEW i, held' = held,
         \A p \in wire : p.op = "toggle" => p \in wire' \/ p = q,
         \A p \in wire' : p.op = "toggle" => p \in wire
  PROVE  /\ Expected(i)' <=> Expected(i)
         /\ Toggles(i)' \subseteq Toggles(i)
<1>1. Toggles(i)' \subseteq Toggles(i) /\ \A p \in Toggles(i) : p.status = "sent"
        => p \in Toggles(i)'
  BY DEF Toggles
<1>2. \A b : Sent(i, b)' <=> Sent(i, b)
  BY <1>1 DEF Sent
<1>3. (Sent(i, 0)' <=> Sent(i, 0)) /\ (Sent(i, 1)' <=> Sent(i, 1))
  BY <1>2
<1> QED BY <1>1, <1>3 DEF Expected

\* A click is answered, and the favorites are fetched if the page is still there.
LEMMA FavoritesToggled ==
  ASSUME FavoritesInv, part = "favorites", part' = part, NEW q \in wire, FavoritesPage!Toggled(q)
  PROVE  FavoritesInv'
<1> DEFINE lists == FavoritesPage!Lists
           w == wire \ {q}
<1>1. FavoritesTyped /\ FavoritesWire(wire) /\ FavoriteTyped(q)
  BY DEF FavoritesInv, FavoritesWire
<1>2. /\ UNCHANGED <<held, seen>> /\ q.op = "toggle" /\ q.status = "done"
      /\ wire' = IF ui.here THEN FavoritesPage!Fetching({"favorites"}, w) ELSE w
      /\ ui' = IF ui.here THEN [ui EXCEPT !.doubt = ui.doubt \ {"favorites"}] ELSE ui
  BY DEF FavoritesPage!Toggled, FavoritesPage!Answered
<1>3. FavoritesWire(w)
  BY <1>1 DEF FavoritesWire
<1>4. PICK i \in Items : q.ids = {i}
  BY <1>1, <1>2 DEF FavoriteTyped
<1>5. /\ DOMAIN ui' = FavoritesFields /\ ui'.pending = ui.pending /\ ui'.tab = ui.tab
      /\ ui'.crossed = ui.crossed /\ ui'.here = ui.here /\ ui'.old = ui.old
      /\ ui.doubt \subseteq ui'.doubt \cup {"favorites"}
  BY <1>1, <1>2 DEF FavoritesTyped, FavoritesFields
<1>6. /\ FavoritesWire(wire')
      /\ \A p \in wire : p \in wire' \/ p = q \/ (p.op = "favorites" /\ ui.here)
      /\ \A p \in wire' : p \in wire \/ (p.op = "favorites" /\ p.status = "sent")
      /\ ui.here => \E p \in wire' : p.op = "favorites" /\ p.status = "sent"
  <2>1. CASE ~ui.here
    BY <1>2, <1>3, <2>1
  <2>2. CASE ui.here
    <3> DEFINE new == {"favorites"}
    <3>1. new \in SUBSET lists /\ wire' = FavoritesPage!Fetching(new, w)
      BY <1>2, <2>2 DEF FavoritesPage!Lists
    <3>2. \A p \in wire : p \in w \/ p = q
      OBVIOUS
    <3> HIDE DEF new, w
    <3>3. /\ FavoritesWire(wire')
          /\ \A l \in new : \E p \in wire' : p.op = l /\ p.status = "sent"
          /\ \A p \in w : p \in wire' \/ p.op \in new
          /\ \A p \in wire' : IF p.op \in new THEN p.status = "sent" ELSE p \in w
      BY <1>3, <3>1, FavoritesFetchingIs
    <3> QED BY <2>2, <3>2, <3>3 DEF new, w
  <2> QED BY <2>1, <2>2
<1> HIDE DEF w
<1>7. /\ \A p \in wire : p.op = "toggle" => p \in wire' \/ p = q
      /\ \A p \in wire' : p.op = "toggle" => p \in wire
  BY <1>6
<1>8. \A j : (Expected(j)' <=> Expected(j)) /\ Toggles(j)' \subseteq Toggles(j)
  BY <1>2, <1>7, AnsweredExpected
<1>9. FavoritesTyped' /\ CrossedInv' /\ OldInv'
  <2>1. FavoritesTyped'
    BY <1>1, <1>2, <1>5 DEF FavoritesTyped
  <2>2. CrossedInv'
    BY <1>5, <1>8 DEF FavoritesInv, CrossedInv
  <2>3. OldInv'
    BY <1>1, <1>2, <1>5, <1>6 DEF FavoritesInv, OldInv, FavoritesTyped, FavoritesPage!Lists
  <2> QED BY <2>1, <2>2, <2>3
<1>10. ui'.here => FavoritesUpToDate'
  BY <1>5, <1>6 DEF FavoritesUpToDate
<1>11. ASSUME Sure' PROVE (\A j \in Items : StarInv(j)') /\ (\A l \in lists : ListInv(l)')
  <2>1. Sure
    BY <1>5, <1>11 DEF Sure
  <2>2. (\A j \in Items : StarInv(j)) /\ (\A l \in lists : ListInv(l))
    BY <2>1 DEF FavoritesInv
  <2>3. \A j \in Items : StarInv(j)'
    BY <1>5, <1>8, <2>2 DEF StarInv
  <2>4. ~Untouched
    BY <1>2, <1>4 DEF Untouched, Toggles
  <2>5. ASSUME NEW l \in lists PROVE ListInv(l)'
    <3>1. ListInv(l)
      BY <2>2
    <3>2. \A s : Agrees(s) <=> Agrees(s)'
      BY <1>2, <1>5 DEF Agrees
    <3>3. seen[l] = None \/ Agrees(seen[l])
      BY <2>4, <3>1 DEF ListInv
    <3>4. \A p \in wire' : p.op = l /\ p.status = "done" => p \in wire
      BY <1>6
    <3> QED BY <1>2, <3>1, <3>2, <3>3, <3>4 DEF ListInv
  <2> QED BY <2>3, <2>5
<1> QED BY <1>6, <1>9, <1>10, <1>11 DEF FavoritesInv

\* A click is refused or lost, and the star goes back.
LEMMA FavoritesUntoggled ==
  ASSUME FavoritesInv, part = "favorites", part' = part, NEW q \in wire, FavoritesPage!Untoggled(q)
  PROVE  FavoritesInv'
<1> DEFINE lists == FavoritesPage!Lists
           lost == q.status = "done" \/ q.ids \subseteq ui.crossed
<1>1. FavoritesTyped /\ FavoritesWire(wire) /\ FavoriteTyped(q)
  BY DEF FavoritesInv, FavoritesWire
<1>2. q.op = "toggle" /\ wire' = wire \ {q} /\ UNCHANGED <<held, seen>>
  BY DEF FavoritesPage!Untoggled
<1>3. PICK i \in Items : q.ids = {i}
  BY <1>1, <1>2 DEF FavoriteTyped
<1>4. /\ DOMAIN ui' = FavoritesFields /\ ui'.tab = ui.tab
      /\ ui'.crossed = ui.crossed /\ ui'.here = ui.here /\ ui'.old = ui.old
      /\ ui'.pending = [j \in Items |-> IF j \in q.ids /\ ui.here
                                           THEN FavoritesPage!Mark(FavoritesPage!Before(q)) ELSE ui.pending[j]]
      /\ ui'.doubt = IF lost THEN ui.doubt \cup lists \cup {"star"} ELSE ui.doubt
  BY <1>1 DEF FavoritesPage!Untoggled, FavoritesTyped, FavoritesFields
<1>5. /\ \A j \in Items \ {i} : ui'.pending[j] = ui.pending[j]
      /\ ui.here => ui'.pending[i] = FavoritesPage!Mark(q.nth = 1)
      /\ ~ui.here => ui'.pending[i] = ui.pending[i]
      /\ \A j \in Items : ui'.pending[j] = "none" => ui.pending[j] = "none"
      /\ ui'.pending \in [Items -> {"none", "yes", "no"}]
  BY <1>1, <1>3, <1>4 DEF FavoritesTyped, FavoritesPage!Mark, FavoritesPage!Before
<1>6. /\ \A p \in wire' : p \in wire
      /\ \A p \in wire : p \in wire' \/ p = q
      /\ \A j : Toggles(j)' = Toggles(j) \ {q}
  BY <1>2 DEF Toggles
<1>7. FavoritesTyped' /\ FavoritesWire(wire') /\ CrossedInv' /\ OldInv'
  <2>1. FavoritesTyped'
    BY <1>1, <1>2, <1>4, <1>5 DEF FavoritesTyped
  <2>2. FavoritesWire(wire')
    BY <1>1, <1>6 DEF FavoritesWire
  <2>3. CrossedInv'
    BY <1>4, <1>6 DEF FavoritesInv, CrossedInv
  <2>4. OldInv'
    BY <1>1, <1>2, <1>4, <1>6 DEF FavoritesInv, OldInv, FavoritesTyped, FavoritesPage!Lists
  <2> QED BY <2>1, <2>2, <2>3, <2>4
<1>8. ui'.here => FavoritesUpToDate'
  <2>1. CASE lost
    BY <1>4, <2>1 DEF FavoritesUpToDate, FavoritesPage!Lists
  <2>2. CASE ~lost
    BY <1>1, <1>2, <1>4, <1>6, <2>2 DEF FavoritesUpToDate, FavoritesInv, FavoriteTyped
  <2> QED BY <2>1, <2>2
<1>9. ASSUME Sure' PROVE (\A j \in Items : StarInv(j)') /\ (\A l \in lists : ListInv(l)')
  <2>1. Sure /\ q.status = "sent" /\ i \notin ui.crossed /\ ui.doubt = ui'.doubt
    BY <1>1, <1>3, <1>4, <1>9 DEF Sure, FavoriteTyped
  <2>2. (\A j \in Items : StarInv(j)) /\ (\A l \in lists : ListInv(l))
    BY <2>1 DEF FavoritesInv
  <2>3. Toggles(i) = {q} /\ Toggles(i)' = {}
    <3>1. q \in Toggles(i)
      BY <1>2, <1>3 DEF Toggles
    <3>2. \A p \in Toggles(i) : p = q
      BY <2>1, <3>1 DEF FavoritesInv, CrossedInv
    <3> QED BY <1>6, <3>1, <3>2
  <2>4. ui.pending[i] # "none" /\ ui.pending[i] = FavoritesPage!Mark(q.nth # 1)
    BY <2>1, <2>2, <2>3 DEF StarInv
  <2>5. q.nth \in {0, 1}
    BY <1>1, <1>2 DEF FavoriteTyped
  <2>6. (q.nth # 1) <=> Expected(i)
    BY <2>2, <2>4 DEF StarInv, FavoritesPage!Mark
  <2>7. Expected(i) <=> i \notin held
    <3>1. CASE q.nth = 0
      <4>1. Sent(i, 0) /\ ~Sent(i, 1)
        BY <2>1, <2>3, <3>1 DEF Sent
      <4> QED BY <4>1 DEF Expected
    <3>2. CASE q.nth = 1
      <4>1. Sent(i, 1) /\ ~Sent(i, 0)
        BY <2>1, <2>3, <3>2 DEF Sent
      <4> QED BY <4>1 DEF Expected
    <3> QED BY <2>5, <3>1, <3>2
  <2>8. Expected(i)' <=> i \in held'
    <3>1. ~Sent(i, 0)' /\ ~Sent(i, 1)'
      BY <2>3 DEF Sent
    <3> QED BY <3>1 DEF Expected
  <2>9. StarInv(i)'
    <3>1. ui'.pending[i] = FavoritesPage!Mark(q.nth = 1)
      BY <1>5, <2>1 DEF Sure
    <3>2. ui'.pending[i] = "yes" <=> Expected(i)'
      BY <1>2, <2>6, <2>7, <2>8, <3>1 DEF FavoritesPage!Mark
    <3> QED BY <2>3, <3>2 DEF StarInv
  <2>10. ASSUME NEW j \in Items, j # i PROVE StarInv(j)'
    <3>1. q \notin Toggles(j)
      BY <1>3, <2>10 DEF Toggles
    <3>2. Toggles(j)' = Toggles(j) /\ ui'.pending[j] = ui.pending[j]
      BY <1>5, <1>6, <2>10, <3>1
    <3>3. Expected(j)' <=> Expected(j)
      BY <1>2, <3>2 DEF Expected, Sent
    <3> QED BY <1>4, <2>2, <3>2, <3>3 DEF StarInv
  <2>11. ASSUME NEW l \in lists PROVE ListInv(l)'
    <3>1. ListInv(l)
      BY <2>2
    <3>2. \A s : Agrees(s) => Agrees(s)'
      BY <1>2, <1>5 DEF Agrees
    <3>3. seen[l] = None \/ Agrees(seen[l])
      BY <2>4, <3>1 DEF ListInv, Untouched
    <3> QED BY <1>2, <1>6, <3>1, <3>2, <3>3 DEF ListInv
  <2> QED BY <2>9, <2>10, <2>11
<1> QED BY <1>7, <1>8, <1>9 DEF FavoritesInv

\* Every step of the favorites, and of any other part, keeps the invariant.
LEMMA FavoritesStep ==
  ASSUME FavoritesInv, [Next]_vars
  PROVE  FavoritesInv'
<1>1. ASSUME part = "favorites", part' = part, FavoritesPage!Next PROVE FavoritesInv'
  <2>1. CASE \E q \in wire :
               \/ FavoritesPage!FetchServed(q) \/ FavoritesPage!FetchArrives(q)
                    \/ FavoritesPage!FetchLost(q)
               \/ FavoritesPage!Serve(q) \/ FavoritesPage!Toggled(q) \/ FavoritesPage!Untoggled(q)
               \/ FavoritesPage!Requested(q)
    BY <1>1, <2>1, FavoritesFetch, FavoritesServe, FavoritesToggled, FavoritesUntoggled,
       FavoritesShow
  <2>2. CASE \E i \in Items : FavoritesPage!ToggleFavorite(i)
    BY <1>1, <2>2, FavoritesToggle
  <2>3. CASE \/ FavoritesPage!QueryLists \/ FavoritesPage!RequestContent
                  \/ FavoritesPage!CancelRequest
             \/ FavoritesPage!SendRequest \/ FavoritesPage!Leave \/ FavoritesPage!Return
             \/ \E t \in {"all", "favorites"} : FavoritesPage!Tab(t)
    BY <1>1, <2>3, FavoritesQuery, FavoritesShow, FavoritesReturn
  <2> QED BY <1>1, <2>1, <2>2, <2>3, Zenon DEF FavoritesPage!Next
<1>2. CASE part' = part /\ UNCHANGED pageVars
  <2>1. part' = part /\ wire' = wire /\ held' = held /\ seen' = seen /\ ui' = ui
    BY <1>2 DEF pageVars
  <2> QED BY <2>1
    DEF FavoritesInv, FavoritesWire, FavoritesTyped, CrossedInv, OldInv, Toggles, Sure, StarInv,
        Expected, Sent, ListInv, Agrees, Untouched, FavoritesUpToDate
<1>3. CASE part # "favorites" /\ part' = part
  BY <1>3 DEF FavoritesInv
<1> QED BY <1>1, <1>2, <1>3 DEF Next, vars

LEMMA FavoritesInit ==
  ASSUME Init PROVE FavoritesInv
<1> SUFFICES ASSUME part = "favorites" PROVE FavoritesInv
  BY DEF FavoritesInv
<1>1. /\ held \in SUBSET Items /\ seen = [list |-> held, favorites |-> held] /\ wire = {}
      /\ ui = FavoritesPage!Idle
  BY DEF Init, FavoritesPage!Init
<1>2. /\ DOMAIN ui = FavoritesFields /\ ui.pending = [i \in Items |-> "none"] /\ ui.tab = "all"
      /\ ui.old = {} /\ ui.here
  BY <1>1 DEF FavoritesPage!Idle, FavoritesPage!NoPending, FavoritesFields
<1>3. FavoritesTyped /\ FavoritesWire(wire) /\ \A i \in Items : Toggles(i) = {}
  BY <1>1, <1>2 DEF FavoritesTyped, FavoritesWire, Toggles, FavoritesPage!Lists
<1>4. \A i \in Items : StarInv(i)
  BY <1>2, <1>3 DEF StarInv
<1>5. \A l \in FavoritesPage!Lists : ListInv(l)
  BY <1>1 DEF ListInv, Agrees, FavoritesPage!Lists
<1>6. CrossedInv /\ OldInv /\ FavoritesUpToDate
  BY <1>1, <1>2, <1>3 DEF CrossedInv, OldInv, FavoritesUpToDate
<1> QED BY <1>3, <1>4, <1>5, <1>6 DEF FavoritesInv

\* With nothing under way the favorites are those of the server, and each star shows whether its
\* content is one, unless an answer was lost.
LEMMA FavoritesFresh ==
  ASSUME FavoritesInv, part = "favorites" PROVE FavoritesPage!QuietIsFresh /\ FavoritesPage!StarTrue
<1>1. FavoritesPage!QuietIsFresh
  BY DEF FavoritesPage!QuietIsFresh, FavoritesInv, FavoritesUpToDate
<1>2. ASSUME ui.here, wire = {}, ui.doubt = {}, NEW i \in FavoritesPage!Content
      PROVE  FavoritesPage!Star(i) <=> i \in held
  <2>1. /\ FavoritesTyped /\ Sure /\ (\A j \in Items : StarInv(j))
        /\ \A l \in FavoritesPage!Lists : ListInv(l)
    BY <1>2 DEF FavoritesInv, Sure
  <2>2. ui.old = {}
    BY <1>2 DEF FavoritesInv, OldInv
  <2>3. i \in Items
    <3>1. CASE ui.tab = "all"
      BY <1>2, <3>1 DEF FavoritesPage!Content
    <3>2. CASE ui.tab # "all"
      <4>1. seen.favorites # None /\ i \in seen.favorites
        BY <1>2, <3>2 DEF FavoritesPage!Content
      <4>2. seen.favorites = held
        BY <1>1, <1>2, <4>1 DEF FavoritesPage!QuietIsFresh
      <4> QED BY <2>1, <4>1, <4>2 DEF FavoritesTyped
    <3> QED BY <3>1, <3>2
  <2>4. FavoritesPage!Star(i) <=> Expected(i)
    BY <1>2, <2>1, <2>2, <2>3, StarShown
  <2>5. Expected(i) <=> i \in held
    <3>1. ~Sent(i, 0) /\ ~Sent(i, 1)
      BY <1>2 DEF Sent, Toggles
    <3> QED BY <3>1 DEF Expected
  <2> QED BY <2>4, <2>5
<1> QED BY <1>1, <1>2 DEF FavoritesPage!StarTrue

-----------------------------------------------------------------------------
(* The pages together *)

\* When nothing is under way the lists of open content, a sheet that is open, a resident's
\* favorites and the entries of his record show what the database holds, and each star whether its
\* content is a favorite, unless an answer was lost (mutate, the keys of SWR, toggleFavorite,
\* handleConfirmDelete).
THEOREM QuietIsFreshHolds == Spec => []QuietIsFresh
<1> DEFINE Inv == ContentInv /\ FavoritesInv /\ HomeInv /\ HomeListInv
<1>1. Init => Inv
  <2>1. Init => HomeInv
    BY DEF Init, Home!Init, Home!Mounted, Home!Fetch, HomeInv, HomeFields, RequestFields
  <2> QED BY <2>1, ContentInit, FavoritesInit, HomeListInit
<1>2. Inv /\ [Next]_vars => Inv'
  BY ContentStep, FavoritesStep, HomeStep, HomeListStep
<1>3. Inv => QuietIsFresh
  BY ContentFresh, FavoritesFresh, HomeListFresh DEF QuietIsFresh
<1> QED BY <1>1, <1>2, <1>3, PTL DEF Spec

\* While the page refuses to retry a video there is a poll that will end the refusal, however many
\* videos were added or retried and whichever chain of polls ends first (startPolling).
THEOREM NeverStuckPollingHolds == Spec => []NeverStuckPolling
<1>1. Init => ContentInv
  BY ContentInit
<1>2. ContentInv /\ [Next]_vars => ContentInv'
  BY ContentStep
<1>3. ContentInv => NeverStuckPolling
  BY DEF ContentInv, PageTyped, NeverStuckPolling, Content!NeverStuckPolling
<1> QED BY <1>1, <1>2, <1>3, PTL DEF Spec
=============================================================================

--------------------------- MODULE VideoDownloads ---------------------------
(***************************************************************************)
(* The provider middleware downloads the videos of the knowledge center.   *)
(* Three subscriptions work at once, each on one message at a time: adding *)
(* videos, the scheduler's job that retries what is not available, and a   *)
(* retry asked for by an administrator.  Messages are delivered at most    *)
(* once; a handler may run out of time or die between any two steps, and   *)
(* nothing but the rows of the table tells the next one what was done.     *)
(***************************************************************************)
EXTENDS Naturals, FiniteSets

CONSTANTS
  Videos,
  MaxAttempts,  \* failed downloads before a video is given up (5 in the code)
  MaxRequests,  \* bound: what administrators ask for
  MaxFaults     \* bound: messages lost, handlers out of time, restarts

DownloadsAssumption == MaxAttempts \in Nat \ {0} /\ MaxRequests \in Nat /\ MaxFaults \in Nat

VARIABLES
  bucket,    \* does the service have a bucket (S3_BUCKET_NAME)?
  rows,      \* the videos' rows, with the number of their attempts
  files,     \* where each video's file is: on "disk", or under a key of the bucket
  inbox,     \* messages published and not yet taken
  workers,   \* what the handler of each subscription is about to do
  task,      \* the scheduler's row for the retry job
  requests, faults

vars == <<bucket, rows, files, inbox, workers, task, requests, faults>>
handler == <<inbox, workers, task, requests, faults>>

Topics == {"add", "job", "manual"}
Message(topic, vids) == [topic |-> topic, vids |-> vids]
NoRow == [state |-> "none", availability |-> "processing", attempts |-> 0, young |-> FALSE]
Resting == [at |-> "idle", video |-> {}, todo |-> {}]

Present(v) == rows[v].state = "present"
Wanting == {v \in Videos : Present(v) /\ rows[v].availability # "available"}
\* The keys a file is uploaded under and looked for under are not the same.
UploadKey == "videos/"
\* Mutant of AskedKey: the key that the upload uses, though nothing marks the video then.
AskedKeyM == "videos/"
AskedKey == "/videos/"

Init ==
  /\ bucket \in BOOLEAN
  /\ rows = [v \in Videos |-> NoRow] /\ files = [v \in Videos |-> {}]
  /\ inbox = {} /\ workers = [w \in Topics |-> Resting] /\ task = "pending"
  /\ requests = 0 /\ faults = 0

-----------------------------------------------------------------------------
(* What administrators and the scheduler ask for. *)

Publish(m) == m \notin inbox /\ inbox' = inbox \cup {m}
Asks == requests < MaxRequests /\ requests' = requests + 1
AddVideo(v) ==
  /\ Asks /\ Publish(Message("add", {v})) /\ UNCHANGED <<bucket, rows, files, workers, task, faults>>
RetryVideo(v) ==
  /\ Present(v) /\ rows[v].attempts < MaxAttempts
  /\ Asks /\ Publish(Message("manual", {v})) /\ UNCHANGED <<bucket, rows, files, workers, task, faults>>
DeleteVideo(v) ==
  /\ Present(v) /\ Asks /\ rows' = [rows EXCEPT ![v].state = "removed"]
  /\ UNCHANGED <<bucket, files, inbox, workers, task, faults>>

\* The job is published at its hour whether the task still runs or not; one message waits at
\* most (a bound: a second one would find the same videos).
\* Mutant of RunTask: a task that is running is left alone.
RunTaskM ==
  /\ IF task = "running" THEN UNCHANGED <<task, inbox>> ELSE task' = "running" /\ Publish(Message("job", {}))
  /\ UNCHANGED <<bucket, rows, files, workers, requests, faults>>
RunTask ==
  /\ task' = "running" /\ Publish(Message("job", {}))
  /\ UNCHANGED <<bucket, rows, files, workers, requests, faults>>

\* Half an hour passes since a video was created; the handler that created it has run out of its
\* own half hour by then.
GrowsOld(v) ==
  /\ rows[v].young /\ v \notin workers["add"].video /\ rows' = [rows EXCEPT ![v].young = FALSE]
  /\ UNCHANGED <<bucket, files, handler>>

-----------------------------------------------------------------------------
(* The handlers. *)

Goes(w, at) == workers' = [workers EXCEPT ![w].at = at]
\* A handler is through with a video, and looks at the next of its list.
NextVideo(w) == workers' = [workers EXCEPT ![w].at = "next", ![w].video = {}]
Keeps == UNCHANGED <<bucket, inbox, task, requests, faults>>

\* The job's list is read once, at its start.
Take(w) ==
  \E m \in inbox :
    /\ m.topic = w /\ workers[w].at = "idle" /\ inbox' = inbox \ {m}
    /\ workers' = [workers EXCEPT ![w].at = "next", ![w].todo = IF w = "job" THEN Wanting ELSE m.vids]
    /\ UNCHANGED <<bucket, rows, files, task, requests, faults>>
\* With its list done the job's handler releases the task, the others just return.
Finish(w) ==
  /\ workers[w].at = "next" /\ workers[w].todo = {}
  /\ task' = IF w = "job" THEN "pending" ELSE task
  /\ workers' = [workers EXCEPT ![w] = Resting] /\ UNCHANGED <<bucket, rows, files, inbox, requests, faults>>

\* A video is created unless it is there; the row of a removed one keeps its unique id and url,
\* so that creating it again fails.
Create(v) ==
  /\ workers["add"].at = "next" /\ v \in workers["add"].todo /\ UNCHANGED files
  /\ \/ /\ rows[v].state = "none"
        /\ rows' = [rows EXCEPT ![v] = [NoRow EXCEPT !.state = "present", !.young = TRUE]]
        /\ workers' = [workers EXCEPT !["add"].at = "download", !["add"].video = {v}, !["add"].todo = @ \ {v}]
     \/ /\ UNCHANGED rows  \* it exists, cannot be created, or tells nothing of itself
        /\ workers' = [workers EXCEPT !["add"].todo = @ \ {v}]
  /\ Keeps

\* A retry reads the row once more.  It is too soon for a video that was just created; the ten
\* minutes after an attempt hold nothing back, as an attempt leaves "has_error" behind.
\* The attempt counted for a row that is gone names no video and fails; the job then counts one
\* for the row of its own list, and marking it brings the row back.
TooSoon(row) == row.availability = "processing" /\ row.young
Load(w, v) ==
  /\ w \in {"job", "manual"} /\ workers[w].at = "next" /\ v \in workers[w].todo
  /\ UNCHANGED <<rows, files>> /\ Keeps
  /\ LET drops == IF Present(v) THEN rows[v].availability = "available" \/ TooSoon(rows[v]) ELSE w = "manual"
         at == IF Present(v) THEN "download" ELSE "count"
     IN workers' = IF drops THEN [workers EXCEPT ![w].todo = @ \ {v}]
                   ELSE [workers EXCEPT ![w].at = at, ![w].video = {v}, ![w].todo = @ \ {v}]

\* An error of a retry is counted; one of an added video is only logged ...
Fails(w) == IF w = "add" THEN NextVideo(w) ELSE Goes(w, "count")
\* ... but that of the downloader is counted for each.  A video found in the bucket is left.
Download(w, v) ==
  /\ workers[w].at = "download" /\ v \in workers[w].video /\ UNCHANGED rows /\ Keeps
  /\ \/ Fails(w) /\ UNCHANGED files
     \/ IF AskedKey \in files[v] THEN NextVideo(w) /\ UNCHANGED files
        ELSE \E fetched \in BOOLEAN :
               /\ files' = [files EXCEPT ![v] = IF fetched THEN @ \cup {"disk"} ELSE @]
               /\ Goes(w, IF ~fetched THEN "count" ELSE IF bucket THEN "store" ELSE "save")
\* Another handler may have uploaded and removed the file of the same name.
\* Mutant of Store: whatever becomes of the upload, the row is saved.
StoreM(w, v) ==
  /\ workers[w].at = "store" /\ v \in workers[w].video /\ UNCHANGED <<rows, files>> /\ Keeps
  /\ Goes(w, "save")
Store(w, v) ==
  /\ workers[w].at = "store" /\ v \in workers[w].video /\ UNCHANGED rows /\ Keeps
  /\ \/ Fails(w) /\ UNCHANGED files
     \/ "disk" \in files[v] /\ Fails(w) /\ files' = [files EXCEPT ![v] = @ \cup {UploadKey}]
     \/ "disk" \in files[v] /\ Goes(w, "unlink") /\ files' = [files EXCEPT ![v] = @ \cup {UploadKey}]
Unlink(w, v) ==
  /\ workers[w].at = "unlink" /\ v \in workers[w].video /\ UNCHANGED rows /\ Keeps
  /\ files' = [files EXCEPT ![v] = @ \ {"disk"}]
  /\ IF "disk" \in files[v] THEN Goes(w, "save") ELSE Fails(w)

\* Saving writes the whole row as it was read, and writes it anew if it was removed meanwhile.
Saved(v, availability) == [rows EXCEPT ![v].state = "present", ![v].availability = availability]
Save(w, v) ==
  /\ workers[w].at = "save" /\ v \in workers[w].video /\ UNCHANGED files /\ Keeps
  /\ rows' = Saved(v, "available") /\ NextVideo(w)

\* Counting, marking and recording a failure are three statements.
\* Mutant of Count: one attempt too many.
CountM(w, v) ==
  /\ workers[w].at = "count" /\ v \in workers[w].video /\ UNCHANGED files /\ Keeps
  /\ IF rows[v].attempts > MaxAttempts
     THEN NextVideo(w) /\ rows' = [rows EXCEPT ![v].state = "removed"]
     ELSE Goes(w, "mark") /\ UNCHANGED rows
Count(w, v) ==
  /\ workers[w].at = "count" /\ v \in workers[w].video /\ UNCHANGED files /\ Keeps
  /\ IF rows[v].attempts >= MaxAttempts
     THEN NextVideo(w) /\ rows' = [rows EXCEPT ![v].state = "removed"]
     ELSE Goes(w, "mark") /\ UNCHANGED rows
Mark(w, v) ==
  /\ workers[w].at = "mark" /\ v \in workers[w].video /\ UNCHANGED files /\ Keeps
  /\ rows' = Saved(v, "has_error") /\ Goes(w, "record")
Record(w, v) ==
  /\ workers[w].at = "record" /\ v \in workers[w].video /\ UNCHANGED files /\ Keeps
  /\ rows' = [rows EXCEPT ![v].attempts = @ + 1] /\ NextVideo(w)

\* What goes wrong: a message without a subscriber is gone; a handler out of time stops where it
\* is and cannot even release its task; a restart stops all of them.
Faulty == faults < MaxFaults /\ faults' = faults + 1 /\ UNCHANGED <<bucket, rows, files, task, requests>>
Lose(m) == Faulty /\ inbox' = inbox \ {m} /\ UNCHANGED workers
TimeOut(w) ==
  Faulty /\ workers[w].at # "idle" /\ workers' = [workers EXCEPT ![w] = Resting] /\ UNCHANGED inbox
Restart == Faulty /\ inbox' = {} /\ workers' = [w \in Topics |-> Resting]

Step(w) ==
  \/ Take(w) \/ Finish(w)
  \/ \E v \in Videos :
       \/ w = "add" /\ Create(v)
       \/ Load(w, v) \/ Download(w, v) \/ Store(w, v) \/ Unlink(w, v) \/ Save(w, v)
       \/ Count(w, v) \/ Mark(w, v) \/ Record(w, v)
Next ==
  \/ RunTask \/ Restart
  \/ \E v \in Videos : AddVideo(v) \/ RetryVideo(v) \/ DeleteVideo(v) \/ GrowsOld(v)
  \/ \E m \in inbox : Lose(m)
  \/ \E w \in Topics : Step(w) \/ TimeOut(w)

-----------------------------------------------------------------------------
\* A video that is offered has its file where the viewer fetches it: in the bucket, or on disk.
AvailableStored ==
  \A v \in Videos :
    Present(v) /\ rows[v].availability = "available"
      => (IF bucket THEN UploadKey ELSE "disk") \in files[v]

\* The three handlers count before they record, so each may add one attempt too many at most.
AttemptsBounded == \A v \in Videos : rows[v].attempts < MaxAttempts + Cardinality(Topics)

\* Whatever is lost on the way, a video does not stay in between for ever: it becomes available
\* or is given up.
VideosSettle == \A v \in Videos : v \in Wanting ~> v \notin Wanting
\* The task of the retry job never stays "running" for ever, not even when its message was lost
\* or its handler died.
TaskReleased == task = "running" ~> task = "pending"
=============================================================================

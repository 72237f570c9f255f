---------------------------- MODULE ServicesProofs ----------------------------
(***************************************************************************)
(* What MCServices guarantees for every set of videos and administrators    *)
(* and every bound.                                                        *)
(***************************************************************************)
EXTENDS MCServices, FiniteSetTheorems, TLAPS

-----------------------------------------------------------------------------
(* Downloads *)

Topics == {"add", "job", "manual"}
VideoRow == [state : {"none", "present", "removed"},
             availability : {"processing", "available", "has_error"},
             attempts : Nat, young : BOOLEAN]
\* A handler works on one video at a time, which it took from its list.
Worker == [at : {"idle", "next", "download", "store", "unlink", "save", "count", "mark", "record"},
           video : SUBSET Videos, todo : SUBSET Videos]

DownloadsTypeOK ==
  /\ bucket \in BOOLEAN
  /\ rows \in [Videos -> VideoRow]
  /\ files \in [Videos -> SUBSET {"disk", "videos/"}]
  /\ inbox \in SUBSET [topic : Topics, vids : SUBSET Videos]
  /\ workers \in [Topics -> Worker]
  /\ \A w \in Topics : \A u, v \in workers[w].video : u = v

\* Before the first task nothing is stored and every handler rests.
LEMMA DownloadsTypeInit == Init => DownloadsTypeOK
  <1> SUFFICES ASSUME Init PROVE DownloadsTypeOK
    OBVIOUS
  <1> USE DEF Init, Downloads!Init, Downloads!NoRow, Downloads!Resting, Downloads!Topics, Topics
  <1>1. rows \in [Videos -> VideoRow]
    BY DEF VideoRow
  <1>2. workers \in [Topics -> Worker] /\ \A w \in Topics : workers[w].video = {}
    BY DEF Worker
  <1>3. QED
    BY <1>1, <1>2 DEF DownloadsTypeOK

\* No step of a handler, of the database or of a fault leaves the domains.
LEMMA DownloadsTypeStep ==
    ASSUME DownloadsTypeOK, [Next]_vars
    PROVE  DownloadsTypeOK'
  <1> USE DEF Downloads!Topics, Topics, Downloads!handler, Downloads!Keeps
  <1>1. ASSUME UNCHANGED downloadVars PROVE DownloadsTypeOK'
    BY <1>1 DEF DownloadsTypeOK, downloadVars
  <1>2. ASSUME Downloads!RunTask PROVE DownloadsTypeOK'
    BY <1>2 DEF DownloadsTypeOK, Downloads!RunTask, Downloads!Publish, Downloads!Message
  <1>3. ASSUME NEW v \in Videos, Downloads!AddVideo(v) \/ Downloads!RetryVideo(v)
        PROVE  DownloadsTypeOK'
    BY <1>3
       DEF DownloadsTypeOK, Downloads!AddVideo, Downloads!RetryVideo, Downloads!Publish,
           Downloads!Message, Downloads!Asks
  <1>4. ASSUME NEW v \in Videos, Downloads!DeleteVideo(v) \/ Downloads!GrowsOld(v)
        PROVE  DownloadsTypeOK'
    <2>1. rows' \in [Videos -> VideoRow]
      <3>1. CASE Downloads!DeleteVideo(v)
        BY <3>1 DEF DownloadsTypeOK, VideoRow, Downloads!DeleteVideo
      <3>2. CASE Downloads!GrowsOld(v)
        <4>1. rows' = [rows EXCEPT ![v].young = FALSE]
          BY <3>2 DEF Downloads!GrowsOld
        <4>2. rows \in [Videos -> VideoRow]
          BY DEF DownloadsTypeOK
        <4>3. [rows[v] EXCEPT !.young = FALSE] \in VideoRow
          BY <4>2 DEF VideoRow
        <4>4. QED
          BY <4>1, <4>2, <4>3
      <3>3. QED
        BY <1>4, <3>1, <3>2
    <2>2. UNCHANGED <<bucket, files, inbox, workers>>
      BY <1>4 DEF Downloads!DeleteVideo, Downloads!GrowsOld
    <2>3. QED
      BY <2>1, <2>2 DEF DownloadsTypeOK
  <1>5. ASSUME Downloads!Restart PROVE DownloadsTypeOK'
    BY <1>5 DEF DownloadsTypeOK, Worker, Downloads!Restart, Downloads!Faulty, Downloads!Resting
  <1>6. ASSUME NEW m \in inbox, Downloads!Lose(m) PROVE DownloadsTypeOK'
    BY <1>6 DEF DownloadsTypeOK, Downloads!Lose, Downloads!Faulty
  <1>7. ASSUME NEW w \in Topics, Downloads!TimeOut(w) PROVE DownloadsTypeOK'
    BY <1>7 DEF DownloadsTypeOK, Worker, Downloads!TimeOut, Downloads!Faulty, Downloads!Resting
  <1>8. ASSUME NEW w \in Topics, Downloads!Take(w) PROVE DownloadsTypeOK'
    BY <1>8 DEF DownloadsTypeOK, Worker, Downloads!Take, Downloads!Wanting
  <1>9. ASSUME NEW w \in Topics, Downloads!Finish(w) PROVE DownloadsTypeOK'
    BY <1>9 DEF DownloadsTypeOK, Worker, Downloads!Finish, Downloads!Resting
  <1>10. ASSUME NEW v \in Videos, Downloads!Create(v) PROVE DownloadsTypeOK'
    BY <1>10 DEF DownloadsTypeOK, Worker, VideoRow, Downloads!Create, Downloads!NoRow
  <1>11. ASSUME NEW w \in Topics, NEW v \in Videos, Downloads!Load(w, v) PROVE DownloadsTypeOK'
    <2>1. UNCHANGED <<bucket, rows, files, inbox>>
      BY <1>11 DEF Downloads!Load
    <2>2. /\ workers' \in [Topics -> Worker]
          /\ \A t \in Topics : workers'[t].video \in {workers[t].video, {v}}
      BY <1>11, SMTT(60) DEF DownloadsTypeOK, Worker, Downloads!Load
    <2>3. QED
      BY <2>1, <2>2 DEF DownloadsTypeOK
  <1>12. ASSUME NEW w \in Topics, NEW v \in Videos, Downloads!Download(w, v)
         PROVE  DownloadsTypeOK'
    BY <1>12
       DEF DownloadsTypeOK, Worker, Downloads!Download, Downloads!Fails, Downloads!Goes,
           Downloads!NextVideo
  <1>13. ASSUME NEW w \in Topics, NEW v \in Videos, Downloads!Store(w, v) \/ Downloads!Unlink(w, v)
         PROVE  DownloadsTypeOK'
    BY <1>13
       DEF DownloadsTypeOK, Worker, Downloads!Store, Downloads!Unlink, Downloads!Fails,
           Downloads!Goes, Downloads!NextVideo, Downloads!UploadKey
  <1>14. ASSUME NEW w \in Topics, NEW v \in Videos, Downloads!Save(w, v) \/ Downloads!Mark(w, v)
         PROVE  DownloadsTypeOK'
    BY <1>14, SMTT(60)
       DEF DownloadsTypeOK, Worker, VideoRow, Downloads!Save, Downloads!Mark, Downloads!Saved,
           Downloads!Goes, Downloads!NextVideo
  <1>15. ASSUME NEW w \in Topics, NEW v \in Videos, Downloads!Count(w, v) \/ Downloads!Record(w, v)
         PROVE  DownloadsTypeOK'
    BY <1>15, SMTT(60)
       DEF DownloadsTypeOK, Worker, VideoRow, Downloads!Count, Downloads!Record, Downloads!Goes,
           Downloads!NextVideo
  <1>16. QED
    BY <1>1, <1>2, <1>3, <1>4, <1>5, <1>6, <1>7, <1>8, <1>9, <1>10, <1>11, <1>12, <1>13, <1>14,
       <1>15
       DEF Next, vars, Downloads!Next, Downloads!Step

\* The rows, files, messages and handlers of the downloads stay in their domains, for all videos
\* and bounds (video_dl.go).
THEOREM DownloadsTyped == Spec => []DownloadsTypeOK
  <1>1. Init => DownloadsTypeOK
    BY DownloadsTypeInit
  <1>2. DownloadsTypeOK /\ [Next]_vars => DownloadsTypeOK'
    BY DownloadsTypeStep
  <1>3. QED
    BY <1>1, <1>2, PTL DEF Spec

\* The file of a video is where the viewer fetches it.
Kept(v) == (IF bucket THEN "videos/" ELSE "disk") \in files[v]
\* A handler that is about to save has seen the file there; between the upload and the removal of
\* the local copy the file is in the bucket.
StoredInv ==
  /\ \A v \in Videos : rows[v].availability = "available" => Kept(v)
  /\ \A w \in Topics : \A v \in workers[w].video :
       /\ workers[w].at \in {"store", "unlink"} => bucket
       /\ workers[w].at = "unlink" => "videos/" \in files[v]
       /\ workers[w].at = "save" => Kept(v)

\* No handler removes the file another one has just seen, and none saves without seeing it.
LEMMA StoredStep ==
    ASSUME DownloadsTypeOK, StoredInv, [Next]_vars
    PROVE  StoredInv'
  <1> USE DEF Downloads!Topics, Topics, Downloads!handler, Downloads!Keeps
  <1>1. ASSUME UNCHANGED downloadVars PROVE StoredInv'
    BY <1>1 DEF StoredInv, Kept, downloadVars
  <1>2. ASSUME Downloads!RunTask PROVE StoredInv'
    BY <1>2 DEF StoredInv, Kept, Downloads!RunTask
  <1>3. ASSUME NEW v \in Videos, Downloads!AddVideo(v) \/ Downloads!RetryVideo(v) PROVE StoredInv'
    BY <1>3 DEF StoredInv, Kept, Downloads!AddVideo, Downloads!RetryVideo
  <1>4. ASSUME NEW v \in Videos, Downloads!DeleteVideo(v) \/ Downloads!GrowsOld(v)
        PROVE  StoredInv'
    <2>1. \A u \in Videos : rows'[u].availability = rows[u].availability
      BY <1>4 DEF DownloadsTypeOK, VideoRow, Downloads!DeleteVideo, Downloads!GrowsOld
    <2>2. UNCHANGED <<bucket, files, workers>>
      BY <1>4 DEF Downloads!DeleteVideo, Downloads!GrowsOld
    <2>3. QED
      BY <2>1, <2>2 DEF StoredInv, Kept
  <1>5. ASSUME Downloads!Restart PROVE StoredInv'
    BY <1>5 DEF StoredInv, Kept, Downloads!Restart, Downloads!Faulty, Downloads!Resting
  <1>6. ASSUME NEW m \in inbox, Downloads!Lose(m) PROVE StoredInv'
    BY <1>6 DEF StoredInv, Kept, Downloads!Lose, Downloads!Faulty
  <1>7. ASSUME NEW w \in Topics, Downloads!TimeOut(w) PROVE StoredInv'
    BY <1>7
       DEF DownloadsTypeOK, Worker, StoredInv, Kept, Downloads!TimeOut, Downloads!Faulty,
           Downloads!Resting
  <1>8. ASSUME NEW w \in Topics, Downloads!Take(w) PROVE StoredInv'
    BY <1>8 DEF DownloadsTypeOK, Worker, StoredInv, Kept, Downloads!Take
  <1>9. ASSUME NEW w \in Topics, Downloads!Finish(w) PROVE StoredInv'
    BY <1>9 DEF DownloadsTypeOK, Worker, StoredInv, Kept, Downloads!Finish, Downloads!Resting
  <1>10. ASSUME NEW v \in Videos, Downloads!Create(v) PROVE StoredInv'
    BY <1>10
       DEF DownloadsTypeOK, Worker, VideoRow, StoredInv, Kept, Downloads!Create, Downloads!NoRow
  <1>11. ASSUME NEW w \in Topics, NEW v \in Videos, Downloads!Load(w, v) PROVE StoredInv'
    BY <1>11 DEF DownloadsTypeOK, Worker, StoredInv, Kept, Downloads!Load
  <1>12. ASSUME NEW w \in Topics, NEW v \in Videos, Downloads!Download(w, v) PROVE StoredInv'
    BY <1>12
       DEF DownloadsTypeOK, Worker, StoredInv, Kept, Downloads!Download, Downloads!Fails,
           Downloads!Goes, Downloads!NextVideo
  <1>13. ASSUME NEW w \in Topics, NEW v \in Videos, Downloads!Store(w, v) PROVE StoredInv'
    BY <1>13
       DEF DownloadsTypeOK, Worker, StoredInv, Kept, Downloads!Store, Downloads!Fails,
           Downloads!Goes, Downloads!NextVideo, Downloads!UploadKey
  <1>14. ASSUME NEW w \in Topics, NEW v \in Videos, Downloads!Unlink(w, v) PROVE StoredInv'
    BY <1>14
       DEF DownloadsTypeOK, Worker, StoredInv, Kept, Downloads!Unlink, Downloads!Fails,
           Downloads!Goes, Downloads!NextVideo
  <1>15. ASSUME NEW w \in Topics, NEW v \in Videos, Downloads!Save(w, v) \/ Downloads!Mark(w, v)
         PROVE  StoredInv'
    <2>1. CASE Downloads!Save(w, v)
      BY <2>1
         DEF DownloadsTypeOK, Worker, VideoRow, StoredInv, Kept, Downloads!Save, Downloads!Saved,
             Downloads!NextVideo
    <2>2. CASE Downloads!Mark(w, v)
      BY <2>2
         DEF DownloadsTypeOK, Worker, VideoRow, StoredInv, Kept, Downloads!Mark, Downloads!Saved,
             Downloads!Goes
    <2>3. QED
      BY <1>15, <2>1, <2>2
  <1>16. ASSUME NEW w \in Topics, NEW v \in Videos, Downloads!Count(w, v) \/ Downloads!Record(w, v)
         PROVE  StoredInv'
    <2>1. \A u \in Videos : rows'[u].availability = rows[u].availability
      BY <1>16 DEF DownloadsTypeOK, VideoRow, Downloads!Count, Downloads!Record
    <2>2. UNCHANGED <<bucket, files>>
      BY <1>16 DEF Downloads!Count, Downloads!Record
    <2>3. \A t \in Topics : workers'[t].at \in {"next", "mark"} \/ workers'[t] = workers[t]
      BY <1>16
         DEF DownloadsTypeOK, Worker, Downloads!Count, Downloads!Record, Downloads!Goes,
             Downloads!NextVideo
    <2>4. QED
      BY <2>1, <2>2, <2>3 DEF StoredInv, Kept
  <1>17. QED
    BY <1>1, <1>2, <1>3, <1>4, <1>5, <1>6, <1>7, <1>8, <1>9, <1>10, <1>11, <1>12, <1>13, <1>14,
       <1>15, <1>16
       DEF Next, vars, Downloads!Next, Downloads!Step

\* A video that is offered has its file where the viewer fetches it, for every number of videos,
\* messages and faults, and however the three handlers that write its row and its file
\* interleave (downloadVideo, video_dl.go).
THEOREM AvailableStoredHolds == Spec => []AvailableStored
  <1>1. Init => StoredInv
    BY DEF Init, Downloads!Init, Downloads!NoRow, Downloads!Resting, Downloads!Topics, Topics,
       StoredInv
  <1>2. DownloadsTypeOK /\ StoredInv /\ [Next]_vars => StoredInv'
    BY StoredStep
  <1>3. StoredInv => AvailableStored
    BY DEF StoredInv, Kept, AvailableStored, Downloads!AvailableStored, Downloads!UploadKey
  <1>4. QED
    BY <1>1, <1>2, <1>3, DownloadsTyped, PTL DEF Spec

\* The handlers that have counted a video's attempts and not yet recorded one more.
Recording(v) == {w \in Topics : workers[w].at \in {"mark", "record"} /\ v \in workers[w].video}
AttemptsInv ==
  \A v \in Videos : rows[v].attempts + Cardinality(Recording(v)) < MaxAttempts + Cardinality(Topics)

\* The middleware subscribes three handlers.
LEMMA TopicsCounted == IsFiniteSet(Topics) /\ Cardinality(Topics) = 3
  <1>1. IsFiniteSet({}) /\ Cardinality({}) = 0
    BY FS_EmptySet
  <1>2. IsFiniteSet({"add"}) /\ Cardinality({"add"}) = 1
    BY FS_Singleton
  <1>3. IsFiniteSet({"add"} \cup {"job"}) /\ Cardinality({"add"} \cup {"job"}) = 2
    BY <1>2, FS_AddElement
  <1>4. /\ IsFiniteSet({"add"} \cup {"job"} \cup {"manual"})
        /\ Cardinality({"add"} \cup {"job"} \cup {"manual"}) = 3
    BY <1>3, FS_AddElement
  <1>5. QED
    BY <1>4 DEF Topics

\* The handlers between counting and recording are at most all of them, also after a step.
LEMMA RecordingCounted ==
    ASSUME NEW S \in SUBSET Topics
    PROVE  IsFiniteSet(S) /\ Cardinality(S) \in Nat /\ Cardinality(S) <= Cardinality(Topics)
  BY TopicsCounted, FS_Subset, FS_CardinalityType

\* A step after which a video has no more attempts, and no more handlers that record one.
LEMMA NoMoreAttempts ==
    ASSUME DownloadsTypeOK, DownloadsTypeOK', AttemptsInv, NEW v \in Videos,
           rows'[v].attempts <= rows[v].attempts, Recording(v)' \subseteq Recording(v)
    PROVE  rows'[v].attempts + Cardinality(Recording(v)') < MaxAttempts + Cardinality(Topics)
  <1>1. Recording(v) \in SUBSET Topics /\ Recording(v)' \in SUBSET Topics
    BY DEF Recording
  <1>2. /\ IsFiniteSet(Recording(v))
        /\ Cardinality(Recording(v)) \in Nat
        /\ Cardinality(Recording(v)') \in Nat
    BY <1>1, RecordingCounted
  <1>3. Cardinality(Recording(v)') <= Cardinality(Recording(v))
    BY <1>2, FS_Subset
  <1>4. rows[v].attempts \in Nat /\ rows'[v].attempts \in Nat
    BY DEF DownloadsTypeOK, VideoRow
  <1>5. rows[v].attempts + Cardinality(Recording(v)) < MaxAttempts + Cardinality(Topics)
    BY DEF AttemptsInv
  <1>6. QED
    BY <1>2, <1>3, <1>4, <1>5, TopicsCounted, ServicesAssumption DEF Downloads!DownloadsAssumption

\* An attempt is recorded by a handler that was counted already; only counting admits one more.
LEMMA AttemptsStep ==
    ASSUME DownloadsTypeOK, DownloadsTypeOK', AttemptsInv, [Next]_vars
    PROVE  AttemptsInv'
  <1> DEFINE NoMore == \A u \in Videos : rows'[u].attempts <= rows[u].attempts /\ Recording(u)' \subseteq Recording(u)
  <1> USE DEF Downloads!Topics, Topics, Downloads!handler, Downloads!Keeps
  <1>0. \A u \in Videos : rows[u].attempts \in Nat
    BY DEF DownloadsTypeOK, VideoRow
  <1>1. ASSUME NoMore PROVE AttemptsInv'
    <2>1. \A u \in Videos : rows'[u].attempts + Cardinality(Recording(u)') < MaxAttempts + Cardinality(Topics)
      BY <1>1, NoMoreAttempts
    <2>2. QED
      BY <2>1 DEF AttemptsInv
  <1>2. ASSUME UNCHANGED <<rows, workers>> PROVE NoMore
    BY <1>2, <1>0 DEF Recording
  <1>3. ASSUME NEW v \in Videos, Downloads!DeleteVideo(v) PROVE NoMore
    BY <1>3, <1>0 DEF DownloadsTypeOK, VideoRow, Recording, Downloads!DeleteVideo
  <1>4. ASSUME NEW v \in Videos, Downloads!GrowsOld(v) PROVE NoMore
    BY <1>4, <1>0 DEF DownloadsTypeOK, VideoRow, Recording, Downloads!GrowsOld
  <1>5. ASSUME Downloads!Restart PROVE NoMore
    BY <1>5, <1>0 DEF Recording, Downloads!Restart, Downloads!Faulty, Downloads!Resting
  <1>6. ASSUME NEW w \in Topics, Downloads!TimeOut(w) \/ Downloads!Take(w) \/ Downloads!Finish(w)
        PROVE  NoMore
    <2>1. UNCHANGED rows
      BY <1>6 DEF Downloads!TimeOut, Downloads!Faulty, Downloads!Take, Downloads!Finish
    <2>2. \A t \in Topics : workers'[t].at \in {"idle", "next"} \/ workers'[t] = workers[t]
      BY <1>6
         DEF DownloadsTypeOK, Worker, Downloads!TimeOut, Downloads!Take, Downloads!Finish,
             Downloads!Resting
    <2>3. QED
      BY <1>0, <2>1, <2>2 DEF Recording
  <1>7. ASSUME NEW v \in Videos, Downloads!Create(v) PROVE NoMore
    BY <1>7, <1>0
       DEF DownloadsTypeOK, Worker, VideoRow, Recording, Downloads!Create, Downloads!NoRow
  <1>8. ASSUME NEW w \in Topics, NEW v \in Videos,
               Downloads!Load(w, v) \/ Downloads!Download(w, v)
               \/ Downloads!Store(w, v) \/ Downloads!Unlink(w, v)
        PROVE  NoMore
    <2>1. UNCHANGED rows
      BY <1>8 DEF Downloads!Load, Downloads!Download, Downloads!Store, Downloads!Unlink
    <2>2. \A t \in Topics : workers'[t].at \in {"next", "download", "count", "store", "unlink", "save"}
                             \/ workers'[t] = workers[t]
      BY <1>8
         DEF DownloadsTypeOK, Worker, Downloads!Load, Downloads!Download, Downloads!Store,
             Downloads!Unlink, Downloads!Fails, Downloads!Goes, Downloads!NextVideo
    <2>3. QED
      BY <1>0, <2>1, <2>2 DEF Recording
  <1>9. ASSUME NEW w \in Topics, NEW v \in Videos, Downloads!Save(w, v) PROVE NoMore
    BY <1>9, <1>0
       DEF DownloadsTypeOK, Worker, VideoRow, Recording, Downloads!Save, Downloads!Saved,
           Downloads!NextVideo
  <1>10. ASSUME NEW w \in Topics, NEW v \in Videos, Downloads!Mark(w, v) PROVE NoMore
    <2>1. \A u \in Videos : rows'[u].attempts = rows[u].attempts
      BY <1>10 DEF DownloadsTypeOK, VideoRow, Downloads!Mark, Downloads!Saved
    <2>2. workers[w].at = "mark" /\ workers' = [workers EXCEPT ![w].at = "record"]
      BY <1>10 DEF Downloads!Mark, Downloads!Goes
    <2>3. \A t \in Topics : workers'[t].video = workers[t].video /\ (t # w => workers'[t].at = workers[t].at)
      BY <2>2 DEF DownloadsTypeOK, Worker
    <2>4. QED
      BY <1>0, <2>1, <2>2, <2>3 DEF Recording
  \* Whoever counts finds fewer attempts than are allowed; no more handlers than there are can
  \* be about to add one.
  <1>11. ASSUME NEW w \in Topics, NEW v \in Videos, Downloads!Count(w, v) PROVE AttemptsInv'
    <2>1. CASE rows[v].attempts >= MaxAttempts
      <3>1. NoMore
        BY <1>11, <1>0, <2>1
           DEF DownloadsTypeOK, Worker, VideoRow, Recording, Downloads!Count, Downloads!NextVideo
      <3>2. QED
        BY <1>1, <3>1
    <2>2. CASE ~(rows[v].attempts >= MaxAttempts)
      <3>1. UNCHANGED rows /\ workers' = [workers EXCEPT ![w].at = "mark"]
        BY <1>11, <2>2 DEF Downloads!Count, Downloads!Goes
      <3>2. ASSUME NEW u \in Videos
            PROVE  rows'[u].attempts + Cardinality(Recording(u)') < MaxAttempts + Cardinality(Topics)
        <4>1. CASE u = v
          <5>1. Recording(u)' \in SUBSET Topics
            BY DEF Recording
          <5>2. /\ Cardinality(Recording(u)') \in Nat
                /\ Cardinality(Recording(u)') <= Cardinality(Topics)
            BY <5>1, RecordingCounted
          <5>3. rows'[u].attempts \in Nat /\ rows'[u].attempts < MaxAttempts
            BY <1>0, <2>2, <3>1, <4>1, ServicesAssumption DEF Downloads!DownloadsAssumption
          <5>4. QED
            BY <5>2, <5>3, TopicsCounted, ServicesAssumption DEF Downloads!DownloadsAssumption
        <4>2. CASE u # v
          <5>1. \A t \in Topics : workers'[t].video = workers[t].video /\ (t # w => workers'[t].at = workers[t].at)
            BY <3>1 DEF DownloadsTypeOK, Worker
          <5>2. u \notin workers[w].video
            BY <1>11, <4>2 DEF DownloadsTypeOK, Downloads!Count
          <5>3. Recording(u)' \subseteq Recording(u)
            BY <5>1, <5>2 DEF Recording
          <5>4. rows'[u].attempts <= rows[u].attempts
            BY <1>0, <3>1
          <5>5. QED
            BY <5>3, <5>4, NoMoreAttempts
        <4>3. QED
          BY <4>1, <4>2
      <3>3. QED
        BY <3>2 DEF AttemptsInv
    <2>3. QED
      BY <2>1, <2>2
  \* An attempt is recorded by a handler that is through with the video then.
  <1>12. ASSUME NEW w \in Topics, NEW v \in Videos, Downloads!Record(w, v) PROVE AttemptsInv'
    <2>1. /\ rows' = [rows EXCEPT ![v].attempts = @ + 1]
          /\ workers' = [workers EXCEPT ![w].at = "next", ![w].video = {}]
          /\ w \in Recording(v)
      BY <1>12 DEF Downloads!Record, Downloads!NextVideo, Recording
    <2>2. \A t \in Topics \ {w} : workers'[t] = workers[t]
      BY <2>1 DEF DownloadsTypeOK, Worker
    <2>3. workers'[w].at = "next"
      BY <2>1 DEF DownloadsTypeOK, Worker
    <2>4. \A u \in Videos : Recording(u)' = Recording(u) \ {w}
      BY <2>2, <2>3 DEF Recording
    <2>5. ASSUME NEW u \in Videos
          PROVE  rows'[u].attempts + Cardinality(Recording(u)') < MaxAttempts + Cardinality(Topics)
      <3>1. CASE u = v
        <4>1. Recording(u) \in SUBSET Topics
          BY DEF Recording
        <4>2. IsFiniteSet(Recording(u)) /\ Cardinality(Recording(u)) \in Nat
          BY <4>1, RecordingCounted
        <4>3. Cardinality(Recording(u)') = Cardinality(Recording(u)) - 1
          BY <2>1, <2>4, <3>1, <4>2, FS_RemoveElement
        <4>4. rows'[u].attempts = rows[u].attempts + 1
          BY <2>1, <3>1 DEF DownloadsTypeOK, VideoRow
        <4>5. rows[u].attempts + Cardinality(Recording(u)) < MaxAttempts + Cardinality(Topics)
          BY DEF AttemptsInv
        <4>6. QED
          BY <1>0, <4>2, <4>3, <4>4, <4>5, TopicsCounted, ServicesAssumption
             DEF Downloads!DownloadsAssumption
      <3>2. CASE u # v
        <4>1. rows'[u].attempts <= rows[u].attempts
          BY <1>0, <2>1, <3>2 DEF DownloadsTypeOK, VideoRow
        <4>2. QED
          BY <2>4, <4>1, NoMoreAttempts
      <3>3. QED
        BY <3>1, <3>2
    <2>6. QED
      BY <2>5 DEF AttemptsInv
  <1>13. ASSUME NEW v \in Videos, Downloads!AddVideo(v) \/ Downloads!RetryVideo(v)
         PROVE  AttemptsInv'
    <2>1. UNCHANGED <<rows, workers>>
      BY <1>13 DEF Downloads!AddVideo, Downloads!RetryVideo
    <2>2. QED
      BY <1>1, <1>2, <2>1
  <1>14. ASSUME NEW m \in inbox, Downloads!Lose(m) PROVE AttemptsInv'
    <2>1. UNCHANGED <<rows, workers>>
      BY <1>14 DEF Downloads!Lose, Downloads!Faulty
    <2>2. QED
      BY <1>1, <1>2, <2>1
  <1>15. ASSUME UNCHANGED downloadVars \/ Downloads!RunTask PROVE AttemptsInv'
    <2>1. UNCHANGED <<rows, workers>>
      BY <1>15 DEF downloadVars, Downloads!RunTask
    <2>2. QED
      BY <1>1, <1>2, <2>1
  <1> HIDE DEF NoMore
  <1>16. QED
    BY <1>1, <1>3, <1>4, <1>5, <1>6, <1>7, <1>8, <1>9, <1>10, <1>11, <1>12, <1>13, <1>14, <1>15
       DEF Next, vars, Downloads!Next, Downloads!Step

\* Whatever number of videos is retried by the job and by hand at once, each has fewer attempts
\* than the limit and the handlers together: the number is read before it is written, so that
\* each handler may add one too many (incrementFailedAttempt, video_dl.go).
THEOREM AttemptsBoundedHolds == Spec => []AttemptsBounded
  <1>1. Init => AttemptsInv
    <2> SUFFICES ASSUME Init, NEW v \in Videos
                 PROVE  rows[v].attempts + Cardinality(Recording(v)) < MaxAttempts + Cardinality(Topics)
      BY DEF AttemptsInv
    <2>1. Recording(v) = {} /\ rows[v].attempts = 0
      BY DEF Init, Downloads!Init, Downloads!NoRow, Downloads!Resting, Downloads!Topics, Topics,
         Recording
    <2>2. QED
      BY <2>1, FS_EmptySet, TopicsCounted, ServicesAssumption DEF Downloads!DownloadsAssumption
  <1>2. DownloadsTypeOK /\ DownloadsTypeOK' /\ AttemptsInv /\ [Next]_vars => AttemptsInv'
    BY AttemptsStep
  <1>3. DownloadsTypeOK /\ AttemptsInv => AttemptsBounded
    <2>1. Downloads!Topics = Topics
      BY DEF Downloads!Topics, Topics
    <2>2. ASSUME DownloadsTypeOK, AttemptsInv, NEW v \in Videos
          PROVE  rows[v].attempts < MaxAttempts + Cardinality(Topics)
      <3>1. Recording(v) \in SUBSET Topics
        BY DEF Recording
      <3>2. Cardinality(Recording(v)) \in Nat
        BY <3>1, RecordingCounted
      <3>3. /\ rows[v].attempts \in Nat
            /\ rows[v].attempts + Cardinality(Recording(v)) < MaxAttempts + Cardinality(Topics)
        BY <2>2 DEF DownloadsTypeOK, VideoRow, AttemptsInv
      <3>4. QED
        BY <3>2, <3>3, TopicsCounted, ServicesAssumption DEF Downloads!DownloadsAssumption
    <2>3. Downloads!Cardinality(Topics) = Cardinality(Topics)
      BY Zenon DEF Downloads!Cardinality, Cardinality
    <2>4. QED
      BY <2>1, <2>2, <2>3 DEF AttemptsBounded, Downloads!AttemptsBounded
  <1>4. QED
    BY <1>1, <1>2, <1>3, DownloadsTyped, PTL DEF Spec

-----------------------------------------------------------------------------
(* Accounts *)

AccountSteps == {"idle", "asked", "enrollments", "row", "identity", "put", "history", "commit",
                 "find", "create", "link", "remove", "drop"}
AccountRequest ==
  [at : AccountSteps,
   op : {"none", "transfer", "deactivate", "delete", "reset", "set", "edit", "undo"},
   from : Facilities \cup {None}, to : Facilities \cup {None}, read : Facilities \cup {None},
   row : Account!UserRow \cup {None}, ended : SUBSET Facilities,
   locks : SUBSET (Facilities \cup {"user"})]
AccountTypeOK ==
  /\ user \in Account!UserRow /\ identity \in Facilities \cup {None} /\ history \in Facilities
  /\ enrolled \in SUBSET Facilities /\ request \in [Admins -> AccountRequest] /\ half \in BOOLEAN
  /\ \A a \in Admins :
       /\ request[a].at # "idle" => request[a].to \in Facilities
       /\ request[a].at = "asked" => request[a].op \in Account!Kinds
       /\ request[a].op = "transfer" => request[a].from \in Facilities
       /\ request[a].at = "put" => request[a].read \in Facilities
       /\ request[a].at \in {"create", "link"} => request[a].row # None

Doing(a, op, steps) == request[a].op = op /\ request[a].at \in steps
\* Each kind of request goes through its own steps.
StepsOfKinds ==
  \A a \in Admins :
    \/ Doing(a, "none", {"idle"})
    \/ Doing(a, "transfer", {"asked", "enrollments", "row", "identity", "put", "history", "commit"})
    \/ Doing(a, "deactivate", {"asked", "row", "enrollments", "commit"})
    \/ Doing(a, "delete", {"asked", "remove", "drop"})
    \/ Doing(a, "reset", {"asked", "identity", "put", "find", "create", "link"})
    \/ Doing(a, "set", {"asked", "identity", "put"})
    \/ Doing(a, "edit", {"asked", "link"})
\* Requests overlap as Overlaps lets them: a transfer is not under way beside a request that writes
\* the identity as it was read, nor a reset beside one that moves or deletes the resident.
Apart ==
  \A a, b \in Admins :
    /\ request[a].op = "transfer" => request[b].op \in {"none", "transfer", "deactivate", "delete"}
    /\ request[a].op = "reset" => request[b].op \in {"none", "reset", "set", "edit", "deactivate"}
Holds(a) == "user" \in request[a].locks
\* Only the two transactions hold the resident's row, from its update to their end, one at a time.
RowHeld ==
  /\ \A a \in Admins : Holds(a) <=> \/ Doing(a, "transfer", {"identity", "put", "history", "commit"})
                                    \/ Doing(a, "deactivate", {"enrollments", "commit"})
  /\ \A a \in Admins : request[a].op \in {"none", "delete", "reset", "set", "edit"} => request[a].locks = {}
  /\ \A a, b \in Admins : Holds(a) /\ Holds(b) => a = b
\* What was read before a write still says where the resident is.
ReadsCurrent ==
  \A a \in Admins :
    /\ request[a].row # None => request[a].op \in {"reset", "edit"} /\ request[a].row.facility = user.facility
    /\ Doing(a, "reset", {"put"}) \/ Doing(a, "set", {"put"}) => request[a].read = user.facility
\* A reset that made the identity and has yet to link it.
Creating(a) == Doing(a, "reset", {"identity", "put", "link"}) /\ request[a].row # None
\* There is an identity for a linked resident, except while a deletion is between the two stores,
\* or a reset is.
IdentityFollows ==
  /\ \A a \in Admins :
       /\ Doing(a, "delete", {"drop"}) => identity = None
       /\ Doing(a, "reset", {"create"}) => user.there
       /\ Creating(a) => user.there /\ identity # None
  /\ identity # None => user.there /\ (user.linked \/ \E a \in Admins : Creating(a))
  /\ user.there /\ user.linked /\ identity = None => \E a \in Admins : Doing(a, "delete", {"drop"})
\* The identity and the history run ahead of the row only within one transfer.
FacilityFollows ==
  /\ \A a \in Admins :
       /\ Doing(a, "transfer", {"put", "history", "commit"}) => user.there
       /\ Doing(a, "transfer", {"history", "commit"}) => identity \in {None, request[a].to}
       /\ Doing(a, "transfer", {"commit"}) => history = request[a].to
  /\ (\A a \in Admins : ~Doing(a, "transfer", {"history", "commit"})) => identity \in {None, user.facility}
  /\ (\A a \in Admins : ~Doing(a, "transfer", {"commit"})) => history = user.facility
Agreed == StepsOfKinds /\ Apart /\ RowHeld /\ ReadsCurrent /\ IdentityFollows /\ FacilityFollows
AccountInv == ~half => Agreed

\* The user's row, the stores and the requests stay in their domains.
LEMMA AccountTypeStep ==
    ASSUME AccountTypeOK, [Next]_vars
    PROVE  AccountTypeOK'
  <1> USE ServicesAssumption DEF Account!AccountAssumption, Account!counters, Account!Idle
  <1>1. ASSUME UNCHANGED accountVars PROVE AccountTypeOK'
    BY <1>1 DEF AccountTypeOK, accountVars
  <1>2. ASSUME NEW a \in Admins, NEW op \in Account!Kinds, NEW f \in Facilities,
               Account!Ask(a, op, f)
        PROVE  AccountTypeOK'
    <2> DEFINE asked == [Account!Idle EXCEPT !.at = "asked", !.op = op, !.from = user.facility,
                                             !.to = f]
    <2>1. /\ request' = [request EXCEPT ![a] = asked]
          /\ UNCHANGED <<user, identity, enrolled, history, half>>
      BY <1>2 DEF Account!Ask
    <2>2. user.facility \in Facilities
      BY DEF AccountTypeOK, Account!UserRow
    <2>3. asked \in AccountRequest
      BY <2>2 DEF AccountRequest, AccountSteps, Account!Kinds
    <2>4. asked.at = "asked" /\ asked.op = op /\ asked.from = user.facility /\ asked.to = f
      OBVIOUS
    <2> HIDE DEF asked
    <2>5. /\ request \in [Admins -> AccountRequest]
          /\ request' \in [Admins -> AccountRequest] /\ request'[a] = asked
          /\ \A b \in Admins : b # a => request'[b] = request[b]
      BY <2>1, <2>3 DEF AccountTypeOK
    <2>6. op # "none" /\ op \in Account!Kinds
      BY DEF Account!Kinds
    <2>7. QED
      BY <2>1, <2>2, <2>4, <2>5, <2>6 DEF AccountTypeOK
  <1>3. ASSUME Account!Enroll PROVE AccountTypeOK'
    BY <1>3 DEF AccountTypeOK, Account!UserRow, Account!Enroll
  <1>4. ASSUME Account!Restart PROVE AccountTypeOK'
    BY <1>4 DEF AccountTypeOK, AccountRequest, AccountSteps, Account!Restart, Account!Mishap
  <1>5. ASSUME NEW a \in Admins, Account!Start(a) PROVE AccountTypeOK'
    <2>1. /\ UNCHANGED <<user, identity, enrolled, history, half>> /\ request[a].at = "asked"
          /\ \/ request' = [request EXCEPT ![a] = Account!Idle]
             \/ \E s \in AccountSteps \ {"asked", "put", "create"}, row \in {user, None} :
                   /\ s = "link" => row = user
                   /\ request' = [request EXCEPT ![a].at = s, ![a].row = row]
      <3>1. request[a].op \in Account!Kinds
        BY <1>5 DEF AccountTypeOK, Account!Start, Account!At
      <3>2. Account!First(request[a].op) \in AccountSteps \ {"asked", "put", "create"}
        BY <3>1 DEF Account!First, Account!Kinds, AccountSteps
      <3>3. Account!First(request[a].op) = "link" => request[a].op = "edit"
        BY <3>1 DEF Account!First, Account!Kinds
      <3>4. QED
        BY <1>5, <3>2, <3>3 DEF Account!Start, Account!Ends, Account!Op, Account!At
    <2>2. CASE request' = [request EXCEPT ![a] = Account!Idle]
      BY <2>1, <2>2 DEF AccountTypeOK, AccountRequest, AccountSteps
    <2>3. ASSUME NEW s \in AccountSteps \ {"asked", "put", "create"}, NEW row \in {user, None},
                 s = "link" => row = user, request' = [request EXCEPT ![a].at = s, ![a].row = row]
          PROVE  AccountTypeOK'
      <3>1. request[a] \in AccountRequest /\ row \in Account!UserRow \cup {None}
        BY DEF AccountTypeOK
      <3>2. /\ request'[a] = [request[a] EXCEPT !.at = s, !.row = row]
            /\ \A b \in Admins \ {a} : request'[b] = request[b]
        BY <2>3 DEF AccountTypeOK
      <3>3. /\ request'[a] \in AccountRequest /\ request'[a].at = s /\ request'[a].row = row
            /\ request'[a].op = request[a].op /\ request'[a].from = request[a].from
            /\ request'[a].to = request[a].to
        BY <3>1, <3>2, ZenonT(60) DEF AccountRequest, AccountSteps
      <3>4. request' = [b \in Admins |-> request'[b]]
        BY <2>3 DEF AccountTypeOK
      <3>5. request' \in [Admins -> AccountRequest] /\ request[a].to \in Facilities
        BY <2>1, <3>1, <3>2, <3>3, <3>4 DEF AccountTypeOK
      <3>6. /\ request[a].at # "idle"
            /\ s # "asked"
            /\ s # "put"
            /\ s # "create"
            /\ (s = "link" => row # None)
        BY <2>1, <2>3 DEF AccountTypeOK
      <3>7. UNCHANGED <<user, identity, enrolled, history, half>>
        BY <2>1
      <3>8. QED
        BY <3>2, <3>3, <3>5, <3>6, <3>7, ZenonT(60) DEF AccountTypeOK
    <2>4. QED
      BY <2>1, <2>2, <2>3
  <1>6. ASSUME NEW a \in Admins, Account!EndEnrollments(a) PROVE AccountTypeOK'
    <2>1. Account!Theirs(a) \in SUBSET Facilities
      BY DEF AccountTypeOK, Account!Theirs
    <2>2. PICK s \in {"row", "commit"} :
            /\ UNCHANGED <<user, identity, enrolled, history, half>> /\ request[a].at # "idle"
            /\ request' = [request EXCEPT ![a].at = s, ![a].ended = Account!Theirs(a),
                                          ![a].locks = @ \cup Account!Theirs(a)]
      BY <1>6 DEF Account!EndEnrollments, Account!At
    <2>3. /\ request[a] \in AccountRequest
          /\ request[a].locks \cup Account!Theirs(a) \in SUBSET (Facilities \cup {"user"})
      BY <2>1 DEF AccountTypeOK, AccountRequest
    <2>4. /\ request'[a] = [request[a] EXCEPT !.at = s, !.ended = Account!Theirs(a),
                                              !.locks = request[a].locks \cup Account!Theirs(a)]
          /\ \A b \in Admins \ {a} : request'[b] = request[b]
          /\ request' = [b \in Admins |-> request'[b]]
      BY <2>2 DEF AccountTypeOK
    <2>5. /\ request'[a] \in AccountRequest /\ request'[a].at = s
          /\ request'[a].op = request[a].op /\ request'[a].from = request[a].from
          /\ request'[a].to = request[a].to
      BY <2>1, <2>3, <2>4, ZenonT(60) DEF AccountRequest, AccountSteps
    <2>6. QED
      BY <2>2, <2>4, <2>5 DEF AccountTypeOK
  <1>7. ASSUME NEW a \in Admins, Account!TakeRow(a) PROVE AccountTypeOK'
    <2>1. PICK s \in {"identity", "enrollments"} :
            /\ UNCHANGED <<user, identity, enrolled, history, half>> /\ request[a].at # "idle"
            /\ request' = [request EXCEPT ![a].at = s, ![a].locks = @ \cup {"user"}]
      BY <1>7 DEF Account!TakeRow, Account!At
    <2>2. /\ request[a] \in AccountRequest
          /\ request[a].locks \cup {"user"} \in SUBSET (Facilities \cup {"user"})
      BY DEF AccountTypeOK, AccountRequest
    <2>3. /\ request'[a] = [request[a] EXCEPT !.at = s, !.locks = request[a].locks \cup {"user"}]
          /\ \A b \in Admins \ {a} : request'[b] = request[b]
          /\ request' = [b \in Admins |-> request'[b]]
      BY <2>1 DEF AccountTypeOK
    <2>4. /\ request'[a] \in AccountRequest /\ request'[a].at = s
          /\ request'[a].op = request[a].op /\ request'[a].from = request[a].from
          /\ request'[a].to = request[a].to
      BY <2>2, <2>3, ZenonT(60) DEF AccountRequest, AccountSteps
    <2>5. QED
      BY <2>1, <2>3, <2>4 DEF AccountTypeOK
  <1>8. ASSUME NEW a \in Admins, Account!ReadIdentity(a) PROVE AccountTypeOK'
    BY <1>8
       DEF AccountTypeOK, AccountRequest, AccountSteps, Account!UserRow, Account!ReadIdentity,
           Account!Goes, Account!Ends, Account!Op, Account!At
  <1>9. ASSUME NEW a \in Admins, Account!PutIdentity(a) PROVE AccountTypeOK'
    BY <1>9
       DEF AccountTypeOK, AccountRequest, AccountSteps, Account!UserRow, Account!PutIdentity,
           Account!Goes, Account!Ends, Account!Op, Account!At, Account!Written
  <1>10. ASSUME NEW a \in Admins, Account!AddHistory(a) PROVE AccountTypeOK'
    BY <1>10
       DEF AccountTypeOK, AccountRequest, AccountSteps, Account!UserRow, Account!AddHistory,
           Account!Goes, Account!At
  <1>11. ASSUME NEW a \in Admins, Account!Commit(a) PROVE AccountTypeOK'
    BY <1>11
       DEF AccountTypeOK, AccountRequest, AccountSteps, Account!UserRow, Account!Commit,
           Account!Ends, Account!Op, Account!At
  <1>12. ASSUME NEW a \in Admins, Account!FindUser(a) PROVE AccountTypeOK'
    BY <1>12
       DEF AccountTypeOK, AccountRequest, AccountSteps, Account!UserRow, Account!FindUser,
           Account!Ends, Account!At
  <1>13. ASSUME NEW a \in Admins, Account!CreateIdentity(a) PROVE AccountTypeOK'
    BY <1>13
       DEF AccountTypeOK, AccountRequest, AccountSteps, Account!UserRow, Account!CreateIdentity,
           Account!Goes, Account!Ends, Account!At
  <1>14. ASSUME NEW a \in Admins, Account!LinkUser(a) PROVE AccountTypeOK'
    BY <1>14
       DEF AccountTypeOK, AccountRequest, AccountSteps, Account!UserRow, Account!LinkUser,
           Account!Ends, Account!Op, Account!At
  <1>15. ASSUME NEW a \in Admins, Account!RemoveIdentity(a) PROVE AccountTypeOK'
    BY <1>15
       DEF AccountTypeOK, AccountRequest, AccountSteps, Account!UserRow, Account!RemoveIdentity,
           Account!Goes, Account!Ends, Account!At
  <1>16. ASSUME NEW a \in Admins, Account!DropUser(a) PROVE AccountTypeOK'
    BY <1>16
       DEF AccountTypeOK, AccountRequest, AccountSteps, Account!UserRow, Account!DropUser,
           Account!Ends, Account!At
  <1>17. ASSUME NEW a \in Admins, Account!Fails(a) PROVE AccountTypeOK'
    BY <1>17
       DEF AccountTypeOK, AccountRequest, AccountSteps, Account!UserRow, Account!Fails,
           Account!Ends, Account!Op, Account!At, Account!Mishap
  <1>18. ASSUME NEW a \in Admins, Account!AnswerLost(a) PROVE AccountTypeOK'
    BY <1>18
       DEF AccountTypeOK, AccountRequest, AccountSteps, Account!UserRow, Account!AnswerLost,
           Account!Ends, Account!Op, Account!At, Account!Mishap, Account!Written
  <1>19. ASSUME NEW a \in Admins, Account!CommitFails(a) PROVE AccountTypeOK'
    BY <1>19
       DEF AccountTypeOK, AccountRequest, AccountSteps, Account!UserRow, Account!CommitFails,
           Account!Op, Account!At, Account!Mishap
  <1>20. ASSUME NEW a \in Admins, Account!DeadlockEnds(a) PROVE AccountTypeOK'
    BY <1>20
       DEF AccountTypeOK, AccountRequest, AccountSteps, Account!UserRow, Account!DeadlockEnds,
           Account!Ends
  <1>21. QED
    BY <1>1, <1>2, <1>3, <1>4, <1>5, <1>6, <1>7, <1>8, <1>9, <1>10, <1>11, <1>12, <1>13, <1>14,
       <1>15, <1>16, <1>17, <1>18, <1>19, <1>20
       DEF Next, vars, Account!Next, Account!Advance

\* handleResidentTransfer, handleDeleteUser and the others up to their first write.
LEMMA StartKeeps ==
    ASSUME AccountTypeOK, AccountTypeOK', Agreed, NEW a \in Admins, Account!Start(a)
    PROVE  AccountInv'
  <1> USE DEF Agreed
  <1> USE ServicesAssumption DEF Account!AccountAssumption
  <1>1. /\ UNCHANGED <<user, identity, enrolled, history, half>>
        /\ \A b \in Admins \ {a} : request'[b] = request[b]
        /\ request[a].at = "asked"
        /\ \/ request'[a] = Account!Idle
           \/ /\ request'[a].op = request[a].op /\ request'[a].locks = request[a].locks
              /\ user.there \/ request[a].op = "deactivate"
              /\ \/ request[a].op = "transfer" /\ request'[a].at = "enrollments"
                    /\ request'[a].row = None
                 \/ request[a].op = "deactivate" /\ request'[a].at = "row"
                    /\ request'[a].row = None
                 \/ request[a].op = "delete"
                    /\ request'[a].at = (IF user.linked THEN "remove" ELSE "drop")
                    /\ request'[a].row = None
                 \/ request[a].op = "reset"
                    /\ request'[a].at = (IF user.linked THEN "identity" ELSE "find")
                    /\ request'[a].row = None
                 \/ request[a].op = "set" /\ request'[a].at = "identity" /\ request'[a].row = None
                 \/ request[a].op = "edit" /\ request'[a].at = "link" /\ request'[a].row = user
    <2>1. UNCHANGED <<user, identity, enrolled, history, half>>
      BY DEF Account!counters, Account!Start, Account!Goes, Account!Ends, Account!Op, Account!At,
         Account!First
    <2>2. \A b \in Admins \ {a} : request'[b] = request[b]
      BY DEF AccountTypeOK, AccountRequest, AccountSteps, Account!UserRow, Account!counters,
         Account!Start, Account!Goes, Account!Ends, Account!Op, Account!At, Account!First
    <2>3. request[a].at = "asked"
      BY DEF AccountTypeOK, AccountRequest, AccountSteps, Account!UserRow, Account!counters,
         Account!Start, Account!Goes, Account!Ends, Account!Op, Account!At, Account!First
    <2>4. \/ request'[a] = Account!Idle
          \/ /\ request'[a].op = request[a].op /\ request'[a].locks = request[a].locks
             /\ user.there \/ request[a].op = "deactivate"
             /\ \/ request[a].op = "transfer" /\ request'[a].at = "enrollments"
                   /\ request'[a].row = None
                \/ request[a].op = "deactivate" /\ request'[a].at = "row"
                   /\ request'[a].row = None
                \/ request[a].op = "delete"
                   /\ request'[a].at = (IF user.linked THEN "remove" ELSE "drop")
                   /\ request'[a].row = None
                \/ request[a].op = "reset"
                   /\ request'[a].at = (IF user.linked THEN "identity" ELSE "find")
                   /\ request'[a].row = None
                \/ request[a].op = "set" /\ request'[a].at = "identity" /\ request'[a].row = None
                \/ request[a].op = "edit" /\ request'[a].at = "link" /\ request'[a].row = user
      <3>1. request[a].op \in Account!Kinds
        BY DEF AccountTypeOK, Account!Start, Account!At
      <3>2. \/ request' = [request EXCEPT ![a] = Account!Idle]
            \/ /\ user.there \/ request[a].op = "deactivate"
               /\ request' = [request EXCEPT ![a].at = Account!First(request[a].op),
                                              ![a].row = IF request[a].op = "edit" THEN user ELSE None]
        BY DEF Account!Start, Account!Ends, Account!Op, Account!At
      <3>3. \/ request'[a] = Account!Idle
            \/ /\ user.there \/ request[a].op = "deactivate"
               /\ request'[a] = [request[a] EXCEPT !.at = Account!First(request[a].op),
                                                   !.row = IF request[a].op = "edit" THEN user ELSE None]
        BY <3>2 DEF AccountTypeOK
      <3>4. request[a] \in AccountRequest
        BY DEF AccountTypeOK
      <3>5. \/ request'[a] = Account!Idle
            \/ /\ user.there \/ request[a].op = "deactivate"
               /\ request'[a].op = request[a].op /\ request'[a].locks = request[a].locks
               /\ request'[a].at = Account!First(request[a].op)
               /\ request'[a].row = (IF request[a].op = "edit" THEN user ELSE None)
        <4>1. ASSUME request'[a] = [request[a] EXCEPT !.at = Account!First(request[a].op),
                                                     !.row = IF request[a].op = "edit" THEN user ELSE None]
              PROVE  /\ request'[a].op = request[a].op /\ request'[a].locks = request[a].locks
                     /\ request'[a].at = Account!First(request[a].op)
                     /\ request'[a].row = (IF request[a].op = "edit" THEN user ELSE None)
          BY <3>4, <4>1 DEF AccountRequest
        <4>2. QED
          BY <3>3, <4>1
      <3>6. QED
        BY <3>1, <3>5 DEF Account!First, Account!Kinds
    <2>5. QED
      BY <2>1, <2>2, <2>3, <2>4
  <1> USE DEF Account!Idle, Doing, Holds, Creating
  <1>2. StepsOfKinds'
    BY <1>1 DEF StepsOfKinds, AccountTypeOK
  <1>3. Apart'
    BY <1>1 DEF Apart, AccountTypeOK
  <1>4. RowHeld'
    BY <1>1 DEF RowHeld, StepsOfKinds, AccountTypeOK
  <1>5. ReadsCurrent'
    BY <1>1 DEF StepsOfKinds, Apart, ReadsCurrent, FacilityFollows, AccountTypeOK
  <1>6. IdentityFollows'
    BY <1>1 DEF StepsOfKinds, Apart, ReadsCurrent, IdentityFollows, RowHeld, AccountTypeOK
  <1>7. FacilityFollows'
    BY <1>1
       DEF StepsOfKinds, Apart, RowHeld, ReadsCurrent, IdentityFollows, FacilityFollows,
           AccountTypeOK
  <1>8. QED
    BY <1>2, <1>3, <1>4, <1>5, <1>6, <1>7 DEF AccountInv

\* TransferResident ends the enrollments and waits for their rows.
LEMMA EndEnrollmentsKeeps ==
    ASSUME AccountTypeOK, AccountTypeOK', Agreed, NEW a \in Admins, Account!EndEnrollments(a)
    PROVE  AccountInv'
  <1> USE DEF Agreed
  <1> USE ServicesAssumption DEF Account!AccountAssumption
  <1>1. /\ UNCHANGED <<user, identity, enrolled, history, half>>
        /\ \A b \in Admins \ {a} : request'[b] = request[b]
        /\ request[a].at = "enrollments" /\ "user" \notin Account!Theirs(a)
        /\ request'[a].op = request[a].op /\ request'[a].row = request[a].row
        /\ request'[a].to = request[a].to
        /\ request'[a].at = (IF request[a].op = "transfer" THEN "row" ELSE "commit")
        /\ ("user" \in request'[a].locks <=> "user" \in request[a].locks)
    <2>1. UNCHANGED <<user, identity, enrolled, history, half>>
      BY DEF Account!counters, Account!EndEnrollments, Account!Op, Account!At, Account!Theirs
    <2>2. \A b \in Admins \ {a} : request'[b] = request[b]
      BY SMTT(60) DEF AccountTypeOK, Account!EndEnrollments
    <2>3. request[a].at = "enrollments" /\ "user" \notin Account!Theirs(a)
      BY DEF AccountTypeOK, AccountRequest, AccountSteps, Account!UserRow, Account!counters,
         Account!EndEnrollments, Account!Op, Account!At, Account!Theirs
    <2>4. /\ request'[a].op = request[a].op
          /\ request'[a].row = request[a].row
          /\ request'[a].to = request[a].to
      <3>1. request[a] \in AccountRequest
        BY DEF AccountTypeOK
      <3>2. request'[a] = [request[a] EXCEPT !.at = (IF request[a].op = "transfer" THEN "row" ELSE "commit"),
                                             !.ended = Account!Theirs(a), !.locks = @ \cup Account!Theirs(a)]
        BY DEF AccountTypeOK, Account!EndEnrollments, Account!Op
      <3>3. QED
        BY <2>3, <3>1, <3>2 DEF AccountRequest, AccountSteps
    <2>5. request'[a].at = (IF request[a].op = "transfer" THEN "row" ELSE "commit")
      <3>1. request[a] \in AccountRequest
        BY DEF AccountTypeOK
      <3>2. request'[a] = [request[a] EXCEPT !.at = (IF request[a].op = "transfer" THEN "row" ELSE "commit"),
                                             !.ended = Account!Theirs(a), !.locks = @ \cup Account!Theirs(a)]
        BY DEF AccountTypeOK, Account!EndEnrollments, Account!Op
      <3>3. QED
        BY <2>3, <3>1, <3>2 DEF AccountRequest, AccountSteps
    <2>6. ("user" \in request'[a].locks <=> "user" \in request[a].locks)
      <3>1. request[a] \in AccountRequest
        BY DEF AccountTypeOK
      <3>2. request'[a] = [request[a] EXCEPT !.at = (IF request[a].op = "transfer" THEN "row" ELSE "commit"),
                                             !.ended = Account!Theirs(a), !.locks = @ \cup Account!Theirs(a)]
        BY DEF AccountTypeOK, Account!EndEnrollments, Account!Op
      <3>3. QED
        BY <2>3, <3>1, <3>2 DEF AccountRequest, AccountSteps
    <2>7. QED
      BY <2>1, <2>2, <2>3, <2>4, <2>5, <2>6
  <1> USE DEF Account!Idle, Doing, Holds, Creating
  <1>2. StepsOfKinds'
    BY <1>1 DEF StepsOfKinds, AccountTypeOK
  <1>3. Apart'
    BY <1>1 DEF Apart, AccountTypeOK
  <1>4. RowHeld'
    BY <1>1 DEF RowHeld, StepsOfKinds, AccountTypeOK
  <1>5. ReadsCurrent'
    BY <1>1 DEF StepsOfKinds, Apart, ReadsCurrent, FacilityFollows, AccountTypeOK
  <1>6. IdentityFollows'
    BY <1>1 DEF StepsOfKinds, Apart, ReadsCurrent, IdentityFollows, RowHeld, AccountTypeOK
  <1>7. FacilityFollows'
    BY <1>1
       DEF StepsOfKinds, Apart, RowHeld, ReadsCurrent, IdentityFollows, FacilityFollows,
           AccountTypeOK
  <1>8. QED
    BY <1>2, <1>3, <1>4, <1>5, <1>6, <1>7 DEF AccountInv

\* TransferResident updates the facility of the row and holds it until the commit.
LEMMA TakeRowKeeps ==
    ASSUME AccountTypeOK, AccountTypeOK', Agreed, NEW a \in Admins, Account!TakeRow(a)
    PROVE  AccountInv'
  <1>1. /\ UNCHANGED <<user, identity, enrolled, history, half>>
        /\ \A b \in Admins \ {a} : request'[b] = request[b]
        /\ request[a].at = "row"
        /\ request'[a].op = request[a].op /\ request'[a].row = request[a].row
        /\ request'[a].to = request[a].to
        /\ request'[a].at = (IF request[a].op = "transfer" THEN "identity" ELSE "enrollments")
        /\ "user" \in request'[a].locks
        /\ \A b \in Admins \ {a} : "user" \notin request[b].locks
    <2>1. /\ UNCHANGED <<user, identity, enrolled, history, half>>
          /\ request[a].at = "row" /\ \A b \in Admins \ {a} : "user" \notin request[b].locks
          /\ request' = [request EXCEPT
                           ![a].at = IF request[a].op = "transfer" THEN "identity"
                                     ELSE "enrollments",
                           ![a].locks = @ \cup {"user"}]
      BY DEF Account!TakeRow, Account!At, Account!Op, Account!Granted, Account!Needs,
         Account!Free, Account!counters
    <2>2. /\ \A b \in Admins \ {a} : request'[b] = request[b]
          /\ request'[a] = [request[a] EXCEPT
                              !.at = IF request[a].op = "transfer" THEN "identity"
                                     ELSE "enrollments",
                              !.locks = request[a].locks \cup {"user"}]
      BY <2>1 DEF AccountTypeOK
    <2>3. {"at", "locks", "op", "row", "to"} \subseteq DOMAIN request[a]
      BY DEF AccountTypeOK, AccountRequest
    <2>4. /\ request'[a].op = request[a].op /\ request'[a].row = request[a].row
          /\ request'[a].to = request[a].to
          /\ request'[a].at = (IF request[a].op = "transfer" THEN "identity" ELSE "enrollments")
          /\ "user" \in request'[a].locks
      BY <2>2, <2>3
    <2>5. QED
      BY <2>1, <2>2, <2>4
  <1> USE DEF Agreed
  <1> USE ServicesAssumption DEF Account!AccountAssumption
  <1> USE DEF Account!Idle, Doing, Holds, Creating
  <1>2. StepsOfKinds'
    BY <1>1 DEF StepsOfKinds, AccountTypeOK
  <1>3. Apart'
    BY <1>1 DEF Apart, AccountTypeOK
  <1>4. RowHeld'
    BY <1>1 DEF RowHeld, StepsOfKinds, AccountTypeOK
  <1>5. ReadsCurrent'
    BY <1>1 DEF StepsOfKinds, Apart, ReadsCurrent, FacilityFollows, AccountTypeOK
  <1>6. IdentityFollows'
    BY <1>1 DEF StepsOfKinds, Apart, ReadsCurrent, IdentityFollows, RowHeld, AccountTypeOK
  <1>7. FacilityFollows'
    BY <1>1
       DEF StepsOfKinds, Apart, RowHeld, ReadsCurrent, IdentityFollows, FacilityFollows,
           AccountTypeOK
  <1>8. QED
    BY <1>2, <1>3, <1>4, <1>5, <1>6, <1>7 DEF AccountInv

\* The account history is written before the commit.
LEMMA AddHistoryKeeps ==
    ASSUME AccountTypeOK, AccountTypeOK', Agreed, NEW a \in Admins, Account!AddHistory(a)
    PROVE  AccountInv'
  <1> USE DEF Agreed
  <1> USE ServicesAssumption DEF Account!AccountAssumption
  <1>1. /\ UNCHANGED <<user, identity, enrolled, half>>
        /\ history' = request[a].to
        /\ \A b \in Admins \ {a} : request'[b] = request[b]
        /\ request[a].at = "history"
        /\ request'[a].op = request[a].op /\ request'[a].row = request[a].row
        /\ request'[a].to = request[a].to
        /\ request'[a].at = "commit"
        /\ request'[a].locks = request[a].locks
    <2>1. UNCHANGED <<user, identity, enrolled, half>>
      BY DEF Account!counters, Account!AddHistory, Account!Goes, Account!At
    <2>2. history' = request[a].to
      BY DEF AccountTypeOK, AccountRequest, AccountSteps, Account!UserRow, Account!counters,
         Account!AddHistory, Account!Goes, Account!At
    <2>3. \A b \in Admins \ {a} : request'[b] = request[b]
      BY DEF AccountTypeOK, AccountRequest, AccountSteps, Account!UserRow, Account!counters,
         Account!AddHistory, Account!Goes, Account!At
    <2>4. request[a].at = "history"
      BY DEF AccountTypeOK, AccountRequest, AccountSteps, Account!UserRow, Account!counters,
         Account!AddHistory, Account!Goes, Account!At
    <2>5. /\ request'[a].op = request[a].op
          /\ request'[a].row = request[a].row
          /\ request'[a].to = request[a].to
      BY DEF AccountTypeOK, AccountRequest, AccountSteps, Account!UserRow, Account!counters,
         Account!AddHistory, Account!Goes, Account!At
    <2>6. request'[a].at = "commit"
      BY DEF AccountTypeOK, AccountRequest, AccountSteps, Account!UserRow, Account!counters,
         Account!AddHistory, Account!Goes, Account!At
    <2>7. request'[a].locks = request[a].locks
      BY DEF AccountTypeOK, AccountRequest, AccountSteps, Account!UserRow, Account!counters,
         Account!AddHistory, Account!Goes, Account!At
    <2>8. QED
      BY <2>1, <2>2, <2>3, <2>4, <2>5, <2>6, <2>7
  <1> USE DEF Account!Idle, Doing, Holds, Creating
  <1>2. StepsOfKinds'
    BY <1>1 DEF StepsOfKinds, AccountTypeOK
  <1>3. Apart'
    BY <1>1 DEF Apart, AccountTypeOK
  <1>4. RowHeld'
    BY <1>1 DEF RowHeld, StepsOfKinds, AccountTypeOK
  <1>5. ReadsCurrent'
    BY <1>1 DEF StepsOfKinds, Apart, ReadsCurrent, FacilityFollows, AccountTypeOK
  <1>6. IdentityFollows'
    BY <1>1 DEF StepsOfKinds, Apart, ReadsCurrent, IdentityFollows, RowHeld, AccountTypeOK
  <1>7. FacilityFollows'
    BY <1>1
       DEF StepsOfKinds, Apart, RowHeld, ReadsCurrent, IdentityFollows, FacilityFollows,
           AccountTypeOK
  <1>8. QED
    BY <1>2, <1>3, <1>4, <1>5, <1>6, <1>7 DEF AccountInv

\* The identity of a user without a link is looked up by name.
LEMMA FindUserKeeps ==
    ASSUME AccountTypeOK, AccountTypeOK', Agreed, NEW a \in Admins, Account!FindUser(a)
    PROVE  AccountInv'
  <1> USE DEF Agreed
  <1> USE ServicesAssumption DEF Account!AccountAssumption
  <1>1. /\ UNCHANGED <<user, identity, enrolled, history, half>>
        /\ \A b \in Admins \ {a} : request'[b] = request[b]
        /\ request[a].at = "find"
        /\ \/ request'[a] = Account!Idle
           \/ /\ user.there /\ request'[a].at = "create" /\ request'[a].row = user
              /\ request'[a].op = request[a].op /\ request'[a].locks = request[a].locks
    <2>1. UNCHANGED <<user, identity, enrolled, history, half>>
      BY DEF Account!counters, Account!FindUser, Account!Ends, Account!At
    <2>2. \A b \in Admins \ {a} : request'[b] = request[b]
      BY DEF AccountTypeOK, AccountRequest, AccountSteps, Account!UserRow, Account!counters,
         Account!FindUser, Account!Ends, Account!At
    <2>3. request[a].at = "find"
      BY DEF AccountTypeOK, AccountRequest, AccountSteps, Account!UserRow, Account!counters,
         Account!FindUser, Account!Ends, Account!At
    <2>4. \/ request'[a] = Account!Idle
          \/ /\ user.there /\ request'[a].at = "create" /\ request'[a].row = user
             /\ request'[a].op = request[a].op /\ request'[a].locks = request[a].locks
      BY DEF AccountTypeOK, AccountRequest, AccountSteps, Account!UserRow, Account!counters,
         Account!FindUser, Account!Ends, Account!At
    <2>5. QED
      BY <2>1, <2>2, <2>3, <2>4
  <1> USE DEF Account!Idle, Doing, Holds, Creating
  <1>2. StepsOfKinds'
    BY <1>1 DEF StepsOfKinds, AccountTypeOK
  <1>3. Apart'
    BY <1>1 DEF Apart, AccountTypeOK
  <1>4. RowHeld'
    BY <1>1 DEF RowHeld, StepsOfKinds, AccountTypeOK
  <1>5. ReadsCurrent'
    BY <1>1 DEF StepsOfKinds, Apart, ReadsCurrent, FacilityFollows, AccountTypeOK
  <1>6. IdentityFollows'
    BY <1>1 DEF StepsOfKinds, Apart, ReadsCurrent, IdentityFollows, RowHeld, AccountTypeOK
  <1>7. FacilityFollows'
    BY <1>1
       DEF StepsOfKinds, Apart, RowHeld, ReadsCurrent, IdentityFollows, FacilityFollows,
           AccountTypeOK
  <1>8. QED
    BY <1>2, <1>3, <1>4, <1>5, <1>6, <1>7 DEF AccountInv

\* updateFacilityInKratosIdentity and handleUpdatePasswordKratos read the identity they write.
LEMMA ReadIdentityKeeps ==
    ASSUME AccountTypeOK, AccountTypeOK', Agreed, NEW a \in Admins, Account!ReadIdentity(a)
    PROVE  AccountInv'
  <1> USE DEF Agreed
  <1> USE ServicesAssumption DEF Account!AccountAssumption
  <1>1. /\ UNCHANGED <<user, identity, enrolled, history, half>>
        /\ \A b \in Admins \ {a} : request'[b] = request[b]
        /\ request[a].at = "identity"
        /\ \/ request'[a] = Account!Idle /\ (identity = None \/ request[a].op = "transfer")
           \/ /\ user.there /\ request[a].op = "transfer" /\ request'[a].at = "history"
              /\ ~user.linked /\ request'[a].locks = request[a].locks
              /\ request'[a].op = request[a].op /\ request'[a].row = request[a].row
              /\ request'[a].to = request[a].to
           \/ /\ request[a].op = "transfer" => user.there
              /\ identity # None /\ request'[a].at = "put" /\ request'[a].read = identity
              /\ request'[a].locks = request[a].locks /\ request'[a].op = request[a].op
              /\ request'[a].row = request[a].row /\ request'[a].to = request[a].to
    <2>1. UNCHANGED <<user, identity, enrolled, history, half>>
      BY DEF Account!counters, Account!ReadIdentity, Account!Goes, Account!Ends, Account!Op,
         Account!At
    <2>2. \A b \in Admins \ {a} : request'[b] = request[b]
      BY DEF AccountTypeOK, AccountRequest, AccountSteps, Account!UserRow, Account!counters,
         Account!ReadIdentity, Account!Goes, Account!Ends, Account!Op, Account!At
    <2>3. request[a].at = "identity"
      BY DEF AccountTypeOK, AccountRequest, AccountSteps, Account!UserRow, Account!counters,
         Account!ReadIdentity, Account!Goes, Account!Ends, Account!Op, Account!At
    <2>4. \/ request'[a] = Account!Idle /\ (identity = None \/ request[a].op = "transfer")
          \/ /\ user.there /\ request[a].op = "transfer" /\ request'[a].at = "history"
             /\ ~user.linked /\ request'[a].locks = request[a].locks
             /\ request'[a].op = request[a].op /\ request'[a].row = request[a].row
             /\ request'[a].to = request[a].to
          \/ /\ request[a].op = "transfer" => user.there
             /\ identity # None /\ request'[a].at = "put" /\ request'[a].read = identity
             /\ request'[a].locks = request[a].locks /\ request'[a].op = request[a].op
             /\ request'[a].row = request[a].row /\ request'[a].to = request[a].to
      <3>1. \/ /\ identity = None \/ request[a].op = "transfer"
               /\ request' = [request EXCEPT ![a] = Account!Idle]
            \/ /\ user.there /\ ~user.linked /\ request[a].op = "transfer"
               /\ request' = [request EXCEPT ![a].at = "history"]
            \/ /\ request[a].op = "transfer" => user.there
               /\ identity # None
               /\ request' = [request EXCEPT ![a].at = "put", ![a].read = identity]
        BY DEF StepsOfKinds, Doing, Account!ReadIdentity, Account!Goes, Account!Ends, Account!Op,
           Account!At
      <3>2. \/ /\ identity = None \/ request[a].op = "transfer"
               /\ request'[a] = Account!Idle
            \/ /\ user.there /\ ~user.linked /\ request[a].op = "transfer"
               /\ request'[a] = [request[a] EXCEPT !.at = "history"]
            \/ /\ request[a].op = "transfer" => user.there
               /\ identity # None
               /\ request'[a] = [request[a] EXCEPT !.at = "put", !.read = identity]
        BY <3>1 DEF AccountTypeOK
      <3>3. request[a] \in AccountRequest
        BY DEF AccountTypeOK
      <3>4. QED
        BY <3>2, <3>3, ZenonT(60) DEF AccountRequest, AccountSteps
    <2>5. QED
      BY <2>1, <2>2, <2>3, <2>4
  <1> USE DEF Account!Idle, Doing, Holds, Creating
  <1>2. StepsOfKinds'
    BY <1>1 DEF StepsOfKinds, AccountTypeOK
  <1>3. Apart'
    BY <1>1 DEF Apart, AccountTypeOK
  <1>4. RowHeld'
    BY <1>1 DEF RowHeld, StepsOfKinds, AccountTypeOK
  <1>5. ReadsCurrent'
    BY <1>1 DEF StepsOfKinds, Apart, ReadsCurrent, FacilityFollows, AccountTypeOK
  <1>6. IdentityFollows'
    BY <1>1 DEF StepsOfKinds, Apart, ReadsCurrent, IdentityFollows, RowHeld, AccountTypeOK
  <1>7. FacilityFollows'
    BY <1>1
       DEF StepsOfKinds, Apart, RowHeld, ReadsCurrent, IdentityFollows, FacilityFollows,
           AccountTypeOK
  <1>8. QED
    BY <1>2, <1>3, <1>4, <1>5, <1>6, <1>7 DEF AccountInv

\* The identity is written whole: with the facility asked for, or the one it was read with.
LEMMA PutIdentityKeeps ==
    ASSUME AccountTypeOK, AccountTypeOK', Agreed, NEW a \in Admins, Account!PutIdentity(a)
    PROVE  AccountInv'
  <1> USE DEF Agreed
  <1> USE ServicesAssumption DEF Account!AccountAssumption
  <1>1. /\ UNCHANGED <<user, enrolled, history, half>>
        /\ \A b \in Admins \ {a} : request'[b] = request[b]
        /\ request[a].at = "put"
        /\ \/ identity = None /\ identity' = None /\ request'[a] = Account!Idle
           \/ /\ identity # None /\ request[a].op = "transfer" /\ identity' = request[a].to
              /\ request'[a].at = "history" /\ request'[a].locks = request[a].locks
              /\ request'[a].op = request[a].op /\ request'[a].row = request[a].row
              /\ request'[a].to = request[a].to
           \/ /\ identity # None /\ request[a].op \notin {"transfer", "undo"}
              /\ identity' = request[a].read
              /\ \/ request[a].row = None /\ request'[a] = Account!Idle
                 \/ /\ request[a].row # None /\ request'[a].at = "link"
                    /\ request'[a].locks = request[a].locks
                    /\ request'[a].op = request[a].op /\ request'[a].row = request[a].row
                    /\ request'[a].to = request[a].to
    <2>1. UNCHANGED <<user, enrolled, history, half>>
      BY DEF Account!counters, Account!PutIdentity, Account!Goes, Account!Ends, Account!Op,
         Account!At, Account!Written
    <2>2. \A b \in Admins \ {a} : request'[b] = request[b]
      BY DEF AccountTypeOK, AccountRequest, AccountSteps, Account!UserRow, Account!counters,
         Account!PutIdentity, Account!Goes, Account!Ends, Account!Op, Account!At, Account!Written
    <2>3. request[a].at = "put"
      BY DEF AccountTypeOK, AccountRequest, AccountSteps, Account!UserRow, Account!counters,
         Account!PutIdentity, Account!Goes, Account!Ends, Account!Op, Account!At, Account!Written
    <2>4. \/ identity = None /\ identity' = None /\ request'[a] = Account!Idle
          \/ /\ identity # None /\ request[a].op = "transfer" /\ identity' = request[a].to
             /\ request'[a].at = "history" /\ request'[a].locks = request[a].locks
             /\ request'[a].op = request[a].op /\ request'[a].row = request[a].row
             /\ request'[a].to = request[a].to
          \/ /\ identity # None /\ request[a].op \notin {"transfer", "undo"}
             /\ identity' = request[a].read
             /\ \/ request[a].row = None /\ request'[a] = Account!Idle
                \/ /\ request[a].row # None /\ request'[a].at = "link"
                   /\ request'[a].locks = request[a].locks
                   /\ request'[a].op = request[a].op /\ request'[a].row = request[a].row
                   /\ request'[a].to = request[a].to
      <3>1. request[a].op # "undo"
        BY DEF StepsOfKinds, Doing
      <3>2. \/ identity = None /\ identity' = None
               /\ request' = [request EXCEPT ![a] = Account!Idle]
            \/ /\ identity # None /\ request[a].op = "transfer" /\ identity' = request[a].to
               /\ request' = [request EXCEPT ![a].at = "history"]
            \/ /\ identity # None /\ request[a].op # "transfer" /\ identity' = request[a].read
               /\ \/ request[a].row = None /\ request' = [request EXCEPT ![a] = Account!Idle]
                  \/ request[a].row # None /\ request' = [request EXCEPT ![a].at = "link"]
        BY <3>1
           DEF Account!PutIdentity, Account!Goes, Account!Ends, Account!Op, Account!At,
               Account!Written
      <3>3. \/ identity = None /\ identity' = None /\ request'[a] = Account!Idle
            \/ /\ identity # None /\ request[a].op = "transfer" /\ identity' = request[a].to
               /\ request'[a] = [request[a] EXCEPT !.at = "history"]
            \/ /\ identity # None /\ request[a].op # "transfer" /\ identity' = request[a].read
               /\ \/ request[a].row = None /\ request'[a] = Account!Idle
                  \/ request[a].row # None /\ request'[a] = [request[a] EXCEPT !.at = "link"]
        BY <3>2 DEF AccountTypeOK
      <3>4. request[a] \in AccountRequest
        BY DEF AccountTypeOK
      <3>5. QED
        BY <3>1, <3>3, <3>4 DEF AccountRequest, AccountSteps
    <2>5. QED
      BY <2>1, <2>2, <2>3, <2>4
  <1> USE DEF Account!Idle, Doing, Holds, Creating
  <1>2. StepsOfKinds'
    BY <1>1 DEF StepsOfKinds, ReadsCurrent, AccountTypeOK
  <1>3. Apart'
    BY <1>1 DEF Apart, AccountTypeOK
  <1>4. RowHeld'
    BY <1>1 DEF RowHeld, StepsOfKinds, AccountTypeOK
  <1>5. ReadsCurrent'
    BY <1>1 DEF StepsOfKinds, Apart, ReadsCurrent, FacilityFollows, AccountTypeOK
  <1>6. IdentityFollows'
    BY <1>1 DEF StepsOfKinds, Apart, ReadsCurrent, IdentityFollows, RowHeld, AccountTypeOK
  <1>7. FacilityFollows'
    BY <1>1
       DEF StepsOfKinds, Apart, RowHeld, ReadsCurrent, IdentityFollows, FacilityFollows,
           AccountTypeOK
  <1>8. QED
    BY <1>2, <1>3, <1>4, <1>5, <1>6, <1>7 DEF AccountInv

\* The transfer commits what the transaction held.
LEMMA CommitKeeps ==
    ASSUME AccountTypeOK, AccountTypeOK', Agreed, NEW a \in Admins, Account!Commit(a)
    PROVE  AccountInv'
  <1> USE DEF Agreed
  <1> USE ServicesAssumption DEF Account!AccountAssumption
  <1>1. /\ UNCHANGED <<identity, history, half>>
        /\ \A b \in Admins \ {a} : request'[b] = request[b]
        /\ request[a].at = "commit"
        /\ request'[a] = Account!Idle
        /\ user'.there = user.there /\ user'.linked = user.linked
        /\ user'.facility = (IF user.there /\ request[a].op = "transfer"
                             THEN request[a].to ELSE user.facility)
    <2>1. UNCHANGED <<identity, history, half>>
      BY DEF Account!counters, Account!Commit, Account!Ends, Account!Op, Account!At
    <2>2. \A b \in Admins \ {a} : request'[b] = request[b]
      BY DEF AccountTypeOK, AccountRequest, AccountSteps, Account!UserRow, Account!counters,
         Account!Commit, Account!Ends, Account!Op, Account!At
    <2>3. request[a].at = "commit"
      BY DEF AccountTypeOK, AccountRequest, AccountSteps, Account!UserRow, Account!counters,
         Account!Commit, Account!Ends, Account!Op, Account!At
    <2>4. request'[a] = Account!Idle
      BY DEF AccountTypeOK, AccountRequest, AccountSteps, Account!UserRow, Account!counters,
         Account!Commit, Account!Ends, Account!Op, Account!At
    <2>5. user'.there = user.there /\ user'.linked = user.linked
      BY DEF AccountTypeOK, AccountRequest, AccountSteps, Account!UserRow, Account!counters,
         Account!Commit, Account!Ends, Account!Op, Account!At
    <2>6. user'.facility = (IF user.there /\ request[a].op = "transfer" THEN request[a].to ELSE user.facility)
      BY DEF AccountTypeOK, AccountRequest, AccountSteps, Account!UserRow, Account!counters,
         Account!Commit, Account!Ends, Account!Op, Account!At
    <2>7. QED
      BY <2>1, <2>2, <2>3, <2>4, <2>5, <2>6
  <1> USE DEF Account!Idle, Doing, Holds, Creating
  <1>2. StepsOfKinds'
    BY <1>1 DEF StepsOfKinds, AccountTypeOK
  <1>3. Apart'
    BY <1>1 DEF Apart, AccountTypeOK
  <1>4. RowHeld'
    BY <1>1 DEF RowHeld, StepsOfKinds, AccountTypeOK
  <1>5. ReadsCurrent'
    BY <1>1 DEF StepsOfKinds, Apart, ReadsCurrent, FacilityFollows, AccountTypeOK
  <1>6. IdentityFollows'
    BY <1>1 DEF StepsOfKinds, Apart, ReadsCurrent, IdentityFollows, RowHeld, AccountTypeOK
  <1>7. FacilityFollows'
    BY <1>1
       DEF StepsOfKinds, Apart, RowHeld, ReadsCurrent, IdentityFollows, FacilityFollows,
           AccountTypeOK
  <1>8. QED
    BY <1>2, <1>3, <1>4, <1>5, <1>6, <1>7 DEF AccountInv

\* HandleCreateUserKratos makes an identity for a user that has none.
LEMMA CreateIdentityKeeps ==
    ASSUME AccountTypeOK, AccountTypeOK', Agreed, NEW a \in Admins, Account!CreateIdentity(a)
    PROVE  AccountInv'
  <1> USE DEF Agreed
  <1> USE ServicesAssumption DEF Account!AccountAssumption
  <1>1. /\ UNCHANGED <<user, enrolled, history, half>>
        /\ \A b \in Admins \ {a} : request'[b] = request[b]
        /\ request[a].at = "create"
        /\ request[a].row # None /\ request[a].row.facility \in Facilities
        /\ \/ identity # None /\ identity' = identity /\ request'[a] = Account!Idle
           \/ /\ identity = None /\ identity' = request[a].row.facility
              /\ request'[a].at = "identity"
              /\ request'[a].locks = request[a].locks /\ request'[a].op = request[a].op
              /\ request'[a].row = request[a].row /\ request'[a].to = request[a].to
    <2>1. UNCHANGED <<user, enrolled, history, half>>
      BY DEF Account!counters, Account!CreateIdentity, Account!Goes, Account!Ends, Account!At
    <2>2. \A b \in Admins \ {a} : request'[b] = request[b]
      BY DEF AccountTypeOK, AccountRequest, AccountSteps, Account!UserRow, Account!counters,
         Account!CreateIdentity, Account!Goes, Account!Ends, Account!At
    <2>3. request[a].at = "create"
      BY DEF AccountTypeOK, AccountRequest, AccountSteps, Account!UserRow, Account!counters,
         Account!CreateIdentity, Account!Goes, Account!Ends, Account!At
    <2>4. request[a].row # None /\ request[a].row.facility \in Facilities
      BY DEF AccountTypeOK, AccountRequest, AccountSteps, Account!UserRow, Account!counters,
         Account!CreateIdentity, Account!Goes, Account!Ends, Account!At
    <2>5. \/ identity # None /\ identity' = identity /\ request'[a] = Account!Idle
          \/ /\ identity = None /\ identity' = request[a].row.facility
             /\ request'[a].at = "identity"
             /\ request'[a].locks = request[a].locks /\ request'[a].op = request[a].op
             /\ request'[a].row = request[a].row /\ request'[a].to = request[a].to
      BY DEF AccountTypeOK, AccountRequest, AccountSteps, Account!UserRow, Account!counters,
         Account!CreateIdentity, Account!Goes, Account!Ends, Account!At
    <2>6. QED
      BY <2>1, <2>2, <2>3, <2>4, <2>5
  <1> USE DEF Account!Idle, Doing, Holds, Creating
  <1>2. StepsOfKinds'
    BY <1>1 DEF StepsOfKinds, AccountTypeOK
  <1>3. Apart'
    BY <1>1 DEF Apart, AccountTypeOK
  <1>4. RowHeld'
    BY <1>1 DEF RowHeld, StepsOfKinds, AccountTypeOK
  <1>5. ReadsCurrent'
    BY <1>1 DEF StepsOfKinds, Apart, ReadsCurrent, FacilityFollows, AccountTypeOK
  <1>6. IdentityFollows'
    BY <1>1 DEF StepsOfKinds, Apart, ReadsCurrent, IdentityFollows, RowHeld, AccountTypeOK
  <1>7. FacilityFollows'
    BY <1>1
       DEF StepsOfKinds, Apart, RowHeld, ReadsCurrent, IdentityFollows, FacilityFollows,
           AccountTypeOK
  <1>8. QED
    BY <1>2, <1>3, <1>4, <1>5, <1>6, <1>7 DEF AccountInv

\* The link to the new identity is saved with the row read before.
LEMMA LinkUserKeeps ==
    ASSUME AccountTypeOK, AccountTypeOK', Agreed, NEW a \in Admins, Account!LinkUser(a)
    PROVE  AccountInv'
  <1> USE DEF Agreed
  <1> USE ServicesAssumption DEF Account!AccountAssumption
  <1>1. /\ UNCHANGED <<identity, enrolled, history, half>>
        /\ \A b \in Admins \ {a} : request'[b] = request[b]
        /\ request[a].at = "link"
        /\ request[a].row # None
        /\ request'[a] = Account!Idle
        /\ user'.there = user.there
        /\ user.there => user'.facility = request[a].row.facility /\ (user'.linked <=> user.linked \/ request[a].op = "reset")
        /\ ~user.there => user' = user
    <2>1. UNCHANGED <<identity, enrolled, history, half>>
      BY DEF Account!counters, Account!LinkUser, Account!Ends, Account!Op, Account!At
    <2>2. \A b \in Admins \ {a} : request'[b] = request[b]
      BY DEF AccountTypeOK, AccountRequest, AccountSteps, Account!UserRow, Account!counters,
         Account!LinkUser, Account!Ends, Account!Op, Account!At
    <2>3. request[a].at = "link"
      BY DEF AccountTypeOK, AccountRequest, AccountSteps, Account!UserRow, Account!counters,
         Account!LinkUser, Account!Ends, Account!Op, Account!At
    <2>4. request[a].row # None
      BY DEF AccountTypeOK, AccountRequest, AccountSteps, Account!UserRow, Account!counters,
         Account!LinkUser, Account!Ends, Account!Op, Account!At
    <2>5. request'[a] = Account!Idle
      BY DEF AccountTypeOK, AccountRequest, AccountSteps, Account!UserRow, Account!counters,
         Account!LinkUser, Account!Ends, Account!Op, Account!At
    <2>6. user'.there = user.there
      BY DEF AccountTypeOK, AccountRequest, AccountSteps, Account!UserRow, Account!counters,
         Account!LinkUser, Account!Ends, Account!Op, Account!At
    <2>7. user.there => user'.facility = request[a].row.facility /\ (user'.linked <=> user.linked \/ request[a].op = "reset")
      BY DEF AccountTypeOK, AccountRequest, AccountSteps, Account!UserRow, Account!counters,
         Account!LinkUser, Account!Ends, Account!Op, Account!At
    <2>8. ~user.there => user' = user
      BY DEF AccountTypeOK, AccountRequest, AccountSteps, Account!UserRow, Account!counters,
         Account!LinkUser, Account!Ends, Account!Op, Account!At
    <2>9. QED
      BY <2>1, <2>2, <2>3, <2>4, <2>5, <2>6, <2>7, <2>8
  <1> USE DEF Account!Idle, Doing, Holds, Creating
  <1>2. StepsOfKinds'
    BY <1>1 DEF StepsOfKinds, AccountTypeOK
  <1>3. Apart'
    BY <1>1 DEF Apart, AccountTypeOK
  <1>4. RowHeld'
    BY <1>1 DEF RowHeld, StepsOfKinds, AccountTypeOK
  <1>5. ReadsCurrent'
    BY <1>1 DEF StepsOfKinds, Apart, ReadsCurrent, FacilityFollows, AccountTypeOK
  <1>6. IdentityFollows'
    BY <1>1 DEF StepsOfKinds, Apart, ReadsCurrent, IdentityFollows, RowHeld, AccountTypeOK
  <1>7. FacilityFollows'
    BY <1>1
       DEF StepsOfKinds, Apart, RowHeld, ReadsCurrent, IdentityFollows, FacilityFollows,
           AccountTypeOK
  <1>8. QED
    BY <1>2, <1>3, <1>4, <1>5, <1>6, <1>7 DEF AccountInv

\* A deletion removes the identity before the row.
LEMMA RemoveIdentityKeeps ==
    ASSUME AccountTypeOK, AccountTypeOK', Agreed, NEW a \in Admins, Account!RemoveIdentity(a)
    PROVE  AccountInv'
  <1> USE DEF Agreed
  <1> USE ServicesAssumption DEF Account!AccountAssumption
  <1>1. /\ UNCHANGED <<user, enrolled, history, half>>
        /\ \A b \in Admins \ {a} : request'[b] = request[b]
        /\ request[a].at = "remove"
        /\ identity' = None
        /\ \/ identity = None /\ request'[a] = Account!Idle
           \/ request'[a].at = "drop" /\ request'[a].locks = request[a].locks
              /\ request'[a].op = request[a].op /\ request'[a].row = request[a].row
              /\ request'[a].to = request[a].to
    <2>1. UNCHANGED <<user, enrolled, history, half>>
      BY DEF Account!counters, Account!RemoveIdentity, Account!Goes, Account!Ends, Account!At
    <2>2. \A b \in Admins \ {a} : request'[b] = request[b]
      BY DEF AccountTypeOK, AccountRequest, AccountSteps, Account!UserRow, Account!counters,
         Account!RemoveIdentity, Account!Goes, Account!Ends, Account!At
    <2>3. request[a].at = "remove"
      BY DEF AccountTypeOK, AccountRequest, AccountSteps, Account!UserRow, Account!counters,
         Account!RemoveIdentity, Account!Goes, Account!Ends, Account!At
    <2>4. identity' = None
      BY DEF AccountTypeOK, AccountRequest, AccountSteps, Account!UserRow, Account!counters,
         Account!RemoveIdentity, Account!Goes, Account!Ends, Account!At
    <2>5. \/ identity = None /\ request'[a] = Account!Idle
          \/ request'[a].at = "drop" /\ request'[a].locks = request[a].locks
             /\ request'[a].op = request[a].op /\ request'[a].row = request[a].row
             /\ request'[a].to = request[a].to
      <3>1. \/ identity = None /\ request' = [request EXCEPT ![a] = Account!Idle]
            \/ request' = [request EXCEPT ![a].at = "drop"]
        BY DEF Account!RemoveIdentity, Account!Goes, Account!Ends
      <3>2. \/ identity = None /\ request'[a] = Account!Idle
            \/ request'[a] = [request[a] EXCEPT !.at = "drop"]
        BY <3>1 DEF AccountTypeOK
      <3>3. request[a] \in AccountRequest
        BY DEF AccountTypeOK
      <3>4. QED
        BY <3>2, <3>3 DEF AccountRequest, AccountSteps
    <2>6. QED
      BY <2>1, <2>2, <2>3, <2>4, <2>5
  <1> USE DEF Account!Idle, Doing, Holds, Creating
  <1>2. StepsOfKinds'
    BY <1>1 DEF StepsOfKinds, AccountTypeOK
  <1>3. Apart'
    BY <1>1 DEF Apart, AccountTypeOK
  <1>4. RowHeld'
    BY <1>1 DEF RowHeld, StepsOfKinds, AccountTypeOK
  <1>5. ReadsCurrent'
    BY <1>1 DEF StepsOfKinds, Apart, ReadsCurrent, FacilityFollows, AccountTypeOK
  <1>6. IdentityFollows'
    BY <1>1 DEF StepsOfKinds, Apart, ReadsCurrent, IdentityFollows, RowHeld, AccountTypeOK
  <1>7. FacilityFollows'
    BY <1>1
       DEF StepsOfKinds, Apart, RowHeld, ReadsCurrent, IdentityFollows, FacilityFollows,
           AccountTypeOK
  <1>8. QED
    BY <1>2, <1>3, <1>4, <1>5, <1>6, <1>7 DEF AccountInv

\* The row of a deleted user is dropped last.
LEMMA DropUserKeeps ==
    ASSUME AccountTypeOK, AccountTypeOK', Agreed, NEW a \in Admins, Account!DropUser(a)
    PROVE  AccountInv'
  <1> USE DEF Agreed
  <1> USE ServicesAssumption DEF Account!AccountAssumption
  <1>1. /\ UNCHANGED <<identity, enrolled, history, half>>
        /\ \A b \in Admins \ {a} : request'[b] = request[b]
        /\ request[a].at = "drop"
        /\ request'[a] = Account!Idle
        /\ ~user'.there /\ user'.facility = user.facility /\ user'.linked = user.linked
        /\ \A b \in Admins \ {a} : "user" \notin request[b].locks
    <2>1. UNCHANGED <<identity, enrolled, history, half>>
      BY DEF Account!counters, Account!DropUser, Account!Ends, Account!At, Account!Granted,
         Account!Needs, Account!Free
    <2>2. \A b \in Admins \ {a} : request'[b] = request[b]
      BY DEF AccountTypeOK, AccountRequest, AccountSteps, Account!UserRow, Account!counters,
         Account!DropUser, Account!Ends, Account!At, Account!Granted, Account!Needs, Account!Free
    <2>3. request[a].at = "drop"
      BY DEF AccountTypeOK, AccountRequest, AccountSteps, Account!UserRow, Account!counters,
         Account!DropUser, Account!Ends, Account!At, Account!Granted, Account!Needs, Account!Free
    <2>4. request'[a] = Account!Idle
      BY DEF AccountTypeOK, AccountRequest, AccountSteps, Account!UserRow, Account!counters,
         Account!DropUser, Account!Ends, Account!At, Account!Granted, Account!Needs, Account!Free
    <2>5. ~user'.there /\ user'.facility = user.facility /\ user'.linked = user.linked
      BY DEF AccountTypeOK, AccountRequest, AccountSteps, Account!UserRow, Account!counters,
         Account!DropUser, Account!Ends, Account!At, Account!Granted, Account!Needs, Account!Free
    <2>6. \A b \in Admins \ {a} : "user" \notin request[b].locks
      BY DEF AccountTypeOK, AccountRequest, AccountSteps, Account!UserRow, Account!counters,
         Account!DropUser, Account!Ends, Account!At, Account!Granted, Account!Needs, Account!Free
    <2>7. QED
      BY <2>1, <2>2, <2>3, <2>4, <2>5, <2>6
  <1> USE DEF Account!Idle, Doing, Holds, Creating
  <1>2. StepsOfKinds'
    BY <1>1 DEF StepsOfKinds, AccountTypeOK
  <1>3. Apart'
    BY <1>1 DEF Apart, AccountTypeOK
  <1>4. RowHeld'
    BY <1>1 DEF RowHeld, StepsOfKinds, AccountTypeOK
  <1>5. ReadsCurrent'
    BY <1>1 DEF StepsOfKinds, Apart, ReadsCurrent, FacilityFollows, AccountTypeOK
  <1>6. IdentityFollows'
    BY <1>1 DEF StepsOfKinds, Apart, ReadsCurrent, IdentityFollows, RowHeld, AccountTypeOK
  <1>7. FacilityFollows'
    BY <1>1
       DEF StepsOfKinds, Apart, RowHeld, ReadsCurrent, IdentityFollows, FacilityFollows,
           AccountTypeOK
  <1>8. QED
    BY <1>2, <1>3, <1>4, <1>5, <1>6, <1>7 DEF AccountInv

\* A request that ends and leaves nothing half done in another store.
LEMMA EndsQuietly ==
    ASSUME AccountTypeOK, Agreed, NEW a \in Admins,
           request' = [request EXCEPT ![a] = Account!Idle],
           UNCHANGED <<user, identity, history>>,
           ~Creating(a), ~Doing(a, "delete", {"drop"}), ~Doing(a, "transfer", {"history", "commit"})
    PROVE  AccountInv'
  <1> USE DEF Agreed
  <1>1. request'[a] = Account!Idle /\ \A b \in Admins \ {a} : request'[b] = request[b]
    BY DEF AccountTypeOK
  <1> USE DEF Account!Idle, Doing, Holds, Creating
  <1>2. StepsOfKinds'
    BY <1>1 DEF StepsOfKinds
  <1>3. Apart'
    BY <1>1 DEF Apart
  <1>4. RowHeld'
    BY <1>1 DEF RowHeld
  <1>5. ReadsCurrent'
    BY <1>1 DEF ReadsCurrent
  <1>6. IdentityFollows'
    BY <1>1 DEF IdentityFollows
  <1>7. FacilityFollows'
    BY <1>1 DEF FacilityFollows
  <1>8. QED
    BY <1>2, <1>3, <1>4, <1>5, <1>6, <1>7 DEF AccountInv

\* A request of an administrator who has none under way.
LEMMA AskKeeps ==
    ASSUME AccountTypeOK, Agreed, NEW a \in Admins, NEW op \in Account!Kinds,
            NEW f \in Facilities, Account!Ask(a, op, f)
    PROVE  AccountInv'
  <1> USE DEF Agreed
  <1>1. /\ UNCHANGED <<user, identity, history>>
        /\ \A b \in Admins \ {a} : request'[b] = request[b]
        /\ request[a].at = "idle"
        /\ request'[a].at = "asked" /\ request'[a].op = op /\ request'[a].row = None
        /\ request'[a].locks = {}
    BY DEF AccountTypeOK, Account!Ask, Account!Idle, Account!At
  <1>2. PICK S \in Overlaps : {op} \cup {request[b].op : b \in {b \in Admins : request[b].at # "idle"}} \subseteq S
    BY DEF Account!Ask, Account!Op, Account!At
  <1>3. \A b \in Admins : request[b].at = "idle" \/ request[b].op \in S
    BY <1>2
  <1>4. \A b \in Admins \ {a} :
           /\ op = "transfer" => request[b].op \in {"none", "transfer", "deactivate", "delete"}
           /\ op = "reset" => request[b].op \in {"none", "reset", "set", "edit", "deactivate"}
           /\ request[b].op = "transfer" => op \in {"transfer", "deactivate", "delete"}
           /\ request[b].op = "reset" => op \in {"reset", "set", "edit", "deactivate"}
    BY <1>2, <1>3 DEF Overlaps, StepsOfKinds, Doing
  <1> USE DEF Doing, Holds, Creating, Account!Kinds
  <1>5. StepsOfKinds'
    BY <1>1 DEF StepsOfKinds
  <1>6. Apart'
    BY <1>1, <1>4 DEF Apart
  <1>7. RowHeld'
    BY <1>1 DEF RowHeld, StepsOfKinds
  <1>8. ReadsCurrent'
    BY <1>1 DEF ReadsCurrent
  <1>9. IdentityFollows'
    BY <1>1 DEF IdentityFollows, StepsOfKinds
  <1>10. FacilityFollows'
    BY <1>1 DEF FacilityFollows, StepsOfKinds
  <1>11. QED
    BY <1>5, <1>6, <1>7, <1>8, <1>9, <1>10 DEF AccountInv

\* What fails: either it is noted that a request ended halfway, or nothing else was changed.
LEMMA MishapKeeps ==
    ASSUME AccountTypeOK, Agreed, NEW a \in Admins,
           Account!Fails(a) \/ Account!AnswerLost(a)
           \/ Account!CommitFails(a) \/ Account!DeadlockEnds(a)
    PROVE  AccountInv'
  <1> USE DEF Agreed
  <1>1. ASSUME Account!Fails(a), ~half' PROVE AccountInv'
    <2>1. request' = [request EXCEPT ![a] = Account!Idle] /\ UNCHANGED <<user, identity, history>>
      BY <1>1 DEF Account!Fails, Account!Ends
    <2>2. ~Account!Halfway(a) /\ ~(request[a].op = "transfer" /\ request[a].at = "commit")
      BY <1>1 DEF Account!Fails, Account!Op, Account!At
    <2>3. /\ ~Creating(a)
          /\ ~Doing(a, "delete", {"drop"})
          /\ ~Doing(a, "transfer", {"history", "commit"})
      BY <2>2 DEF Creating, Doing, Account!Halfway, Account!Op, Account!At
    <2>4. QED
      BY <2>1, <2>3, EndsQuietly
  <1>2. ASSUME Account!AnswerLost(a), ~half' PROVE AccountInv'
    <2>1. /\ request' = [request EXCEPT ![a] = Account!Idle] /\ UNCHANGED <<user, history>>
          /\ request[a].at \in {"put", "create", "remove"}
          /\ request[a].op \notin {"transfer", "undo", "delete"} /\ request[a].row = None
      BY <1>2 DEF Account!AnswerLost, Account!Ends, Account!Op
    <2>2. request[a].at = "put" /\ (Doing(a, "reset", {"put"}) \/ Doing(a, "set", {"put"}))
      BY <2>1 DEF AccountTypeOK, StepsOfKinds, Doing
    <2>3. identity' = (IF identity # None THEN request[a].read ELSE None)
      BY <1>2, <2>1, <2>2 DEF Account!AnswerLost, Account!At, Account!Op, Account!Written
    <2>4. identity \in {None, user.facility} /\ request[a].read = user.facility
      BY <2>2 DEF Apart, ReadsCurrent, FacilityFollows, Doing
    <2>5. /\ ~Creating(a)
          /\ ~Doing(a, "delete", {"drop"})
          /\ ~Doing(a, "transfer", {"history", "commit"})
      BY <2>1, <2>2 DEF Creating, Doing
    <2>6. QED
      BY <2>1, <2>3, <2>4, <2>5, EndsQuietly
  <1>3. ASSUME Account!CommitFails(a) PROVE AccountInv'
    BY <1>3 DEF Account!CommitFails, AccountInv
  <1>4. ASSUME Account!DeadlockEnds(a) PROVE AccountInv'
    <2>1. /\ request' = [request EXCEPT ![a] = Account!Idle]
          /\ UNCHANGED <<user, identity, history>>
          /\ \E b \in Admins : Account!Blocks(a, b) /\ Account!Blocks(b, a)
      BY <1>4 DEF Account!DeadlockEnds, Account!Ends
    <2>2. request[a].at \in {"row", "link", "drop", "enrollments"} /\ request[a].locks # {}
      BY <2>1 DEF Account!Blocks, Account!Needs, Account!At
    <2>3. /\ ~Creating(a)
          /\ ~Doing(a, "delete", {"drop"})
          /\ ~Doing(a, "transfer", {"history", "commit"})
      BY <2>2 DEF Creating, Doing, RowHeld
    <2>4. QED
      BY <2>1, <2>3, EndsQuietly
  <1>5. QED
    BY <1>1, <1>2, <1>3, <1>4 DEF AccountInv

\* A restart leaves what each request has committed, and notes a request it cuts in half.
LEMMA RestartKeeps ==
    ASSUME AccountTypeOK, Agreed, Account!Restart
    PROVE  AccountInv'
  <1> USE DEF Agreed
  <1> SUFFICES ASSUME ~half' PROVE AccountInv'
    BY DEF AccountInv
  <1>1. /\ UNCHANGED <<user, identity, history>>
        /\ \A a \in Admins : request'[a] = Account!Idle /\ ~Account!Halfway(a)
    BY DEF Account!Restart
  <1>2. \A a \in Admins : ~Creating(a) /\ ~Doing(a, "delete", {"drop"}) /\ ~Doing(a, "transfer", {"history", "commit"})
    BY <1>1 DEF Creating, Doing, Account!Halfway, Account!Op, Account!At
  <1> USE DEF Account!Idle, Doing, Holds, Creating
  <1>3. StepsOfKinds' /\ Apart' /\ RowHeld' /\ ReadsCurrent'
    BY <1>1 DEF StepsOfKinds, Apart, RowHeld, ReadsCurrent
  <1>4. IdentityFollows'
    BY <1>1, <1>2 DEF IdentityFollows
  <1>5. FacilityFollows'
    BY <1>1, <1>2 DEF FacilityFollows
  <1>6. QED
    BY <1>3, <1>4, <1>5 DEF AccountInv

\* All steps of the accounts, and the steps of the other services.
LEMMA AccountStep ==
    ASSUME AccountTypeOK, AccountTypeOK', AccountInv, [Next]_vars
    PROVE  AccountInv'
  \* What ended halfway is not forgotten.
  <1>1. half => half'
    <2>1. CASE part = "account" /\ Account!Next
      <3>1. ASSUME NEW a \in Admins,
                   Account!Fails(a) \/ Account!AnswerLost(a)
                   \/ Account!CommitFails(a) \/ Account!DeadlockEnds(a)
            PROVE  half => half'
        BY <3>1
           DEF Account!Fails, Account!AnswerLost, Account!CommitFails, Account!DeadlockEnds,
               Account!counters
      <3>2. ASSUME NEW a \in Admins, NEW op \in Account!Kinds, NEW f \in Facilities,
                   Account!Ask(a, op, f)
            PROVE  half => half'
        BY <3>2 DEF Account!Ask
      <3>3. ASSUME NEW a \in Admins, Account!Advance(a) PROVE half => half'
        BY <3>3
           DEF Account!Advance, Account!Start, Account!EndEnrollments, Account!TakeRow,
               Account!ReadIdentity, Account!PutIdentity, Account!AddHistory, Account!Commit,
               Account!FindUser, Account!CreateIdentity, Account!LinkUser, Account!RemoveIdentity,
               Account!DropUser, Account!counters
      <3>4. ASSUME Account!Enroll \/ Account!Restart PROVE half => half'
        BY <3>4 DEF Account!Enroll, Account!Restart, Account!counters
      <3>5. QED
        BY <2>1, <3>1, <3>2, <3>3, <3>4 DEF Account!Next
    <2>2. CASE UNCHANGED half
      BY <2>2
    <2>3. QED
      BY <2>1, <2>2 DEF Next, vars, accountVars
  <1>2. CASE half
    BY <1>1, <1>2 DEF AccountInv
  <1>3. CASE ~half
    <2> USE <1>3 DEF AccountInv
    <2>1. CASE part = "account" /\ Account!Next
      <3>1. ASSUME NEW a \in Admins, Account!Advance(a) PROVE AccountInv'
        BY <3>1, StartKeeps, EndEnrollmentsKeeps, TakeRowKeeps, ReadIdentityKeeps,
           PutIdentityKeeps, AddHistoryKeeps, CommitKeeps, FindUserKeeps, CreateIdentityKeeps,
           LinkUserKeeps, RemoveIdentityKeeps, DropUserKeeps
           DEF Account!Advance
      <3>2. ASSUME NEW a \in Admins, NEW op \in Account!Kinds, NEW f \in Facilities,
                   Account!Ask(a, op, f)
            PROVE  AccountInv'
        BY <3>2, AskKeeps
      <3>3. ASSUME NEW a \in Admins,
                   Account!Fails(a) \/ Account!AnswerLost(a)
                   \/ Account!CommitFails(a) \/ Account!DeadlockEnds(a)
            PROVE  AccountInv'
        BY <3>3, MishapKeeps
      <3>4. ASSUME Account!Enroll PROVE AccountInv'
        <4>1. UNCHANGED <<user, identity, history, request, half>>
          BY <3>4 DEF Account!Enroll, Account!counters
        <4>2. QED
          BY <4>1
             DEF Agreed, StepsOfKinds, Apart, RowHeld, ReadsCurrent, IdentityFollows,
                 FacilityFollows, Doing, Holds, Creating
      <3>5. ASSUME Account!Restart PROVE AccountInv'
        BY <3>5, RestartKeeps
      <3>6. QED
        BY Zenon, <2>1, <3>1, <3>2, <3>3, <3>4, <3>5 DEF Account!Next
    <2>2. CASE UNCHANGED <<user, identity, history, request, half>>
      BY <2>2
         DEF Agreed, StepsOfKinds, Apart, RowHeld, ReadsCurrent, IdentityFollows, FacilityFollows,
             Doing, Holds, Creating
    <2>3. QED
      BY <2>1, <2>2 DEF Next, vars, accountVars
  <1>4. QED
    BY <1>2, <1>3 DEF AccountTypeOK

\* A user starts with a row, an identity and a facility that agree.
LEMMA AccountInit == Init => AccountTypeOK /\ AccountInv
  <1> SUFFICES ASSUME Init PROVE AccountTypeOK /\ AccountInv
    OBVIOUS
  <1> USE ServicesAssumption DEF Account!AccountAssumption, Init, Account!Init, Account!Idle
  <1>1. PICK f \in Facilities, linked \in BOOLEAN :
          /\ user = [there |-> TRUE, facility |-> f, linked |-> linked, deactivated |-> FALSE]
          /\ identity = (IF linked THEN f ELSE None) /\ history = f
    OBVIOUS
  <1>2. AccountTypeOK
    BY <1>1 DEF AccountTypeOK, AccountRequest, AccountSteps, Account!UserRow
  <1>3. AccountInv
    BY <1>1
       DEF AccountInv, Agreed, StepsOfKinds, Apart, RowHeld, ReadsCurrent, IdentityFollows,
           FacilityFollows, Doing, Holds, Creating
  <1>4. QED
    BY <1>2, <1>3

\* For every number of administrators and facilities, and wherever a request fails, stops or loses
\* an answer: as long as no request ended between two stores, Kratos, the account history and the
\* database agree whenever no request is under way (handleResidentTransfer, handleDeleteUser,
\* HandleCreateUserKratos).
THEOREM StoresAgreeHolds == Spec => []StoresAgree
  <1>1. Init => AccountTypeOK /\ AccountInv
    BY AccountInit
  <1>2. AccountTypeOK /\ [Next]_vars => AccountTypeOK'
    BY AccountTypeStep
  <1>3. AccountTypeOK /\ AccountTypeOK' /\ AccountInv /\ [Next]_vars => AccountInv'
    BY AccountStep
  <1>4. AccountTypeOK /\ AccountInv => StoresAgree
    <2> SUFFICES ASSUME AccountTypeOK, ~half, AccountInv, \A a \in Admins : request[a].at = "idle"
                 PROVE  /\ identity # None <=> user.there /\ user.linked
                        /\ identity # None => identity = user.facility
                        /\ history = user.facility
      BY DEF StoresAgree, Account!StoresAgree, Account!At
    <2>1. IdentityFollows /\ FacilityFollows
      BY DEF AccountInv, Agreed
    <2>2. QED
      BY <2>1 DEF IdentityFollows, FacilityFollows, Doing, Creating
  <1>5. QED
    BY <1>1, <1>2, <1>3, <1>4, PTL DEF Spec
=============================================================================

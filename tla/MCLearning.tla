------------------------------ MODULE MCLearning ------------------------------
(***************************************************************************)
(* What residents learn with: the learning record, by the editor of its    *)
(* entries, the sittings it is worked on in and its first page, and the    *)
(* open content, by the page that manages it and the one with a resident's *)
(* favorites.  They share no state, so a behaviour is one of any of them.  *)
(***************************************************************************)
EXTENDS Naturals, Sequences, FiniteSets

CONSTANTS None, Ids, Contents, Blank, Complete, MaxStrays, MaxQueue,
          Rows, LastStep, Inactive, Window, MaxTime, MaxSittings, MaxVisits,
          Entries, MaxHomeActs, MaxWrites,
          Places, Here, Polls, MaxManaging, Items, MaxClicks

VARIABLES part,
          server, used, stored, open, entries, known, shown, timer, saves, written, label,
          finishing, completed, strays, typed, doubt,
          now, sitting, record, mounted, tab, resumeAt, persist, tracker, late, saving, counted,
          quiet, worked, opened, ended, finished,
          held, seen, wire, ui   \* of a page: its server, shown, wire and ui

Editor == INSTANCE LearningRecordEditor
Sitting == INSTANCE LearningRecordSitting WITH Idle <- Inactive
Content == INSTANCE KnowledgeCenter WITH
  server <- held, shown <- seen,
  Kinds <- {"library", "video", "link"}, MaxActs <- MaxManaging
FavoritesPage == INSTANCE Favorites WITH
  server <- held, shown <- seen, Hurried <- FALSE, MaxActs <- MaxClicks
Home == INSTANCE LearningRecordHome WITH
  server <- held, shown <- seen, MaxActs <- MaxHomeActs

ASSUME LearningAssumption ==
  Editor!EditorAssumption /\ Sitting!SittingAssumption /\ Home!HomeAssumption

editorVars == <<server, used, stored, open, entries, known, shown, timer, saves, written, label,
                finishing, completed, strays, typed, doubt>>
sittingVars == <<now, sitting, record, mounted, tab, resumeAt, persist, tracker, late, saving,
                 counted, quiet, worked, opened, ended, finished>>
recordVars == <<editorVars, sittingVars>>
pageVars == <<held, seen, wire, ui>>
vars == <<part, recordVars, pageVars>>

Init ==
  /\ Editor!Init /\ Sitting!Init
  /\ \/ part \in {"editor", "sitting"} /\ held = None /\ seen = None /\ wire = {} /\ ui = None
     \/ part = "content" /\ Content!Init
     \/ part = "favorites" /\ FavoritesPage!Init
     \/ part = "home" /\ Home!Init
Next ==
  \/ part = "editor" /\ Editor!Next /\ UNCHANGED <<part, sittingVars, pageVars>>
  \/ part = "sitting" /\ Sitting!Next /\ UNCHANGED <<part, editorVars, pageVars>>
  \/ part = "content" /\ Content!Next /\ UNCHANGED <<part, recordVars>>
  \/ part = "favorites" /\ FavoritesPage!Next /\ UNCHANGED <<part, recordVars>>
  \/ part = "home" /\ Home!Next /\ UNCHANGED <<part, recordVars>>
Answers == part = "editor" /\ Editor!Settles /\ UNCHANGED <<part, sittingVars, pageVars>>
Spec == Init /\ [][Next]_vars /\ WF_vars(Answers)

\* "Saved" is shown only when nothing waits to be saved, and then the screen shows what the
\* server holds (saveTicketRef, upsertCommittedEntry); and a PDF that was saved holds the entries
\* it was asked for (handleDownloadEntry, handleDownloadAll).
SavedLabelTrue ==
  /\ Editor!SavedMeansQuiet /\ Editor!SavedLabelTrue
  /\ part = "home" => Home!PrintedAsAsked
\* Two saves of one visit never both create the row (persistActiveRow).
NoSecondCreate == Editor!NoSecondCreate
\* Finish comes to an end, whatever was queued before it.
FinishEnds == Editor!FinishEnds

\* A sitting is reported at most once (endSession).
ReportedOnce == Sitting!ReportedOnce
\* The active time of a sitting is the time worked, no more and no less, and a sitting reports
\* no more of it than it lasted (openActiveRun, endSession).
ActiveTimeExact == Sitting!ActiveTimeExact /\ Sitting!ActiveWithinDuration
\* There is a sitting while the form is open, and one without it has its timer (enterForm).
SittingFollowsForm == Sitting!SittingFollowsForm
\* An achievement is completed at most once, over all visits (countedEntries), and no more
\* entries of a sitting are completed than were started; every question of a pass is left once,
\* and all of them when it is complete.
CompletedOnce == Sitting!CompletedOnce /\ Sitting!CompletedWereStarted /\ Sitting!EachStepOnce

\* When nothing is under way the lists of open content, a sheet that is open, a resident's
\* favorites and the entries of his record show what the database holds, whatever order they were
\* answered in; and after any number of clicks on any tab each star shows whether its content is a favorite.
QuietIsFresh ==
  /\ part = "content" => Content!QuietIsFresh
  /\ part = "favorites" => FavoritesPage!QuietIsFresh /\ FavoritesPage!StarTrue
  /\ part = "home" => Home!QuietIsFresh
\* While the page refuses to retry a video there is a poll that will end the refusal.
NeverStuckPolling == part = "content" => Content!NeverStuckPolling
=============================================================================

------------------------ MODULE LearningRecordSitting ------------------------
(***************************************************************************)
(* What the learning record form reports of itself: a sitting spans the    *)
(* visits to the form of one tab (learningRecordSession.ts), the tracker   *)
(* of a visit follows the achievement that is open                         *)
(* (learningRecordAnalytics.ts).  The tab may be hidden, frozen and        *)
(* restored, reloaded or killed at any time.                               *)
(***************************************************************************)
EXTENDS Naturals, FiniteSets

CONSTANTS
  Rows,         \* achievements
  LastStep,     \* the form has the steps 0..LastStep
  Idle,         \* ACTIVE_IDLE_MS: a silent form accrues active time that long
  Window,       \* SESSION_IDLE_MS: a sitting survives that long with the form closed
  None,
  MaxTime,      \* bound: the clock
  MaxSittings,  \* bound: sittings opened
  MaxVisits     \* bound: visits to the form in a sitting

VARIABLES
  now,       \* Date.now()
  sitting,   \* state: the open sitting, or None
  record,    \* its copy in sessionStorage, or None
  mounted,   \* mountCount > 0: the form is on the page
  tab,       \* "shown", "hidden", or "frozen" in the back/forward cache
  resumeAt,  \* resumeTimer: when it is due, or None
  persist,   \* persistTimer is scheduled
  tracker,   \* LearningRecordTracker of the visit, None until the row is open
  late,      \* the tracker of a visit that was left while Finish saved, or None
  saving,    \* validateFinishRequirements waits for its save
  counted,   \* localStorage countedEntries: achievements reported as completed
  quiet,     \* time since the resident did something (in no variable of the code)
  worked,    \* active time as it passed (in no variable of the code)
  opened,    \* sittings opened so far (in no variable of the code)
  ended,     \* lr_session_ended events of each sitting (in no variable of the code)
  finished   \* lr_entry_completed events of each row (in no variable of the code)

ghosts == <<quiet, worked, opened, ended, finished>>
visit == <<tracker, late, saving, counted, finished>>
clock == <<now, quiet>>
vars == <<now, sitting, record, mounted, tab, resumeAt, persist, tracker, late, saving,
          counted, ghosts>>

Steps == 0..LastStep
Times == 0..MaxTime

Sitting == [n : 1..MaxSittings, start : Times, close : Times, activity : Times,
            active : Times, run : Times \cup {None},
            started : Nat, completed : Nat, visits : 0..MaxVisits]
Tracker == [row : Rows, numbered : BOOLEAN, done : BOOLEAN,
            step : Steps, reported : SUBSET Steps, left : [Steps -> 0..2]]

SittingAssumption ==
  /\ LastStep \in Nat /\ Idle \in Nat \ {0} /\ Window \in Nat \ {0} /\ Idle < Window
  /\ MaxTime \in Nat \ {0} /\ MaxSittings \in Nat \ {0} /\ MaxVisits \in Nat \ {0}
  /\ None \notin Rows \cup Nat \cup Sitting \cup Tracker

-----------------------------------------------------------------------------
Min2(a, b) == IF a < b THEN a ELSE b

FreshSitting(n) ==
  [n |-> n, start |-> now, close |-> 0, activity |-> now, active |-> 0, run |-> None,
   started |-> 0, completed |-> 0, visits |-> 0]

\* openActiveRun
Running(s, t) == IF s.run # None \/ t = "hidden" THEN s ELSE [s EXCEPT !.run = now]

\* Mutant of Stopped: the silent stretch before the close is charged.
StoppedM(s) ==
  IF s.run = None THEN s ELSE [s EXCEPT !.active = @ + (now - s.run), !.run = None]
\* closeActiveRun: a run is charged up to Idle after the last activity.
Stopped(s) ==
  IF s.run = None THEN s
  ELSE LET end == Min2(now, s.activity + Idle)
       IN  [s EXCEPT !.active = @ + (IF end > s.run THEN end - s.run ELSE 0), !.run = None]

\* noteActivity
Active(s) ==
  LET t == IF s.run # None /\ now - s.activity > Idle THEN Stopped(s) ELSE s
      u == [t EXCEPT !.activity = now]
  IN  IF mounted THEN Running(u, tab) ELSE u

\* What lr_session_ended says of a sitting that ends now.
ClosedAt(s, onForm) == IF onForm THEN now ELSE IF s.close # 0 THEN s.close ELSE s.activity
Duration(s, onForm) == LET end == ClosedAt(s, onForm) IN IF end > s.start THEN end - s.start ELSE 0

\* endSession: reported once, nothing of it is left behind.
Reported(s) == ended' = [ended EXCEPT ![s.n] = IF @ = 2 THEN 2 ELSE @ + 1]
\* Mutant of Forgotten: the stored copy survives the report.
ForgottenM(s) == UNCHANGED record
Forgotten(s) == record' = None
EndSession ==
  /\ Reported(sitting) /\ Forgotten(sitting)
  /\ sitting' = None /\ resumeAt' = None /\ persist' = FALSE

Init ==
  /\ now = 1 /\ sitting = None /\ record = None /\ mounted = FALSE /\ tab = "shown"
  /\ resumeAt = None /\ persist = FALSE /\ tracker = None /\ late = None /\ saving = FALSE
  /\ counted = {} /\ quiet = 0 /\ worked = 0 /\ opened = 0
  /\ ended = [n \in 1..MaxSittings |-> 0] /\ finished = [r \in Rows |-> 0]

-----------------------------------------------------------------------------
\* The rows' events of the tracker: reportStep leaves out a step it has reported.
StepReported(k, t) ==
  IF k \in t.reported THEN t
  ELSE [t EXCEPT !.reported = @ \cup {k}, !.left[k] = IF @ = 2 THEN 2 ELSE @ + 1]

AllReported(t) ==
  [t EXCEPT !.reported = Steps,
            !.left = [k \in Steps |-> IF k \in t.reported THEN t.left[k] ELSE t.left[k] + 1]]

\* readPersisted: a run that was open when the copy was written is not resumed.
Stored == [record EXCEPT !.run = None]

\* resumeOrStart: the stored sitting goes on within the window, else it is reported.
\* The reference is the last close of the form, also when a later visit was killed.
Reference(s) == IF s.close # 0 THEN s.close ELSE s.activity
Resumable == record # None /\ now - Reference(record) < Window

Entered(s) == Running([s EXCEPT !.activity = now, !.visits = @ + 1], tab)

\* enterForm.  Mutant of ResumeDisarmed: the resume timer goes on.
ResumeDisarmedM == UNCHANGED resumeAt
ResumeDisarmed == resumeAt' = None

EnterForm ==
  /\ ~mounted /\ tab = "shown"
  /\ mounted' = TRUE /\ quiet' = 0 /\ tracker' = None /\ persist' = TRUE
  /\ IF sitting # None
     THEN /\ sitting.visits < MaxVisits
          /\ ResumeDisarmed /\ sitting' = Entered(sitting)
          /\ UNCHANGED <<record, opened, ended, worked>>
     ELSE IF Resumable
     THEN /\ record.visits < MaxVisits
          /\ resumeAt' = None /\ sitting' = Entered(Stored) /\ worked' = Stored.active
          /\ UNCHANGED <<record, opened, ended>>
     ELSE /\ opened < MaxSittings
          /\ IF record # None THEN Reported(record) /\ Forgotten(record)
                              ELSE UNCHANGED <<ended, record>>
          /\ resumeAt' = None /\ opened' = opened + 1 /\ worked' = 0
          /\ sitting' = Entered(FreshSitting(opened + 1))
  /\ UNCHANGED <<now, tab, late, saving, counted, finished>>

\* The entry is hydrated: entryStarted, which does not count a row completed before.
EntryStarted(r) ==
  /\ mounted /\ tab # "frozen" /\ tracker = None /\ sitting # None
  /\ tracker' = [row |-> r, numbered |-> r \notin counted, done |-> FALSE, step |-> 0,
                 reported |-> {}, left |-> [k \in Steps |-> 0]]
  /\ IF r \in counted THEN UNCHANGED <<sitting, persist>>
                      ELSE sitting' = [sitting EXCEPT !.started = @ + 1] /\ persist' = TRUE
  /\ UNCHANGED <<now, record, mounted, tab, resumeAt, late, saving, counted, ghosts>>

\* handleActiveStepChange
StepChanged(k) ==
  /\ mounted /\ tab = "shown" /\ tracker # None /\ k # tracker.step
  /\ tracker' = [StepReported(tracker.step, tracker) EXCEPT !.step = k]
  /\ UNCHANGED <<now, sitting, record, mounted, tab, resumeAt, persist, late, saving,
                 counted, ghosts>>

\* A key, a pointer or a scroll anywhere on the page while the listeners are attached.
NoteActivity ==
  /\ sitting # None /\ tab = "shown"
  /\ sitting' = Active(sitting) /\ persist' = TRUE /\ quiet' = 0
  /\ UNCHANGED <<now, record, mounted, tab, resumeAt, tracker, late, saving, counted,
                 worked, opened, ended, finished>>

\* leaveForm, after abandonedCurrentStep.
Abandoned(t) == IF t.numbered /\ ~t.done THEN StepReported(t.step, t) ELSE t

LeaveForm ==
  /\ mounted /\ tab = "shown" /\ sitting # None
  /\ mounted' = FALSE
  /\ late' = IF saving /\ tracker # None THEN Abandoned(tracker) ELSE late
  /\ tracker' = None
  /\ sitting' = [Stopped(sitting) EXCEPT !.close = now]
  /\ persist' = FALSE /\ record' = sitting' /\ resumeAt' = now + Window
  /\ UNCHANGED <<now, tab, saving, counted, ghosts>>

-----------------------------------------------------------------------------
\* Finish waits for its save; the page may be left before it is answered.
Finish ==
  /\ mounted /\ tab = "shown" /\ tracker # None /\ ~saving
  /\ saving' = TRUE
  /\ UNCHANGED <<now, sitting, record, mounted, tab, resumeAt, persist, tracker, late,
                 counted, ghosts>>

\* entryCompleted of a tracker: refused for a row that was counted before.
\* Mutant of Accepts: only the tracker's own flag is looked at.
AcceptsM(t) == ~t.done
Accepts(t) == ~t.done /\ t.row \notin counted

Completed(t) ==
  /\ counted' = counted \cup {t.row}
  /\ finished' = [finished EXCEPT ![t.row] = IF @ = 2 THEN 2 ELSE @ + 1]
  /\ IF sitting = None THEN UNCHANGED <<sitting, persist>>
     ELSE sitting' = [sitting EXCEPT !.completed = @ + 1] /\ persist' = TRUE

FinishAnswered ==
  /\ saving /\ tab # "frozen" /\ saving' = FALSE
  /\ \/ \* the save failed
        late' = None /\ UNCHANGED <<tracker, counted, finished, sitting, persist>>
     \/ /\ late # None /\ late' = None /\ UNCHANGED tracker
        /\ IF Accepts(late) THEN Completed(late)
                            ELSE UNCHANGED <<counted, finished, sitting, persist>>
     \/ /\ late = None /\ tracker # None /\ UNCHANGED late
        /\ IF Accepts(tracker)
           THEN Completed(tracker) /\ tracker' = [AllReported(tracker) EXCEPT !.done = TRUE]
           ELSE UNCHANGED <<tracker, counted, finished, sitting, persist>>
  /\ UNCHANGED <<now, record, mounted, tab, resumeAt, quiet, worked, opened, ended>>

-----------------------------------------------------------------------------
\* persistTimer and resumeTimer fire; the timers of a frozen page do not.
PersistFires ==
  /\ persist /\ tab # "frozen"
  /\ persist' = FALSE /\ record' = IF sitting = None THEN record ELSE sitting
  /\ UNCHANGED <<now, sitting, mounted, tab, resumeAt, visit, quiet, worked, opened, ended>>

ResumeFires ==
  /\ resumeAt # None /\ now >= resumeAt /\ tab # "frozen"
  /\ IF sitting = None THEN resumeAt' = None /\ UNCHANGED <<sitting, record, persist, ended>>
                       ELSE EndSession
  /\ UNCHANGED <<now, mounted, tab, visit, quiet, worked, opened>>

\* handleVisibilityChange
Hide ==
  /\ tab = "shown" /\ tab' = "hidden"
  /\ IF sitting = None THEN UNCHANGED <<sitting, record>>
                       ELSE sitting' = Stopped(sitting) /\ record' = sitting'
  /\ UNCHANGED <<now, mounted, resumeAt, persist, visit, quiet, worked, opened, ended>>

Show ==
  /\ tab = "hidden" /\ tab' = "shown"
  /\ IF sitting # None /\ mounted
     THEN sitting' = Running([sitting EXCEPT !.activity = now], "shown") /\ quiet' = 0
     ELSE UNCHANGED <<sitting, quiet>>
  /\ UNCHANGED <<now, record, mounted, resumeAt, persist, visit, worked, opened, ended>>

\* handlePageHide: the page is frozen; a sitting that is open is reported.
PageHide ==
  /\ tab # "frozen" /\ tab' = "frozen"
  /\ IF sitting = None THEN UNCHANGED <<sitting, record, resumeAt, persist, ended>>
                       ELSE EndSession
  /\ UNCHANGED <<now, mounted, visit, quiet, worked, opened>>

\* reattachToSession: the row that is open counts as started in the new sitting.
StartedAgain == IF tracker # None /\ ~tracker.done THEN 1 ELSE 0

\* handlePageShow: a form that came back from the cache opens a new sitting.
PageShow ==
  /\ tab = "frozen" /\ tab' = "shown"
  /\ IF mounted /\ sitting = None
     THEN /\ opened < MaxSittings /\ opened' = opened + 1 /\ worked' = 0 /\ quiet' = 0
          /\ sitting' = Running([FreshSitting(opened + 1) EXCEPT
                                   !.visits = 1, !.started = StartedAgain], "shown")
          /\ tracker' = IF StartedAgain = 1 THEN [tracker EXCEPT !.numbered = TRUE] ELSE tracker
          /\ persist' = TRUE
     ELSE UNCHANGED <<sitting, opened, worked, quiet, tracker, persist>>
  \* a fetch of a frozen page is cut off
  /\ saving' = FALSE /\ late' = None
  /\ UNCHANGED <<now, record, mounted, resumeAt, counted, ended, finished>>

\* The document is gone: what is in memory is lost.  A reload or a link fires pagehide first,
\* a killed tab does not; sessionStorage survives, unless the tab was closed.
Unload ==
  /\ sitting = None \/ tab # "frozen"
  /\ sitting' = None /\ mounted' = FALSE /\ tab' = "shown" /\ resumeAt' = None /\ persist' = FALSE
  /\ tracker' = None /\ late' = None /\ saving' = FALSE
  /\ record' \in {record, None}
  /\ UNCHANGED <<now, counted, ghosts>>

\* The unit of the clock is minutes; a save is answered or given up within seconds.
Tick ==
  /\ late = None /\ now < MaxTime /\ now' = now + 1
  /\ quiet' = Min2(quiet + 1, Idle)
  /\ worked' = IF mounted /\ tab = "shown" /\ sitting # None /\ quiet < Idle
               THEN worked + 1 ELSE worked
  /\ UNCHANGED <<sitting, record, mounted, tab, resumeAt, persist, visit, opened, ended>>

-----------------------------------------------------------------------------
Next ==
  \/ EnterForm \/ LeaveForm \/ NoteActivity \/ Finish \/ FinishAnswered
  \/ \E r \in Rows : EntryStarted(r)
  \/ \E k \in Steps : StepChanged(k)
  \/ PersistFires \/ ResumeFires \/ Hide \/ Show \/ PageHide \/ PageShow \/ Unload \/ Tick

Spec == Init /\ [][Next]_vars

-----------------------------------------------------------------------------
\* Types of all variables.
TypeOK ==
  /\ now \in 1..MaxTime /\ {sitting, record} \subseteq Sitting \cup {None}
  /\ mounted \in BOOLEAN /\ tab \in {"shown", "hidden", "frozen"}
  /\ resumeAt \in Nat \cup {None} /\ persist \in BOOLEAN
  /\ {tracker, late} \subseteq Tracker \cup {None} /\ saving \in BOOLEAN
  /\ counted \subseteq Rows /\ quiet \in 0..Idle /\ worked \in Times
  /\ opened \in 0..MaxSittings
  /\ ended \in [1..MaxSittings -> 0..2] /\ finished \in [Rows -> 0..2]

\* A sitting is reported at most once, whichever of pagehide, the resume timer and the
\* recovery by a later visit comes first (endSession is one-shot and clears the record).
ReportedOnce == \A n \in 1..MaxSittings : ended[n] <= 1

\* The active time of the open sitting is the time the form was in front of a resident who
\* did something less than Idle ago: neither a hidden tab nor the list page nor a silent
\* stretch is charged (openActiveRun, closeActiveRun, noteActivity).
ActiveTimeExact ==
  sitting # None /\ tab # "frozen" => Stopped(sitting).active = worked

\* A sitting never reports more active time than it lasted (endSession's closedMs).
ActiveWithinDuration ==
  sitting # None => Stopped(sitting).active <= Duration(sitting, mounted)

\* While the form is on the page there is a sitting; while it is not, a sitting has its
\* resume timer: the timer of an earlier visit never ends a later one, and no sitting
\* stays open for ever (enterForm, leaveForm).
SittingFollowsForm ==
  tab # "frozen" =>
    /\ mounted => sitting # None /\ resumeAt = None
    /\ sitting # None /\ ~mounted => resumeAt # None

\* entries_completed never exceeds entries_started: both count the same achievements.
CompletedWereStarted == sitting # None => sitting.completed <= sitting.started

\* An achievement is reported as completed at most once, over all visits to it.
CompletedOnce == \A r \in Rows : finished[r] <= 1

\* One lr_question_left for every question of a pass, and all of them once it is complete.
EachStepOnce ==
  \A t \in {tracker, late} \ {None} :
    \A k \in Steps : t.left[k] <= 1 /\ (t.done => t.left[k] = 1)
=============================================================================

# UnlockEdv2: a TLA+ model

UnlockEdv2 is a learning management system for residents of correctional facilities. The backend
(`src/backend`, Go, gorm on Postgres) serves administrators and residents; the provider middleware
(`src/provider-middleware`, Go) runs background jobs it is sent over NATS; a React frontend
(`src/frontend`) keeps what a page shows, a dialog holds or a resident types until the server has
it; identities live in Kratos and Hydra. This directory holds TLA+ modules of the parts whose state
is changed by more than one actor (two administrators, a job, a page and the answers to its
requests), TLC configurations that check them on small instances, and theorems that TLAPS proves
for every instance.

## Inventory

| Component | State | Operations | Hard behaviour |
|---|---|---|---|
| Class lifecycle and enrollment (`handlers/classes_handler.go`, `handlers/class_enrollments.go`, `database/class_enrollments.go`, `database/program_classes.go`, `models/program_classes.go`) | `program_classes` (status, archived_at, capacity, deleted_at), `program_class_enrollments` (status, enrolled_at, enrollment_ended_at), `program_completions` | enroll, change enrollments, graduate, correct the enrollment date, edit, bulk change, archive, delete | handlers check first and write later with nothing locked; two paths change the status of a class and differ; hooks that run for some updates only |
| Activation job (`provider-middleware/program_classes.go`) | none of its own | query of the classes due, update by id | races administrators |
| Resident accounts (`handlers/user_handler.go`, `handlers/ory.go`, `database/users.go`) | `users` (deactivated_at, facility, kratos_id), Kratos identity, account history | transfer, deactivate, delete, reset and set the password, edit | a transfer keeps a transaction open while it changes Kratos and the history; transactions that lock in opposite order |
| Rooms and instructors (`database/rooms.go`, `database/instructor_conflicts.go`) | row locks; what is booked is derived from events and overrides | conflict check, with and without lock | lock order; check-then-write |
| Events and overrides (`database/class_events.go`, `handlers/class_events.go`) | `program_class_events`, `program_class_event_overrides` | create, reschedule, cancel, uncancel a series or a date | linked chains of overrides, date boundaries |
| Attendance (`pages/event-attendance/`, `database/events_attendance.go`) | rows of the page, `program_class_event_attendance` | open, mark, save | rows loaded before another instructor's save, from a cache of an earlier visit |
| Learning record (`pages/student/digital-transcript/`, `hooks/useTranscriptDraft.ts`) | the form, a queue of saves, sessionStorage, `learning_record_entries`; sittings and what they count | type, autosave, finish, leave, return, delete; idle, hide, reload | saves that overlap, answers lost, a tab closed at any moment |
| Console pages (`pages/admin/`, `pages/programs/`, `pages/class-detail/`, `pages/Schedule.tsx`, `components/`) | the rows an SWR key holds, dialogs, selections, buttons disabled while a request is out | open, choose, submit, close, filter, turn the page | answers that arrive after the dialog was left, for another row, or after a newer list |
| Open content (`pages/knowledge-center/`) | lists per kind, a sheet, timers, stars shown before the answer | feature, hide, add, retry, favorite | three lists of one thing; a request that says "flip" |
| Jobs (`tasks/`, `provider-middleware/handlers.go`) | `runnable_tasks`, NATS messages | schedule, run, finish | at-most-once messages, a handler out of time or killed |
| Videos (`provider-middleware/video_dl.go`) | `videos`, `video_download_attempts`, a bucket or the disk | add, download, retry, remove | a retry by the job racing one by hand; a download of several steps, each of which may fail |
| Programs, facilities | `programs`, `facilities`, offerings | archive, delete | guards read outside the write |
| Feature access | switches of a facility | toggle, copy to all | a switch of one facility answered while another is shown |
| Login, tab sessions, OIDC; websockets; provider imports; reports; migrations | | | see `PROJECT.json` for why they are left out |

## How the parts interact

- Administrators' requests run concurrently in the backend. A handler calls the database several
  times; only what one database function puts between `Begin` and `Commit` is a transaction, at
  Postgres' default READ COMMITTED. Between two calls any other request may run.
- The middleware shares the database with the backend: its activation job updates `program_classes`
  with a query of its own and takes no part in the checks of the handlers.
- A conflict check derives what is booked from `program_class_events` and their overrides; so does
  the calendar, with different code. Rooms and instructors have no bookings of their own.
- Closing a class touches its enrollments and completions, deleting one asks for its children;
  deactivating or transferring a resident ends his enrollments.
- gorm hooks (`BeforeCreate`, `BeforeUpdate`, `AfterUpdate`) are part of an update or are not,
  depending on how the caller writes it: by struct, by map, by raw SQL.

- A page fetches rows through SWR: one key per query, no retry, no refetch on focus. A change is a
  request of its own, after whose success most pages fetch again. The API client waits up to a time
  and reports every refused, failed or timed out request as `success: false`, so that a page may be
  told of a failure that was carried out.
- A dialog that is left does not take its request back: the answer finds the page as it is by then.

What is hard, then: reads a decision rests on that are stale at the write; row locks taken by some
handlers and not by others; paths to one state that run different hooks; long sequences of edits of
one class; in the pages, answers and lists out of order, state shared by dialogs, and work kept in a
tab that may be closed. `PROJECT.json` lists each hazard at its line.

## What makes each part correct

| Part | Properties | Where |
|---|---|---|
| Enrollment | closing a class leaves nobody enrolled; a deleted class has no enrollments; a completed resident has a completion; capacity is respected; ends and end dates agree | `ClassEnrollment` |
| Booking | no room and no instructor is used twice at a time; lock waits run in a circle only through the row of an administrator who signs; every request is answered | `RoomBooking`, `Bookings` |
| Series | a class has one series per date whatever is rescheduled, cancelled, restored one after the other; of requests at once, two series on a date come only of an overtaken reading | `RoomBooking` |
| Overrides of moved sessions | no session is lost or doubled however it is moved, cancelled and restored; one shown as moved shows where it went | `SessionLinks`, `Sessions` |
| Series changed from the calendar | every day the class meets belongs to a series | `Schedule` |
| Learning record | a row is created once; "Saved" is true; Finish ends and keeps the last edit | `LearningRecordEditor` |
| Learning record, first page | the list and the server agree when nothing is under way; a saved PDF holds the entries it was asked for | `LearningRecordHome` |
| Sittings | reported once, with the time worked; entries completed were started, once | `LearningRecordSitting` |
| Pages | no second submit; the list is fresh when all is quiet; what is sent is what was meant, named, marked | `Screen` and the page modules |
| Accounts | the database, Kratos and the account history agree when nothing is under way and nothing ended halfway; every request is answered, no row stays locked | `ResidentAccount` |
| Jobs | a task does not stay running for ever, whatever is lost | `VideoDownloads` |
| Videos | what is offered has its file; the attempts end; a video becomes available or is given up | `VideoDownloads` |
| Programs and facilities | nothing active remains under an archived or deleted program | not modelled: the pages are in `ProgramPage` and `Facilities`, the races of their guards are not |

## ClassEnrollment

| Model | Code |
|---|---|
| `class[c]` | the `program_classes` row: status, archived, capacity, deleted |
| `enrollment[r]`, `r` = class, resident, number | a `program_class_enrollments` row; nothing forbids a resident two rows in a class, so rows are numbered |
| `completions[c, u]` | number of `program_completions` rows |
| `deactivated` | residents with `deactivated_at` |
| `request[a]` | what the request of administrator `a` has read: one request at a time each |
| `job` | what the activation job has read |

`EnrollStart`, `EnrollCheck`, `EnrollCount`, `EnrollHook`, `EnrollInsert` are the successive reads
and the insert of `handleEnrollUsersInClass`; `UpdateStart`, `UpdateHook`, `UpdateWrite`,
`GraduateFind`, `GraduateWrite` those of a status change; `DateStart`, `DateWrite` the correction of
an enrollment date; `EditStart` to `EditWrite` the PATCH of one class; `DeleteStart`, `DeleteWrite`
its deletion. The bulk change, the bulk archive, deleting an enrollment, deactivating and
transferring a resident are one transaction each. `JobQuery` and `JobActivate` are the two halves
of `activateScheduledClasses`.

Abstractions: dates are "set" or "not set"; the six "Incomplete" statuses are one, save
"Transferred"; which scheduled classes are due is chosen at random; creating a class, the change
log, the program and facility of a class and conflicts between a resident's classes are left out.

## RoomBooking and Bookings

| Model | Code |
|---|---|
| `event[e]` | a `program_class_events` row: class, room, instructor, first and last date of its rule, is_cancelled |
| `override[e][d]` | the override of event `e` for date `d`: none, cancelled, or held, perhaps with a room and an instructor of its own |
| `holder[x]` | the transaction that holds the row of room or instructor `x` FOR UPDATE |
| `request[a]` | what the request of administrator `a` will have checked (a `ConflictCheckRequest`), has read (`read`) and will write, and the rows it shares (`shares`) |

A request starts (`CreateStart`, `EditStart`, `AddStart`, `RescheduleStart`, `CancelSeriesStart`,
`UncancelSeriesStart`, `OverrideStart`, `ChangeDateStart`), an edit reads a second time (`EditRead`),
the locking handlers take the room row and then the instructor row (`Lock`), the conflict check
answers 409 or lets the request go on (`Check`), a reschedule or cancellation reads the rows of the
class (`SeriesRead`), and one of the writes commits. Writing is by the ids that were read: a row that
another request has deleted since stays deleted, one it has inserted since is not seen (`Capped`,
`CutShort`, `Gone`). Handlers of a single date that check nothing and name no other row (`CancelDate`,
`DeleteOverride`, `UncancelOverride`) are one step.

A foreign key that is written takes a key-share lock on the row it names (`Referenced`), in the order
of the keys (`Turn`), and keeps it until the commit: `Refer` waits while another transaction holds that
row FOR UPDATE, and `Lock` while another transaction shares it. Instructors are administrators, so that
`Instructors` and `Admins` may have members in common, and a write also names the row of its sender
(`Signs`): `create_user_id` and `update_user_id` of events and overrides (migration 00062, stamped by
`DatabaseFields`, `models/users.go:38-52`) and `change_log_entries.user_id` (00049). The columns of the
same name in `program_classes` have no foreign key. Two instructors who edit each other's classes thus
wait in a circle, and Postgres ends one of the two (`DeadlockEnds`): its request is answered 500.

`RoomBooked` and `InstructorBooked` are what a conflict check believes, `Uses` is what the calendar
shows; that they differ for cancelled series is one of the findings. The constant `Handlers` says
which requests administrators send, so that a run can ask what a set of handlers guarantees;
`OneEditorPerClass` says that no two requests work on one class at a time.

Abstractions: all sessions are at the same hour and a series meets on every date of its span; the
year a conflict check looks at covers all dates; the list of conflicts is only empty or not. The
key-share locks of a write are steps of their own, the rows change in one step at its commit, and the
locks on the rows of events and classes themselves are left out. Not in this module: sessions
moved to another date and the links between overrides, the guard on closed classes, deletion of a
class, attendance deleted with a date, the class dates kept in step with the series.

`Bookings` is the abstract specification: a table of who has booked which resource on which date,
in which a class may change its own bookings to any set that no other class has a part of.
`RoomBooking` maps to it by `booked[c] = BookedBy(c)`.

## Screen and the pages

A page of the frontend is a module over four variables, declared in `Screen`:

| Model | Code |
|---|---|
| `server` | the rows the page is about, in the database |
| `shown` | the data of the SWR keys the page uses; `None` while a key loads |
| `wire` | requests and fetches sent and not answered: what they say, which rows, and whether the server has carried them out |
| `ui` | the state hooks of the page: dialogs and for whom they were opened, selections, fields, which buttons are disabled (`busy`) |

Every request takes three steps of its own: it is sent (`Send`), the server carries it out or
refuses it (`Served`), its answer arrives (`Settles`, `SettlesAndFetches`) or never does (`Fails`: refused, lost before
or after the server acted, timed out: the page cannot tell which, and neither can `api.ts`). A fetch
takes two: the rows are read (`ListServed`) and arrive (`ListArrives`); `Refetch` is SWR's rule that
a later fetch of a key supersedes the one on the wire. Between any two of these the user may leave the dialog, open
another, filter, turn the page. `ui.doubt` records that an answer was lost after the server acted; the page
shows old rows until its next fetch, which no page promises to prevent.

| Module | Page and code | State and actions worth knowing |
|---|---|---|
| `Residents`, `ResidentImport` | `admin/StudentManagement.tsx`, `components/residents/` | filter, page number, selection, eleven dialogs; the import validates a file and then creates |
| `Admins` | `admin/AdminManagement.tsx` | all dialogs share `selectedAdmin` (`ui.item`); a selection for bulk reset and bulk delete |
| `ProviderUsers` | `admin/ProviderUserManagement.tsx`, `handlers/user_matching.go` | two lists from which sections are derived; confirmations held back until "Apply" |
| `ProviderPlatforms` | `admin/ProviderPlatformDetail.tsx` | the OIDC client, which recreation deletes first |
| `Facilities` | `admin/FacilityManagement.tsx` | a deletion is refused while programs or residents are there; others put them there (`Occupy`) |
| `FeatureControl` | `admin/FeatureControl.tsx`, `database/facility_feature_access.go` | one key per facility; sub-features under their parent |
| `Programs`, `ProgramPage` | `ProgramsPage.tsx`, `programs/ProgramOverview*.tsx`, `program-detail/` | polling while Canvas loads; archiving asks for open classes and then confirms |
| `ProgramForm` | `programs/ProgramManagementForm.tsx`, `database/programs.go` | fields filled and cleared, checkboxes of facilities, of which one with classes to run only warns; the program arrives, perhaps changed elsewhere, under what was typed |
| `ClassForm`, `EditClass`, `ClassSchedule` | `programs/ClassManagementForm.tsx`, `class-detail/EditClassModal.tsx` | rules are written by one, read back and written anew by the other (`Created`, `Read`, `Rewritten`); `Meets` is what such a rule stands for |
| `ClassRoster`, `EnrollResidents`, `AddEnrollments`, `EnrollmentDetails` | `class-detail/RosterTab.tsx` and its modals, `programs/AddClassEnrollments.tsx`, `programs/ClassEnrollmentDetails.tsx` | selection, graduation, questions about conflicts, seats |
| `Sessions`, `SessionLinks` | `class-detail/SessionsTab.tsx`, `session-utils.ts`, `database/class_events.go` | the overrides behind moved sessions with their links; undoing removes all that are linked (`Chain`), the tab follows them to where each session ended (`Walked`, `End`), both as the least set closed under the links |
| `Schedule` | `Schedule.tsx`, `components/schedule/` | the calendar; one session or all that follow; several series of one class |
| `Attendance` | `event-attendance/index.tsx`, `handlers/events_attendance_handler.go` | rows loaded once a visit, marked, validated and saved; another instructor saves too |
| `KnowledgeCenter`, `Favorites` | `knowledge-center/` | lists per kind, toggles guarded by a second, polls with doubling delays; stars turned before the answer |

The modules keep every state change, guard and early return of these pages and abstract the data:
a name, a reason, a time of day or a search text is left out unless a property is about it; a list
shows the rows of one page; toasts are left out. What the server does is translated from the
handler where the property depends on it (matching, features under a parent, linked overrides,
archive and delete guards) and otherwise is "carried out or refused".

Assumed of the outside: the server answers a request at most once; a browser runs the handlers of a
page one at a time; SWR's two second deduplication lets no fetch be dropped, except where a module
says so (`ChooseDeduped` of `FeatureControl`).

## The learning record: LearningRecordEditor, LearningRecordSitting, LearningRecordHome

| Model | Code |
|---|---|
| `server`, `used` | `learning_record_entries`, with the unique index on the client's id |
| `stored` | the entry session in the browser's storage |
| `entries`, `known`, `shown`, `written` | committed state of the hook, `entryBackendIds`, the row on the screen, `lastWrittenRef` |
| `timer`, `saves`, `finishing`, `label` | the autosave's debounce, `persistQueueRef`, Finish under way, the label |
| `strays` | requests that nobody waits for any more and that may still be carried out |
| `sitting`, `record`, `resumeAt`, `persist` | the session of `learningRecordSession.ts`, its copy in sessionStorage, its two timers |
| `tracker`, `late`, `counted` | `LearningRecordTracker` of the visit, that of a visit left while Finish saved, entries already completed |
| `tab`, `mounted` | shown, hidden or frozen; the form is on the page |

`LearningRecordHome` is the first page of the record (`DigitalTranscriptHome.tsx`), a page over the
variables of `Screen`: the entries are read once, when it is opened, and a fetch that fails reads as
no entries; a deletion is confirmed in a dialog, and the row leaves the list when the server has
answered; PDFs of one entry or of all are drawn off screen, entry by entry, while the page goes on
(`Download`, `DownloadAll`, `NextPage`). A deletion that is under way when the page is left is
forgotten there and may still be carried out (`Visit`, `StrayEnds`).

The editor's faults are those the code meets: a create or update refused, lost before or after the
server acted (`SaveFails`), a page left with requests on the wire (`Leave`, `Abandon`) that arrive
later (`StrayEnds`), a row deleted from the list. The sittings have the browser's: idling, a hidden
tab, a page frozen and shown again, a reload at any moment with the storage written or not
(`PersistFires`, `Unload`). Variables said to be "in no variable of the code" record what happened
so that a property may compare it with what the code counts.

## VideoDownloads

| Model | Code |
|---|---|
| `bucket` | whether the service was started with `S3_BUCKET_NAME` |
| `rows[v]` | the `videos` row with its attempts: none, present or soft-deleted, `availability`, younger than half an hour |
| `files[v]` | where the file is: on disk, under a key of the bucket |
| `inbox` | messages published to NATS and not taken |
| `workers[w]` | the handler of one of three subscriptions (added videos, the retry job, a retry by hand): its next step, its video, what is left of its list |
| `task` | the scheduler's `runnable_tasks` row of the retry job |

`AddVideo`, `RetryVideo`, `DeleteVideo` are the requests of administrators, `RunTask` the hourly
scheduler. A handler takes a message (`Take`), creates rows (`Create`) or reads them (`Load`; the job
counts a failure for a row that is gone by then, whose marking brings it back, a retry by hand only
logs it), then
`Download`, `Store`, `Unlink`, `Save`; a failure is `Count`ed, `Mark`ed and `Record`ed in three
statements. Between any two steps another handler may work on the same video, time may run out
(`TimeOut`), the middleware may restart (`Restart`); a message may be lost (`Lose`).

Abstractions: one video in the run, because rows, files and attempts of two have nothing in common
but the order of a list; one message of a kind waits at a time; one instance of the middleware; the
download itself succeeds or fails; titles, thumbnails and `syncVideoMetadata` are left out. A video
ceases to be young after the handler that created it ran out of its own half hour, as both are
counted from about the same moment.

## ResidentAccount

| Model | Code |
|---|---|
| `user` | the `users` row of one resident: there (not soft-deleted), facility, `kratos_id` set, deactivated |
| `identity` | the facility in the traits of his identity in Kratos, `None` without one |
| `history` | the facility his account history names last |
| `enrolled` | facilities with a class he is enrolled in |
| `request[a]` | what the request of administrator `a` does next, what it has read, the rows it locks |

`EndEnrollments`, `TakeRow`, `ReadIdentity`, `PutIdentity`, `AddHistory`, `Commit` are the statements
and calls of `handleResidentTransfer`, in this order; `DeactivateUser` runs the first two the other
way round and commits. A deletion removes the identity (`RemoveIdentity`) and then the row
(`DropUser`). A reset writes the identity or, when the row has none, looks the user up (`FindUser`),
creates the identity, gives it a password and links it (`CreateIdentity`, `PutIdentity`,
`LinkUser`). A resident who sets his own password ("set") and an edit of his name ("edit") are there
for what they write besides: the traits as they were read, the row as it was read. An update waits
for the rows another open transaction has updated (`Granted`); Postgres ends one of two that wait for
each other (`DeadlockEnds`). Any statement or call may fail (`Fails`), Kratos may act and its answer
be lost (`AnswerLost`), a commit may fail and be compensated (`CommitFails`), the backend may restart
(`Restart`).

`half` records that a request ended after it had changed one store and not the other. The code has no
way to repair this, so `StoresAgree` speaks of behaviours without it, and the table of
disagreements says what is left behind.

Abstractions: one resident; of the traits only the facility, of the row only what is listed (the
lockout after failed logins, `password_reset`, names are left out); requests on the way to be
authorized are not looked at; the history is the last transfer only.

`MCServices` composes both for TLC: they share no state, so a behaviour is one of either.

## Runs

Passing runs:

| Run | Question | Bounds and why they are enough |
|---|---|---|
| `serial` | one administrator and the job: closing and deleting, completions, seats, ends and end dates | two residents and one seat, so that the seat can be taken, refused and freed; two rows in all (`FewRows`): one of each resident or two of one; one class, because two make the run too long: what relates two classes (the bulk change, an enrollment id under the path of another class) is covered by the theorems, which hold for any number |
| `locked` | the locking handlers with two administrators: nothing is booked twice, the booking table is implemented, every request is answered | two classes and rooms, two administrators who are also the two instructors, one date: a double booking needs two classes and one resource, a lost lock two requests; the second resource gives an edit somewhere to go, and each editing the other's class is the deadlock that must end |
| `waits` | every kind of handler that locks or writes: a circle of waits | two rooms, one instructor, two requests, one of them sent by the instructor: a circle needs two rows and two requests, and an edit needs a second room to change to or a class left without an instructor (`unassign`). Circles between two instructors happen in `locked`, where they must end. Cancelling and restoring a series are left out: they write as a reschedule does, without the check before |
| `series` | reschedule, cancel, restore one after the other: one series per date, and the restored series finds its room free | two classes and rooms, three events and three dates: a cut before, inside and after two earlier series |
| `series_race` | edit, reschedule, cancel, restore by two administrators at once on one class: when does a date get two series | the same, one class, one room |
| `services` | videos under three handlers, lost messages and deaths; the account of a resident under two administrators, failures and lost answers | two attempts before a video is given up, two requests and one fault, the retry job as often as it likes; three requests of two administrators and one mishap, so that a circle of row locks, an overlap and a request after a failed one all happen |
| `learning` | the learning record with its editor, its sittings and its first page; the management of open content; favorites | see below |
| `console` | nineteen pages, each with its dialogs, requests and fetches in any order | see below |

The bounds `MaxRows`, `MaxCompletions`, `MaxEvents` and `Horizon` cap what would grow without end:
a request that would insert does not start when no row is left. In `serial` a
class is completed again only while a completion may be added. The symmetry used in the runs on
safety permutes classes, residents, rooms, instructors, administrators; `locked`, which checks
liveness, uses none, nor do `learning`, `console` and `services`. Deadlock is checked in the runs of
`MCClassEnrollment` and `MCRoomBooking`. In `learning`, `console` and `future_lost` it is not: a
page may stop for good, because a user may leave it and because the bounds end the clicks. Nor is
it in `services`, where the bounds end the requests about an account.

`MCConsole` and `MCLearning` open one page or one part at a time; a page's state ends with it in
the code too, so the pages share nothing but the server, where each page sees only its own rows.
`Visited` names the pages of a run: to look at one, give the constant that one.

| Bound | Value | Why it is enough |
|---|---|---|
| `MaxWrites` | 1 | a request of one dialog on the wire while one of another is sent: two answers in either order; and two of one dialog that does not disable its button |
| rows | two residents, administrators, facilities; three candidates for two seats (`Capacity`) | an answer for one while the dialog is open for the other |
| `Explored` (`Residents`, `Admins`) | three and two sets of dialogs | the dialogs of one behaviour are those of one set; a set has those that share state or rows |
| `ClassDays`, `ClassRooms`, `LastDay` (`ClassForm`) | one weekday, one room, three days | rules differ by cadence and interval, of which there are enough; a second room is a second name |
| `MaxOpenings`, `MaxEdits`, `Begun`, `Picked` (`EditClass`) | 2, 1, custom, no-repeat | a second opening before the answer to the first; one edit tells touched from untouched |
| `SessionDays`, `RegularDays` (`Sessions`), with `Shared` and `Hurried` | four days, two of them the class's | a session moved on twice and back; see below for the two constants |
| `CalendarDays`, `CalendarRegular`, `MaxActs` (`Schedule`), with `Forward` | three days, two of them the class's, none following another (`DaysApart` below); two requests | one cut, and a second before, on or after it |
| `MaxVisits`, `MaxChanges` (`Attendance`) | 2, 1 | a second visit from the cache of the first, while another instructor saves |
| `MaxAttempts` (`Programs`), `Polls`, `MaxClients`, `Limit` | 2, 2, 2, 1 | the last of a bounded number and one before it; the code has 10 attempts and 5 ticks |
| `MaxAttempts`, `MaxRequests`, `MaxFaults` (`services`) | 2, 2, 1 | the first failure, the last and the one too many of three handlers at once; a video added and then retried or removed; one fault at any step. The code gives a video 5 attempts |
| `MaxChanges`, `MaxMishaps` (`services`) | 3, 1 | two requests that overlap and one after them; one failure, lost answer or restart at any step |
| `Overlaps` (`MCServices`) | three sets of kinds of requests | those under way at a time are all of one set: what the code keeps apart or orders; the others are in the table of changes |
| `Places`, `Polls`, `MaxManaging` (`KnowledgeCenter`) | one facility, 2, 2 | a facility sees what it is shown or not; the first poll and the last; a change answered after another was begun |
| `Items`, `MaxClicks` (`Favorites`) | 2, 3 | two clicks on one star whose requests cross, and one on another |
| `Limit`, `Places` (`ProgramForm`) | 2, 1 | a second program can be created, so that one click too many would show; one facility is checked, unchecked, held back |
| `MaxQueue`, `MaxStrays`, contents | 2, 1, blank and complete | an autosave on the wire and the save of Finish behind it, and one request of an earlier visit |
| `Entries`, `MaxHomeActs` (`LearningRecordHome`) | 2, 4 | one entry deleted while the other, or both, are drawn, and a second visit; four confirmations, PDFs and visits |
| `MaxTime`, `Inactive`, `Window`, `MaxSittings`, `MaxVisits` (`LearningRecordSitting`) | 4, 1, 2, 2, 2 | a sitting, a pause longer than idling, one longer than the window, and a second sitting |

Two constants confine a run to what the code keeps. `Hurried = FALSE` (`Sessions`, `Favorites`): the
user does not act on rows that are known to be old, and after an answer that never came loads the
page again. `Forward = TRUE` (`Schedule`): changes of all future sessions are made on the series that runs to the last day
only. With the other value TLC finds what the next two tables list.

Runs that TLC must find violated, each a claim of a comment, a label or a test that the code does
not keep; `PROJECT.json` quotes the claim under "findings":

| Run | What happens |
|---|---|
| `completions` | completing a class writes a completion for residents completed earlier too |
| `cancelled_blocks` | a cancelled series still blocks its room and instructor. `series` shows what that is good for: restoring a series checks nothing and relies on it |
| `finish_edit` | an edit back to what an earlier save wrote, while a later one is on the wire, is taken for saved; Finish leaves the page and the server keeps the later one |
| `future_lost` | a change of "all future sessions" begins a series that ends where an earlier change had cut the edited one, and deletes the series beyond: those sessions are gone |

The passing runs and the theorems leave out what the code does not promise or does not keep. These
disagreements were met while modelling; each appears when the named constant of a run is changed:

| Change | What TLC then finds |
|---|---|
| `serial` with two administrators | `NoEnrolledInClosedClass`: a resident is enrolled by a request that checked the class before it was closed; `DeletedClassEmpty`: one is enrolled between the delete guard and the deletion |
| `locked` with handler `add` | `NoDoubleBooking`: two new events are checked without a lock, then both are written |
| `locked` with `OneEditorPerClass` false | `NoDoubleBooking`: an edit writes a room that equalled its first reading of the event and not its second, unchecked |
| `locked` with `add`, one administrator, four events and two dates | `NoDoubleBooking`: an edit gives the instructor of the first event to the others, unchecked |
| `locked` with `schedule`, one administrator and two dates | `NoDoubleBooking`: an edit that moves the schedule is not checked |
| `series` with `override` and two dates | `RoomsNotDoubleBooked`: a date held elsewhere gives the room up, and restoring the series takes it back unchecked |
| `series_race` with `OneSeriesPerDate` as invariant | it is violated: two requests read the rows of the class, both cut them and insert a series of their own, although the comment of `CreateRescheduleEventSeries` (`class_events.go:80-83`) lets the new series own all sessions from the cut on |
| `waits` with all waits counted (`WaitsFor` for `WaitsBesidesSigning`) and two instructors | a circle: each edits a class, holds the other's row as the new instructor and signs with his own |
| `Sessions` with `Hurried = TRUE` | `NoSessionLost`: a session is moved from a row that has changed since |
| `services` with `Overlaps` `{"transfer", "reset"}`, `{"transfer", "set"}` | `StoresAgree`: the traits are read, the transfer writes the new facility into them, the password is written with the old one (`ory.go:163-177`) |
| `services` with `Overlaps` `{"transfer", "edit"}` | `StoresAgree`: the edit writes the row as it was read before the transfer, facility included (`user_handler.go:318`, `:340`) |
| `services` with `Overlaps` `{"delete", "reset"}` | `StoresAgree`: a resident without an identity is deleted while a reset creates one, which stays without a resident |
| `console` with `CalendarDays = {1, 2, 3}`, `CalendarRegular = {1, 2}` | `NoSessionLost` (`EveryDayKept`): all sessions from the second day on are changed, the old series ends at the midnight that begins the day before its new last day, and the first day belongs to no series |
| `Sessions` with `Shared = {3}` | `NoSessionLost`: moving a second session to a day overwrites the link of the first (`class_events.go:379`) |
| `Favorites` with `Hurried = TRUE` | `QuietIsFresh` (`StarTrue`): a star from the cache is clicked, and the server's flip goes the other way |
| `EditClass` with `Begun = {"no-repeat"}` | `UntouchedStays`: a class created without repetition (`FREQ=DAILY;COUNT=1`) is read as daily, and saving it untouched repeats it every day; one created for every two weeks (`INTERVAL=1;INTERVAL=2`) is read as weekly |

These properties are stated in the modules and are violated as they stand, so that no run has them:

| Property | What happens |
|---|---|
| `ClassEnrollment.ActivationStamps` | a class activated by the single PATCH, which updates by struct, leaves `enrolled_at` empty, against the comment at `models/program_classes.go:76` and the test at `classes_test.go:223`, which uses the bulk endpoint |
| `Residents.PasswordIsTheirs` | the answer of a reset appears under the name of the resident the dialog was opened for next (`ResetPasswordModal.tsx:93`) |
| `ProgramPage.KeepsOffers` | a facility administrator's edit sends no facilities and the server withdraws the program from all of them (`EditProgramDialog.tsx:111`, `programs.go:216`) |
| `EnrollResidents.SentWereWarned`, `AddEnrollments.SentWereWarned` | residents are enrolled with `confirm: true` whose conflicts were never shown: answers out of order, or a selection changed between the refusal and "Enroll Anyway". The first needs more than one question on the wire |
| `Attendance.RefusedShowsWhy` | a save is refused with "fix the highlighted fields" and no field is highlighted (`event-attendance/index.tsx:279`) |

One comment is narrower than the code and than the property that is checked: `models/program_classes.go:178`
has the end date set "if entering a terminal state while class is Active|Paused". `BeforeUpdate`
(`:231-233`) stamps it whatever the class is, which `EndedStamped` states; a deactivation could not do
otherwise, as it gives the hook no class.

Four more are in the models of the backend and in no property. A transfer ends an enrollment by raw
SQL and leaves no end date, which is why `EndedStamped` names it as the exception. The activation
job updates by the ids it read, so it activates a class cancelled after its query (`JobActivate`). A
status update may enroll a deactivated resident again (`UpdateStart`), which the enrolling handler
refuses. An override for a date after a later cut survives it (`Capped`), although the comment of
`CreateRescheduleEventSeries` lets the new series own all sessions from the cut on.

Further behaviour of the pages that is in the models, where no comment, label or test says otherwise:

- Late answers: they close the dialog opened since for someone else, clear the selection made since,
  empty the form filled since, show a deleted client's secrets, navigate away
  (`Residents`, `Admins`, `ProviderPlatforms`, `Programs`, `EnrollmentDetails`, `Attendance`); in the calendar they leave flags by
  which a dialog pops up for the session selected next (`Schedule`).
- Selections: a resident deactivated or deleted alone stays selected (`ResidentDialogs.tsx:281`);
  deleting the last row of the last page leaves an empty page; `toggleAll` compares sizes only.
- Matching: confirmations made while an apply is on the wire are dropped with its answer; a
  suggestion may change between confirmation and apply, and the confirmation, kept by the Canvas user
  alone, then stands for a pair nobody confirmed (it is shown as pending); one resident may be linked to two users.
- Programs: edit and archive are two requests of which the first may succeed alone; two status
  changes may land in either order. The form starts over when the program arrives under it
  (`ProgramForm.Reset`): `reset()` also enables the button of a save under way, so an edit may be sent
  again, though a creation may not; until the program is there an edit starts from an empty form.
  The server does not look at classes when it withdraws a program from a facility, and a facility
  it fails to add at creation is only logged.
- Classes: a rescheduled series is rewritten from its closed first event; the roster is not fetched
  when the header closes the class; unenrolling is offered for active classes and always refused.
- Sessions: moving away and back leaves a "Cancelled" session; restoring a cancelled series twice
  gives two series a day; overrides after a later cut stay with the old series. The end of a series is sent as midnight at which
  the day before begins (`useChangeEventField.ts:88-99`), while the server compares dates.
- Attendance: an early check-out of someone "Present" is stored as "Partial"; edits made during a
  save are lost; the check of the date and the write are two steps (`events_attendance_handler.go:66-130`).
- Open content: the toggles flip the server's value, so a click after the guard of one second flips back; two
  chains of polls share one flag; a refused star overrides later lists.
- Videos: adding a video again that was removed fails without a word, because its soft-deleted row
  keeps the unique id and url; a video removed while it is downloaded comes back, because `Save`
  inserts what it does not find; `videoExistsInS3` asks for "/videos/..." while the upload writes
  "videos/..." (`video_dl.go:495`), so no upload is ever found (were it found, nothing would mark the
  video available); the ten minutes between attempts (`video_dl.go:337`) hold nothing back, because
  a failed attempt leaves "has_error" and the check is of "processing".
- Accounts: a history that cannot be written rolls the database back and leaves the new facility in
  Kratos (`user_handler.go:513-516`); when the commit fails and the compensation succeeds,
  `err.Error()` is called on nil (`:519-521`) and the history keeps the transfer. An identity created
  and not linked makes every later reset fail, since the username is taken; one deleted while the row
  stays makes every later deletion fail (`ory.go:54-58`). A transfer ends the enrollments at the
  facility the page named (`curr_facility_id`), which after another transfer is not where he is.
  `handleResetPassword` returns without a rollback when the user is not found (`auth.go:363-368`).
- Learning record: a deleted entry comes back from the stored session; blank rows pile up because
  `findReusableBlankDraftRow` finds none; a create whose answer was lost is refused when retried; a
  failed save is retried by the next edit only; an update of a row deleted elsewhere succeeds without effect; a reload
  after a crash may report a sitting with a stale end.

Every property of a passing run has a mutant in `PROJECT.json`: a plausible slip in the code that
makes TLC find the property violated under the same configuration. They stand in the modules next to
the definition they vary, under the same name with the suffix `M`. Where a property of `console` or
`learning` joins what several modules claim, `PROJECT.json` has a mutant of one of them.

## Fairness

`Answered` (run `locked`) needs it. `FairSpec` of `RoomBooking` asks for strong fairness of
`Advance(a)` for each request: a handler that has started goes on as long as it can, because it runs
in a goroutine of its own, and one that waits for a row lock is granted it in the end, because
Postgres grants row locks in the order of the waiters. Strong rather than weak fairness is what the
queue gives: the lock may be taken and released by others many times while a request waits. A lock
FOR UPDATE may have to wait for several that share the row; with two administrators there is one such,
so that sharers cannot take turns for ever. `DeadlockEnds(a)` is weakly fair: Postgres looks for a
deadlock after waiting `deadlock_timeout`. Nothing is assumed about administrators: they need never
send a request.

`FinishEnds` (run `learning`) and `FinishKeepsLastEdit` (run `finish_edit`) assume weak fairness of
`Settles` of the editor: the save at the head of the queue is answered or fails. `api.ts` aborts a
request after its timeout, so a save that is sent always settles. Nothing is assumed about the
resident, the timers or the network.

`VideosSettle`, `TaskReleased` and `RequestsAnswered` (run `services`) assume, in `MCServices`:
weak fairness of `RunTask`, because the scheduler comes round every hour whatever the task says; of
`GrowsOld`, because time passes; of each handler's steps (`Works`), because it runs in a goroutine of
its own and calls with timeouts, and NATS hands a subscription the messages it has; strong fairness
of a request's steps (`Advances`), because Postgres grants row locks in the order of the waiters; weak
fairness of `DeadlockEnds`, because Postgres looks for deadlocks after a second. Faults are bounded
and never fair: nothing depends on their happening or not. Nothing is assumed about administrators.

## Proofs

The modules named `...Proofs` hold theorems for every value of the constants, checked by TLAPS. They
assume what the modules assume of their constants (`...Assumption`, evaluated by TLC in each run):
bounds that are natural numbers, a finite set of residents, disjoint rooms and instructors, `None` and
`Keep` different from everything they stand beside. Some are stronger and say so: `EditorAssumption`
lets at most two saves wait, `AccountAssumption`, `SittingAssumption` and `HomeAssumption` keep `None`
apart from the records and lists it stands for. What a theorem needs besides is its hypothesis: `OneEditorPerClass`, one
administrator (`\A a, b \in Admins : a = b`), or the kinds of requests that are sent.

`ClassEnrollmentProofs`

- `TypeCorrect`: every step keeps every variable in its domain.
- `EndedStampedHolds`: an enrollment ended through the hook carries its end date, for any number of
  administrators. Inductive with the type invariant: every writer of a terminal status runs the
  hook, and what a request remembers between its steps does not include the row it writes.
- `LoneAdministrator`, `LoneDeletedClassEmpty`, `LoneGuardStillHolds`: with one administrator, no
  closed class has an Enrolled resident, no deleted class an enrollment. Neither is inductive: a
  request that has passed its check and not yet written could spoil both. The strengthening is
  `GuardStillHolds`, which says of each step of a request that what it checked is still so. The
  theorems need the single administrator (see the table of changes above) and allow the job at any
  moment: it moves classes out of any status into Active only, so it closes none and deletes none.
- `LoneAdministratorRecords`, `LoneEnrolledNotEnded`, `LoneCompletedHasRecord`: nobody Enrolled has an
  end date, everybody Completed a completion. `SoundRows` says both row by row; `StatusReadsHold`
  adds what makes it inductive: who is enrolled again was seen in a class that runs, and whoever a
  graduation writes was found when it read.
- `LoneSeatsRespected` (an action property): enrolling never oversells a class. `SeatsReadHold` says
  that the seats counted by a handler are still there when it inserts: the job takes none, and
  only the handler itself could.

`RoomBookingProofs`

- `TypeCorrect`.
- `LockedNeverDoubleBooked`: the handlers that check under the lock (create, edit without a
  schedule, cancelling a date) never book a room or an instructor twice, as long as no two requests
  work on one class. The inductive invariant `BookingInv` adds: a class has one event; a row in
  use has a class; no date is held by an override; no two requests share a class; what an edit read
  still is so, and what it will write was there before or is to be checked; between its check and
  its write a request holds the rows it checked and no other class uses them. The last part is
  what the lock is for: another request cannot start to use a checked row, since its write needs
  that row.
- `LockedImplementsBookings`: under the same assumption `Spec => BookingsSpec`. Each step changes
  rows of one class (`ChangesOnly`), so the bookings of the others stay, and `NoDoubleBooking` after
  the step makes it a `Book` of the abstract table.

- `CirclesBySigningHolds`: while no two requests work on one class, whatever the handlers, no circle
  of waits is left when those for the row of an administrator who signs are taken out: of the one
  who waits to sign, or on the one who has signed. Requests hold rows only while they
  check or write, of those they check, and the instructor's only after the room's
  (`HoldersInOrder`); a write holds all it checked (`WritersHold`); nobody shares a row that is held
  (`SharedUnlocked`); and a write that did not lock its room before shares it before the instructor
  (`SharesInOrder`). So who has an instructor's row waits for no other row but to sign, who
  has a room's waits at most for such a one, and no set of waiting requests is closed. An edit needs
  the single editor here: it locks what differed from its first reading and writes what differs from
  its second (`ReadsHold`). With the waits to sign counted it would be false: the table of changes
  has the circle.
- `DoubledOnlyFromStaleHolds` (an action property), for any number of requests on one class: a step
  that gives a date two series is a write from an overtaken reading (`WritesFromStale`). Two handlers are
  excluded: `add` does not look at the series of the class, `schedule` moves one of them. The invariant
  `SeriesRequests` says which rows a request that writes series has read.
- `OneSeriesPerDateHolds`: with the same handlers, in every behaviour without such a write a class never
  has two series on one date. `OneSeriesPerDateForOneEditor`: no such write happens while no two
  requests work on a class (`OneEditorNeverStale`), because what a request read is then still so when
  it writes (`ReadsHold`), as a write changes rows of its own class only (`WritesOwnRows`).
- `RoomsNotDoubleBookedHolds`: one administrator with the handlers that write whole series
  (`SeriesHandlers`) never books a room twice, although some check without a lock and restoring
  a series checks nothing. `RoomInv` strengthens the property: series of two classes share no room
  on a date even if one is cancelled (`RoomsClaimedOnce`), which is what restoring relies on, and
  the room a request has checked is still free (`RoomStillFree`). The handlers of single dates are
  excluded: a date held elsewhere gives the room up, and restoring its series takes it back.

`ServicesProofs`

- `DownloadsTyped`.
- `AvailableStoredHolds`: a video that is available has its file. `StoredInv` adds what a handler
  knows between its steps: who is about to save has seen the file there, and the local copy is
  removed only once the upload is there. No other handler removes what it saw.
- `AttemptsBoundedHolds`: attempts plus the handlers that have counted and not yet recorded stay
  below the limit plus three (`AttemptsInv`), one for each subscription.
- `StoresAgreeHolds`: row, identity and history agree when nothing is under way and no request ended
  halfway, for the overlaps of the run (`Overlaps` of `MCServices`). `AccountInv` says, while nothing
  ended halfway, of each request in each of its steps what it holds, what it read and how far the
  identity and the history run ahead of the row (`RowHeld`, `ReadsCurrent`, `IdentityFollows`,
  `FacilityFollows`).

`LearningProofs`, on the parts of `MCLearning`, each with an invariant of its own.

- The sittings, for every length of the two windows and however long the clock runs:
  `ReportedOnceHolds`, `ActiveTimeExactHolds`, `SittingFollowsFormHolds`, `CompletedOnceHolds`, from
  `SittingInv`: the form, the tab and the timers agree (`FormInv`); times are in order
  (`TimesInv`); the run of a sitting is charged exactly what was worked (`ClockInv`); a sitting that
  is open or stored was not reported (`ReportInv`); each entry and step was counted once (`RowsInv`,
  `StepsInv`).
- The editor, for any entries, contents and abandoned requests: `NoSecondCreateHolds` and
  `SavedLabelTrueHolds`, from `EditorInv`: the queue holds at most one save on the wire and one behind
  it, and one that was overtaken is not the latest (`QueueInv`); the server holds what the page shows
  as saved unless an answer was lost (`ServerInv`); and from `HomeInv` for the PDFs of the first page:
  one PDF of an entry at a time, and a PDF of all holds entries it was asked for.
- `QuietIsFreshHolds`, of three pages. The first page of the record (`HomeListInv`): the list is
  shown exactly when it is not being read, and an entry that is listed and gone is one whose deletion
  has not been answered. The open content (`ContentInv`): there is one fetch of each list and each
  sheet at a time, and what is shown of it is in doubt, or a change was carried out whose answer will
  have it fetched, or it is being fetched and what was read still holds, or it is right. The
  favorites (`FavoritesInv`): a request says "flip", so what counts is the parity of the clicks the
  server has not carried out; a clicked star shows what will come of them (`StarInv`), a fetched list
  is right about the stars that were not clicked (`ListInv`).
- `NeverStuckPollingHolds`: while the page refuses to retry a video there is a chain of polls, with its
  timer or its fetch, that ends the refusal (`PageTyped`).

`ConsoleProofs`, for any residents, administrators, rows, seats and bounds. The pages are proved one
by one, each from an invariant of its own (`ResidentsInv`, `AdminsInv`, ...), and joined in
`ConsoleInv`, which speaks of the page that is open.

- `SelectionStaysWithinFilter`: besides the rows shown, those of every list on the wire that was read
  are of the filter (`AdminsListed`); that is what a late list brings.
- `RequestsActOnMeant` (an action property): the dialogs of an administrator share one `selectedAdmin`, which answers
  change; `AdminsAimed` says that a dialog that can still send finds there the one it was opened for,
  or nobody.
- `PollingNeverStuck`: the counter and the flag of the poll agree (`PollCounts`): who has asked often
  enough has given up.
- `ChosenIsSent`: a dialog is open for whom was selected (`EnrollmentsInv`), a selection never
  outgrows the seats (`AddingInv`), a changed row was marked (`AttendanceInv`).

`ConsoleRequestsProofs`: `NothingSentTwice`, for fifteen pages. `Locked` says of a set of buttons that
whatever one of them has sent is the only request of its kind and its button is disabled. Five
lemmas say once how a step keeps that: nothing is sent (`Waits`), an enabled button sends
(`Sends`), the server acts (`Turns`), a request ends and frees its own button (`Ends`), a page is
opened (`Starts`). What is left for each action of a page is which of them it is. Four pages lock
otherwise and have an invariant of their own: an edit of a program goes on as a change of status
under the same lock (`ProgramLocked`), features have a set of switches under way (`FeaturesLocked`),
an edited class and taken attendance may be left and opened again while a save is out, so there the
lock is of one opening (`ClassLocked`, `AttendanceLocked`). On
the users of a platform an "Apply" waits for a confirmation, during which the button is free
(`ApplyFree`).

`ConsoleFreshProofs`: `NothingStaleWhenQuiet`, for fifteen pages. `QuietIsFresh` speaks only of states
with nothing under way, so it says nothing of the steps that lead there. What holds throughout
(`UpToDate`) is that there is one fetch of a list at a time, and that the list is in doubt, or a
change was carried out whose answer will have it fetched, or it is being fetched and has not been
read or what was read still holds, or nothing is shown, or the rows as they are. Lemmas say once
how a step keeps that: a request is sent (`SendKeeps`), the server acts (`ServedKeeps`), an answer
fetches (`SettlesAndFetchesKeeps`) or is lost (`FailsKeeps`), a list is read (`ListServedKeeps`) and
arrives (`ListArrivesKeeps`). Pages with several keys have it for each (`UsersKept`, `FeaturesKept`,
`RosterKept`, `SessionsKept`); where a change is made in two halves, the first counts
(`Carried`: a client is deleted before it is created again, a program edited before its status).

`ConsoleScheduleProofs`, for any days, rooms, cadences and bounds.

- `RulesStandForDates`. Of a new class, `RuleAsAsked` says that the rule written stands for the dates
  asked for, whatever the form holds, and `FormSound` that a save on the wire holds such a rule and
  the room is one of the list. Of an edited class, `ScheduleSound` says that a form in which nothing
  was changed shows the class as it is now, but for days and interval, which are those of the class
  it was opened for (`Unchanged`); so a save of it writes rules that stand for the same dates
  (`SaveSound`), with the exceptions the property names. It needs that the end a class shows is that
  of its only series (`ClassSound`), through every fetch (`AnswersSound`).
- `SessionsAreNeverLost`, under no hypothesis. The rows of a class are sound (`RowsSound`): a day
  outside the rule that has a row holds a session that was moved there from one day, and no two from
  the same; a session that was moved went to one (`LinksSound`); and going back along the links ends
  at a regular day, because every set of days that were moved to has one whose session came from
  outside the set (`NoCircle`). From this: the walk from a moved session ends on one day, from which
  nothing moved on (`EndSound`: `Walked` and `Chain` of `SessionLinks` are least closed sets, so a
  counterexample would be a circle); as many sessions are held or said to be off as there are regular
  days, since the days moved from and those moved to are one to one (`CountSound`); and what the page
  makes of the rows shows where each session went (`ViewSound`). The writes of the server (`PutSound`,
  `UncancelledSound`, `MoveSound`, `UndoneSound`) keep the rows sound only when asked for a session
  that is there. `Held` says that: one request at a time changes rows, and what it asks is still
  allowed by the rows (`ActsSound`); the session an open dialog names is there (`DialogSound`).
  A dialog opens on a row shown, and rows shown are the server's when nothing is under way and no
  answer is in doubt, which is what `SessionsKept` of `ConsoleFreshProofs` says and where `Hurried =
  FALSE` is needed.
- `NoSessionIsLost` adds the calendar (`CalendarSound`): every day the class meets is covered by a
  series; a cut leaves to the old series what lies before it and hands to a new one what lies
  beyond, to the last day (`CutKeeps`). It has the hypothesis `DaysApart`: no day of the calendar
  follows one on which the class meets. The old series is sent an end of midnight, by which it ends a
  day early (`useChangeEventField.ts:88-99`), so that of two days in a row the first is lost; the
  table of changes has the run. A class that meets daily is thus not covered, by the code's doing.

Only model-checked: `Answered`, `FinishEnds`, `VideosSettle`, `TaskReleased`, `RequestsAnswered`:
liveness under fairness and ENABLED are out of the prover's reach. So are induction over data and
RECURSIVE operators, which these modules do without: what would be a walk along links is the least
set closed under them. Every invariant of a passing run is stated by a theorem; the violated
properties of the other runs have none.

## Plan

The invariants and action properties of the plan are checked and proved. What would come next are
models, not proofs: row locks of event rows, the guards of archiving and deleting programs, and the
parts listed below.

## Not modelled

- Login and OIDC: identity lives in Kratos and Hydra, outside the repository. The messages between
  tabs (`session/tabSession.ts`) and the websocket (`session/websocket.ts`, a usage statistic) are left out.
- `ClassesPage.tsx` with the bulk cancellation of an instructor's sessions: the handler
  (`classes_handler.go:546-582`) names the column `instructor_id`, which migration 00067 dropped, so
  every such request is refused.
- Row locks of event and class rows (`program_classes.go:207`): in `RoomBooking` rows change in one step
  at the commit, so a circle through an event row and an instructor row is not seen. So with other
  writers of `users` rows (an edit of an administrator, a deletion), which take row locks too.
- Archive and delete guards of programs and facilities against what is created meanwhile; the pages
  that meet their refusals are in `ProgramPage` and `Facilities`.
- Creating residents on the server, one or many, and the lockout after failed logins; the jobs
  that import and that expire, and what creates jobs and tasks.
- The Schedule tab of a class (`ScheduleTab.tsx`), which writes the same requests as the calendar.
- The imports of Brightspace, Kolibri and Kiwix: translation of foreign data and an upsert.
- Reports, dashboards, exports, profiles: read-only queries and rendering.
- Interface elements, routes, layouts, formatters: rendering and navigation.
- Migrations and seeders: used for the constraints they declare.

`PROJECT.json` gives the reason for each component, and a note for each hazard without a property.

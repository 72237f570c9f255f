------------------------------ MODULE MCServices ------------------------------
(***************************************************************************)
(* What the services do in several steps, each of which may fail alone:    *)
(* the middleware's downloads and the requests about a resident's account. *)
(* They share no state, so a behaviour is one of either.                   *)
(***************************************************************************)
EXTENDS Naturals

CONSTANTS None, Videos, MaxAttempts, MaxRequests, MaxFaults,
          Admins, Facilities, MaxChanges, MaxMishaps

VARIABLES part,
          bucket, rows, files, inbox, workers, task, requests, faults,
          user, identity, enrolled, history, request, changes, mishaps, half

\* Transfers overlap with no other writer of a facility, nor resets with deletions: what then
\* happens is listed in the README.
Overlaps == {{"transfer", "deactivate", "delete"}, {"reset", "set", "edit", "deactivate"},
             {"delete", "set", "edit", "deactivate"}}

Downloads == INSTANCE VideoDownloads
Account == INSTANCE ResidentAccount

ASSUME ServicesAssumption == Downloads!DownloadsAssumption /\ Account!AccountAssumption

downloadVars == <<bucket, rows, files, inbox, workers, task, requests, faults>>
accountVars == <<user, identity, enrolled, history, request, changes, mishaps, half>>
vars == <<part, downloadVars, accountVars>>

\* Facilities are alike, so that it is enough to begin at one; the part that is not looked at
\* begins in one way.
Init ==
  /\ part \in {"downloads", "account"} /\ Downloads!Init /\ Account!Init
  /\ user.facility = CHOOSE f \in Facilities : TRUE
  /\ part = "downloads" => user.linked
  /\ part = "account" => bucket
Next ==
  \/ part = "downloads" /\ Downloads!Next /\ UNCHANGED <<part, accountVars>>
  \/ part = "account" /\ Account!Next /\ UNCHANGED <<part, downloadVars>>

\* The scheduler comes round every hour, time passes, a handler that has work does it; a row is
\* granted in the end to who waits for it, and Postgres looks for deadlocks.
RunTask == part = "downloads" /\ Downloads!RunTask /\ UNCHANGED <<part, accountVars>>
GrowsOld(v) == part = "downloads" /\ Downloads!GrowsOld(v) /\ UNCHANGED <<part, accountVars>>
Works(w) == part = "downloads" /\ Downloads!Step(w) /\ UNCHANGED <<part, accountVars>>
Advances(a) == part = "account" /\ Account!Advance(a) /\ UNCHANGED <<part, downloadVars>>
DeadlockEnds(a) == part = "account" /\ Account!DeadlockEnds(a) /\ UNCHANGED <<part, downloadVars>>
Fairness ==
  /\ WF_vars(RunTask) /\ \A v \in Videos : WF_vars(GrowsOld(v))
  /\ \A w \in Downloads!Topics : WF_vars(Works(w))
  /\ \A a \in Admins : SF_vars(Advances(a)) /\ WF_vars(DeadlockEnds(a))
Spec == Init /\ [][Next]_vars /\ Fairness

\* A video that is offered has its file where the viewer fetches it, whatever became of the
\* handlers that downloaded it (downloadVideo).
AvailableStored == Downloads!AvailableStored
\* Attempts are counted before they are recorded, and still come to an end, with three handlers
\* that may work on one video (incrementFailedAttempt).
AttemptsBounded == Downloads!AttemptsBounded
\* A video becomes available or is given up, whatever messages, handlers and attempts are lost.
VideosSettle == Downloads!VideosSettle
\* The task of the retry job is released in the end (runTask, cleanupJob).
TaskReleased == Downloads!TaskReleased

\* When no request is under way and none ended halfway, the database, Kratos and the account
\* history agree on where a resident is and whether he has an account (handleResidentTransfer,
\* handleDeleteUser, HandleCreateUserKratos).
StoresAgree == Account!StoresAgree
\* Every request about an account is answered, whatever fails, and no row of the resident stays
\* locked (handleResidentTransfer, DeactivateUser).
RequestsAnswered == Account!RequestsAnswered
=============================================================================

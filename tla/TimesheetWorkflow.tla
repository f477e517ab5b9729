------------------------- MODULE TimesheetWorkflow -------------------------
(***************************************************************************)
(* The approval workflow of one tenant at the granularity of transactions: *)
(* every use case of src/application/use_cases/timelogs and /timesheets is *)
(* one action, from `async with self._uow` to `commit()`.  What happens    *)
(* after the commit, the publication of TimeLogApproved, is a step of its  *)
(* own, so other requests, a failing publisher or a crash of the server    *)
(* come in between.  TimesheetRequests refines the transactions further.   *)
(*                                                                         *)
(* A request whose guard does not hold raises, is rolled back and leaves   *)
(* no trace: that is the stuttering step.                                  *)
(***************************************************************************)
EXTENDS TimeLogEntity, FiniteSets, Functions

CONSTANTS
  Logs,        \* time log identifiers
  Weeks,       \* the <<week_start, week_end>> that clients submit
  PageLimit    \* limit of TimeLogRepository.list_by_user

ASSUME PageAssumption == PageLimit \in Nat \ {0}
ASSUME WeeksAssumption == Weeks \subseteq Days \X Days
ASSUME LogsAssumption == IsFiniteSet(Logs)     \* uuids

VARIABLES
  log,         \* the timelogs table: Logs -> TimeLog, or None
  sheet,       \* the timesheets table: Sheets -> Timesheet, or None
  total,       \* timesheets.total_hours
  owed,        \* logs whose TimeLogApproved a committed request has yet to publish
  seen,        \* logs whose TimeLogApproved was published
  lost         \* logs that had a TimeLogApproved that never was

vars == <<log, sheet, total, owed, seen, lost>>
rows == <<log, sheet, total>>
news == <<owed, seen, lost>>

Exists(l) == log[l] # None
Linked(t) == {l \in Logs : Exists(l) /\ log[l].sheet = t}

Init ==
  /\ log = [l \in Logs |-> None]
  /\ sheet = [t \in Sheets |-> None]
  /\ total = [t \in Sheets |-> 0]
  /\ owed = {}
  /\ seen = {}
  /\ lost = {}
-----------------------------------------------------------------------------
(* Recording time.                                                         *)

SumHours(S) == SumFunction([l \in S |-> log[l].hours])

HoursOn(u, d) ==
  SumHours({l \in Logs : Exists(l) /\ log[l].user = u /\ log[l].day = d})

Insert(l, row) ==
  /\ ~Exists(l)
  /\ log' = [log EXCEPT ![l] = row]
  /\ UNCHANGED <<sheet, total, owed, seen, lost>>

CreateTimeLog(l, u, d) ==
  \E h \in ValidHours :
    /\ HoursOn(u, d) + h <= DayCap
    /\ Insert(l, ManualLog(u, d, h))

StartTimer(l, u, d) == Insert(l, TimerLog(u, d))

(* A use case that loads one log, changes it and writes it back.           *)
Rewrite(l, row) ==
  /\ log' = [log EXCEPT ![l] = row]
  /\ UNCHANGED <<sheet, total, owed, seen, lost>>

PauseTimer(l) ==
  /\ Exists(l) /\ CanPause(log[l])
  /\ \E e \in Segments(log[l]) : \E h \in RoundedHours(log[l].seconds + e) :
       Rewrite(l, Paused(log[l], e, h))

ResumeTimer(l) ==
  /\ Exists(l) /\ CanResume(log[l])
  /\ Rewrite(l, Resumed(log[l]))

StopTimer(l) ==
  /\ Exists(l) /\ CanStop(log[l])
  /\ \E e \in Segments(log[l]) : \E h \in RoundedHours(log[l].seconds + e) :
       Rewrite(l, Stopped(log[l], e, h))

UpdateTimeLog(l) ==
  /\ Exists(l)
  /\ \E h \in EditedHours(log[l]) : Rewrite(l, HoursUpdated(log[l], h))
-----------------------------------------------------------------------------
(* Decisions on one log.                                                   *)

\* Variant with a fault: commits without publishing.
SilentApprove(l) ==
  /\ Exists(l) /\ CanApproveLog(log[l])
  /\ Rewrite(l, ApprovedLog(log[l]))

ManagerApprove(l) ==
  /\ Exists(l) /\ CanApproveLog(log[l])
  /\ log' = [log EXCEPT ![l] = ApprovedLog(@)]
  /\ owed' = owed \cup {l}
  /\ UNCHANGED <<sheet, total, seen, lost>>

ManagerReject(l) ==
  /\ Exists(l) /\ CanRejectLog(log[l])
  /\ Rewrite(l, RejectedLog(log[l]))
-----------------------------------------------------------------------------
(* Timesheets.                                                             *)

\* Variants with a fault: logs of every user; rejected logs left out; a
\* rejected timesheet not found again; an approved one submitted again.
InRangeOfAll(u, from, to) ==
  {l \in Logs : Exists(l) /\ log[l].day \in from..to}
InRangeUnrejected(u, from, to) ==
  {l \in Logs : /\ Exists(l) /\ log[l].user = u /\ log[l].day \in from..to
                /\ log[l].approval # "rejected"}
LiveSheetsOf(u, from) ==
  {t \in Sheets : /\ sheet[t] # None /\ sheet[t].status # "rejected"
                  /\ sheet[t].user = u /\ sheet[t].start = from}
UnlessSubmitted(s) == s.status # "submitted"

InRange(u, from, to) ==
  {l \in Logs : Exists(l) /\ log[l].user = u /\ log[l].day \in from..to}

(* list_by_user: the newest dates first, at most PageLimit rows, in any    *)
(* order among logs of one date.                                           *)
Page(S) ==
  {P \in SUBSET S :
     /\ Cardinality(P) = IF Cardinality(S) < PageLimit THEN Cardinality(S)
                                                       ELSE PageLimit
     /\ \A l \in P, k \in S \ P : log[l].day >= log[k].day}

(* get_by_user_and_week.                                                   *)
SheetsOf(u, from) ==
  {t \in Sheets : sheet[t] # None /\ sheet[t].user = u /\ sheet[t].start = from}

CanSubmit(s) == s.status \in {"draft", "rejected"}

(* The sheet a submission writes: an existing one keeps its own end date.  *)
SubmittedSheet(t, u, from, to) ==
  IF sheet[t] = None
  THEN [user |-> u, start |-> from, end |-> to, status |-> "submitted"]
  ELSE Moved(sheet[t], "submitted")

SubmitTimesheet(t, u, from, to) ==
  /\ \A s, r \in SheetsOf(u, from) : s = r     \* scalar_one_or_none()
  /\ \A s \in SheetsOf(u, from) : CanSubmit(sheet[s])
  /\ IF SheetsOf(u, from) = {} THEN sheet[t] = None ELSE t \in SheetsOf(u, from)
  /\ \E P \in Page(InRange(u, from, to)) :
       /\ sheet' = [sheet EXCEPT ![t] = SubmittedSheet(t, u, from, to)]
       /\ total' = [total EXCEPT ![t] = SumHours(P)]
       /\ log' = [l \in Logs |-> IF l \in P THEN SubmittedLog(log[l], t)
                                            ELSE log[l]]
  /\ UNCHANGED news

(* The logs a decision on the timesheet reaches: all of them, or it raises *)
ApproveTimesheet(t) ==
  /\ sheet[t] # None /\ CanMove(sheet[t].status, "approved")
  /\ \A l \in Linked(t) : CanApproveLog(log[l])
  /\ sheet' = [sheet EXCEPT ![t] = Moved(@, "approved")]
  /\ log' = [l \in Logs |-> IF l \in Linked(t) THEN ApprovedLog(log[l])
                                               ELSE log[l]]
  /\ owed' = owed \cup Linked(t)
  /\ UNCHANGED <<total, seen, lost>>

RejectTimesheet(t) ==
  /\ sheet[t] # None /\ CanMove(sheet[t].status, "rejected")
  /\ \A l \in Linked(t) : CanRejectLog(log[l])
  /\ sheet' = [sheet EXCEPT ![t] = Moved(@, "rejected")]
  /\ log' = [l \in Logs |-> IF l \in Linked(t) THEN RejectedLog(log[l])
                                               ELSE log[l]]
  /\ UNCHANGED <<total, owed, seen, lost>>
-----------------------------------------------------------------------------
(* After the commit.                                                       *)

PublishApproval(l) ==
  /\ l \in owed
  /\ owed' = owed \ {l}
  /\ seen' = seen \cup {l}
  /\ UNCHANGED <<log, sheet, total, lost>>

(* RedisEventPublisher.publish logs the exception and drops the event.     *)
PublishFails(l) ==
  /\ l \in owed
  /\ owed' = owed \ {l}
  /\ lost' = lost \cup {l}
  /\ UNCHANGED <<log, sheet, total, seen>>

(* The API process stops: no request survives to publish what it owes.     *)
ServerCrash ==
  /\ owed # {}
  /\ owed' = {}
  /\ lost' = lost \cup owed
  /\ UNCHANGED <<log, sheet, total, seen>>
-----------------------------------------------------------------------------
LogStep(l) ==
  \/ \E u \in Users, d \in Days : CreateTimeLog(l, u, d) \/ StartTimer(l, u, d)
  \/ PauseTimer(l) \/ ResumeTimer(l) \/ StopTimer(l)
  \/ UpdateTimeLog(l)
  \/ ManagerApprove(l) \/ ManagerReject(l)

SheetStep(t) ==
  \/ \E u \in Users, w \in Weeks : SubmitTimesheet(t, u, w[1], w[2])
  \/ ApproveTimesheet(t) \/ RejectTimesheet(t)

PublishStep == \E l \in Logs : PublishApproval(l) \/ PublishFails(l)

Next ==
  \/ \E l \in Logs : LogStep(l)
  \/ \E t \in Sheets : SheetStep(t)
  \/ PublishStep
  \/ ServerCrash

Spec == Init /\ [][Next]_vars
-----------------------------------------------------------------------------
(* Properties.                                                             *)

\* Every row has the shape its table and its entity give it.
TypeOK ==
  /\ log \in [Logs -> TimeLog \cup {None}]
  /\ sheet \in [Sheets -> Timesheet \cup {None}]
  /\ total \in [Sheets -> Nat]
  /\ owed \subseteq Logs
  /\ seen \subseteq Logs
  /\ lost \subseteq Logs

\* No two timesheets of one user start on the same day.  Nothing in the
\* schema says so (TimesheetModel has no unique constraint); it rests on the
\* lookup in SubmitTimesheetUseCase, and get_by_user_and_week raises for
\* every later submission once it fails.
OneSheetPerWeek ==
  \A s, t \in Sheets :
    /\ sheet[s] # None /\ sheet[t] # None
    /\ sheet[s].user = sheet[t].user /\ sheet[s].start = sheet[t].start
    => s = t

\* A link is never dangling: the timesheet exists, belongs to the user of
\* the log, does not start after the log's date, and the log has left draft,
\* so that a decision on the timesheet finds a log it knows how to decide.
LinksAreSound ==
  \A l \in Logs : Exists(l) /\ log[l].sheet # None =>
    LET s == sheet[log[l].sheet] IN
    /\ s # None
    /\ s.user = log[l].user
    /\ s.start <= log[l].day
    /\ log[l].approval # "draft"

\* A decision settles every linked log: under an approved timesheet a log is
\* approved, under a rejected one it is rejected or was approved on its own
\* since.  The only way back to pending is a timer stopped after the
\* decision, which is why a completed timer is excepted.
DecisionsSettleLogs ==
  \A l \in Logs : Exists(l) /\ log[l].sheet # None /\ log[l].timer # "completed" =>
    LET status == sheet[log[l].sheet].status IN
    /\ status = "approved" => log[l].approval = "approved"
    /\ status = "rejected" => log[l].approval \in {"rejected", "approved"}

\* No approval is forgotten: an approved log has been announced to the
\* subscribers, is about to be, or its announcement was lost by a failing
\* publisher or a crash after the commit.
ApprovalsAccountedFor ==
  \A l \in Logs : Exists(l) /\ log[l].approval = "approved" =>
    l \in owed \cup seen \cup lost

\* "test_approved_is_final": no request, resubmission included, changes an
\* approved timesheet or its total.
ApprovedSheetIsFinal ==
  [][\A t \in Sheets : sheet[t] # None /\ sheet[t].status = "approved" =>
       sheet'[t] = sheet[t] /\ total'[t] = total[t]]_vars

\* A log loses its approval only when its timer is stopped after the
\* approval or when a submission sweeps it up again; no edit, pause, resume
\* or rejection can take it back.
ApprovalLostOnlyBy ==
  [][\A l \in Logs :
       Exists(l) /\ log[l].approval = "approved" /\ log'[l].approval # "approved"
       => \/ log[l].timer # "completed" /\ log'[l].timer = "completed"
          \/ /\ log'[l].sheet # None
             /\ sheet'[log'[l].sheet].status = "submitted"
             /\ sheet' # sheet]_vars
-----------------------------------------------------------------------------
(* Properties of clients that submit disjoint weeks, as the web client     *)
(* does (apps/web: Monday to Sunday), of fewer logs than one page.         *)

\* The set of logs an approved timesheet stands for never changes: no later
\* submission moves one of them to another timesheet.
ApprovedSheetKeepsLogs ==
  [][\A t \in Sheets : sheet[t] # None /\ sheet[t].status = "approved" =>
       {l \in Logs : log'[l] # None /\ log'[l].sheet = t} = Linked(t)]_vars

\* The total a submission stores is the total of the logs a decision on the
\* timesheet will reach, resubmissions after a rejection included.
SubmittedTotalCoversLogs ==
  [][\A t \in Sheets : sheet'[t] # sheet[t] /\ sheet'[t].status = "submitted" =>
       total'[t] = SumFunction([l \in {k \in Logs : log'[k] # None /\ log'[k].sheet = t}
                                  |-> log'[l].hours])]_vars
-----------------------------------------------------------------------------
(* What the repository says and the code does not keep.                    *)

\* "Cascade: approve all linked time logs": every linked log of a submitted
\* timesheet is one that the cascade can approve.
CascadeReachesAll ==
  \A t \in Sheets : sheet[t] # None /\ sheet[t].status = "submitted" =>
    \A l \in Linked(t) : CanApproveLog(log[l])
=============================================================================

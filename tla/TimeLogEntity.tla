--------------------------- MODULE TimeLogEntity ---------------------------
(***************************************************************************)
(* The two entities of the approval workflow as rows and pure functions on *)
(* rows: a time log (src/domain/entities/time_log.py) and a timesheet      *)
(* (src/domain/entities/timesheet.py).  Every CanX is the condition under  *)
(* which method x of the entity does not raise, every X the row it leaves. *)
(*                                                                         *)
(* Hours are integers counting hundredths of an hour, the unit the code    *)
(* rounds to; a timer counts whole seconds.                                *)
(***************************************************************************)
EXTENDS Integers

CONSTANTS
  Sheets,           \* timesheet identifiers
  Users,            \* user identifiers
  Days,             \* the dates a log can carry, as numbers
  DayCap,           \* TimeLog.MAX_DAILY_HOURS
  MaxSeconds,       \* bound: seconds one timer accumulates in the model
  SecondsPerUnit,   \* seconds in the smallest unit of `hours`
  None              \* absence: SQL NULL, a row that does not exist

ASSUME UnitAssumption ==
  /\ SecondsPerUnit \in Nat \ {0}
  /\ MaxSeconds \in Nat
  /\ DayCap \in Nat \ {0}
ASSUME DaysAssumption == Days \subseteq Nat
ASSUME NoneAssumption == None \notin Sheets \cup Users \cup Nat

TimerStatus    == {"idle", "running", "paused", "completed"}
ApprovalStatus == {"draft", "pending_manager", "approved", "rejected"}
SheetStatus    == {"draft", "submitted", "approved", "rejected"}

TimeLog ==
  [user: Users, day: Days, timer: TimerStatus, seconds: 0..MaxSeconds,
   hours: Nat, approval: ApprovalStatus, sheet: Sheets \cup {None}]

Timesheet ==
  [user: Users, start: Days, end: Days, status: SheetStatus]

ASSUME RowAssumption == None \notin TimeLog \cup Timesheet
-----------------------------------------------------------------------------
(* Construction.                                                           *)

ManualLog(u, d, h) ==
  [user |-> u, day |-> d, timer |-> "idle", seconds |-> 0, hours |-> h,
   approval |-> "pending_manager", sheet |-> None]

TimerLog(u, d) ==
  [user |-> u, day |-> d, timer |-> "running", seconds |-> 0, hours |-> 0,
   approval |-> "draft", sheet |-> None]

ValidHours == 1..DayCap     \* 0 < hours <= 24

(* round(seconds / 3600, 2): the nearest unit.  An exact tie is decided by *)
(* the binary representation of the quotient, so either neighbour is       *)
(* possible.                                                               *)
RoundedHours(s) ==
  LET q == s \div SecondsPerUnit
  IN  {h \in {q, q + 1} : /\ 2 * (h * SecondsPerUnit - s) <= SecondsPerUnit
                          /\ 2 * (s - h * SecondsPerUnit) <= SecondsPerUnit}
-----------------------------------------------------------------------------
(* Timer.  `e` is what the running segment lasted, `h` the rounded hours.  *)

CanPause(r)  == r.timer = "running"
CanResume(r) == r.timer = "paused"
CanStop(r)   == r.timer \in {"running", "paused"}

(* Accumulating a segment, within the bound of the model.                  *)
Segments(r) ==
  IF r.timer = "running" THEN 0..(MaxSeconds - r.seconds) ELSE {0}

Paused(r, e, h) ==
  [r EXCEPT !.seconds = @ + e, !.timer = "paused", !.hours = h]

Resumed(r) == [r EXCEPT !.timer = "running"]

Stopped(r, e, h) ==
  [r EXCEPT !.seconds = @ + e, !.timer = "completed", !.hours = h,
            !.approval = "pending_manager"]

HoursUpdated(r, h) == [r EXCEPT !.hours = h]

(* What an edit may make of the hours: it may also name none, and change   *)
(* other columns only.                                                     *)
EditedHours(r) == ValidHours \cup {r.hours}
-----------------------------------------------------------------------------
(* Approval of one log, and the link a submission writes.                  *)

\* Variants with a fault, for the sensitivity of the checks.
LenientReject(r)   == r.approval \in {"pending_manager", "approved"}
StatusMixedUp(r, t) == [r EXCEPT !.sheet = t, !.approval = "submitted"]

CanApproveLog(r) == r.approval \in {"pending_manager", "rejected"}
CanRejectLog(r)  == r.approval = "pending_manager"

ApprovedLog(r) == [r EXCEPT !.approval = "approved"]
RejectedLog(r) == [r EXCEPT !.approval = "rejected"]

SubmittedLog(r, t) ==
  [r EXCEPT !.sheet = t, !.approval = "pending_manager"]
-----------------------------------------------------------------------------
(* Timesheet transitions.                                                  *)

ValidTransitions ==
  {<<"draft", "submitted">>, <<"submitted", "approved">>,
   <<"submitted", "rejected">>, <<"rejected", "draft">>}

CanMove(status, to) == <<status, to>> \in ValidTransitions
Moved(s, to)   == [s EXCEPT !.status = to]
=============================================================================

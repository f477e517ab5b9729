---------------------- MODULE TimesheetWorkflowProofs ----------------------
(***************************************************************************)
(* Theorems about TimesheetWorkflow, for any sets of logs, timesheets,     *)
(* users and dates, any cap, page limit and submitted weeks.               *)
(***************************************************************************)
EXTENDS TimesheetWorkflow, FiniteSums

(* The rounding of a timer yields hours: natural numbers.                  *)
LEMMA RoundedHoursType ==
  ASSUME NEW s \in Nat
  PROVE  RoundedHours(s) \subseteq Nat
<1> DEFINE q == s \div SecondsPerUnit
<1>1. q \in Int /\ SecondsPerUnit \in Nat \ {0}
  BY UnitAssumption
<1>2. q >= 0
  BY UnitAssumption
<1> QED
  BY <1>1, <1>2 DEF RoundedHours

(* What an elapsed segment adds stays within the bound of the model.       *)
LEMMA SegmentsType ==
  ASSUME NEW r \in TimeLog, NEW e \in Segments(r)
  PROVE  r.seconds + e \in 0..MaxSeconds
BY UnitAssumption DEF Segments, TimeLog
-----------------------------------------------------------------------------
(* What a request about one log can do to its row, all that the invariants *)
(* need to know of it.                                                     *)
LogChange(l, row) ==
  /\ row \in TimeLog
  /\ \/ /\ ~Exists(l)
        /\ row.sheet = None
        /\ row.approval # "approved"
     \/ /\ Exists(l)
        /\ row.user = log[l].user /\ row.day = log[l].day /\ row.sheet = log[l].sheet
        /\ log[l].timer = "completed" => row.timer = "completed"
        /\ \/ row.approval = log[l].approval
           \/ /\ row.approval = "pending_manager"
              /\ log[l].timer # "completed" /\ row.timer = "completed"
           \/ row.approval = "approved" /\ l \in owed'
           \/ row.approval = "rejected" /\ log[l].approval = "pending_manager"

LogEffect(l) ==
  /\ \E row : LogChange(l, row) /\ log' = [log EXCEPT ![l] = row]
  /\ owed \subseteq owed' /\ owed' \subseteq Logs
  /\ UNCHANGED <<sheet, total, seen, lost>>

LEMMA LogStepEffect ==
  ASSUME TypeOK, NEW l \in Logs, LogStep(l)
  PROVE  LogEffect(l)
<1>0. /\ Exists(l) => log[l] \in TimeLog
      /\ owed \subseteq Logs
  BY DEF Exists, TypeOK
<1>1. ASSUME NEW u \in Users, NEW d \in Days, CreateTimeLog(l, u, d)
      PROVE  LogEffect(l)
  <2>1. PICK h \in ValidHours : Insert(l, ManualLog(u, d, h))
    BY <1>1 DEF CreateTimeLog
  <2>2. LogChange(l, ManualLog(u, d, h))
    BY <2>1, UnitAssumption
    DEF Insert, LogChange, ManualLog, TimeLog, ValidHours, TimerStatus, ApprovalStatus
  <2> QED
    BY <1>0, <2>1, <2>2 DEF Insert, LogEffect
<1>2. ASSUME NEW u \in Users, NEW d \in Days, StartTimer(l, u, d)
      PROVE  LogEffect(l)
  <2>1. LogChange(l, TimerLog(u, d))
    BY <1>2, UnitAssumption
    DEF StartTimer, Insert, LogChange, TimerLog, TimeLog, TimerStatus, ApprovalStatus
  <2> QED
    BY <1>0, <1>2, <2>1 DEF StartTimer, Insert, LogEffect
<1>3. CASE PauseTimer(l)
  <2>0. PICK e \in Segments(log[l]) : \E h \in RoundedHours(log[l].seconds + e) :
               Rewrite(l, Paused(log[l], e, h))
    BY <1>3 DEF PauseTimer
  <2>1. PICK h \in RoundedHours(log[l].seconds + e) :
               Rewrite(l, Paused(log[l], e, h))
    BY <2>0
  <2>2. Exists(l) /\ CanPause(log[l]) /\ log[l] \in TimeLog
    BY <1>0, <1>3 DEF PauseTimer
  <2>3. log[l].seconds + e \in 0..MaxSeconds /\ h \in Nat
    BY <2>2, SegmentsType, RoundedHoursType, UnitAssumption
  <2>4. LogChange(l, Paused(log[l], e, h))
    BY <2>2, <2>3 DEF LogChange, CanPause, Paused, TimeLog, TimerStatus
  <2> QED
    BY <1>0, <2>1, <2>4 DEF Rewrite, LogEffect
<1>4. CASE ResumeTimer(l)
  <2>1. LogChange(l, Resumed(log[l]))
    BY <1>0, <1>4 DEF ResumeTimer, CanResume, LogChange, Resumed, TimeLog, TimerStatus
  <2> QED
    BY <1>0, <1>4, <2>1 DEF ResumeTimer, Rewrite, LogEffect
<1>5. CASE StopTimer(l)
  <2>0. PICK e \in Segments(log[l]) : \E h \in RoundedHours(log[l].seconds + e) :
               Rewrite(l, Stopped(log[l], e, h))
    BY <1>5 DEF StopTimer
  <2>1. PICK h \in RoundedHours(log[l].seconds + e) :
               Rewrite(l, Stopped(log[l], e, h))
    BY <2>0
  <2>2. Exists(l) /\ CanStop(log[l]) /\ log[l] \in TimeLog
    BY <1>0, <1>5 DEF StopTimer
  <2>3. log[l].seconds + e \in 0..MaxSeconds /\ h \in Nat
    BY <2>2, SegmentsType, RoundedHoursType, UnitAssumption
  <2>4. LogChange(l, Stopped(log[l], e, h))
    BY <2>2, <2>3 DEF LogChange, CanStop, Stopped, TimeLog, TimerStatus, ApprovalStatus
  <2> QED
    BY <1>0, <2>1, <2>4 DEF Rewrite, LogEffect
<1>6. CASE UpdateTimeLog(l)
  <2>1. PICK h \in EditedHours(log[l]) : Rewrite(l, HoursUpdated(log[l], h))
    BY <1>6 DEF UpdateTimeLog
  <2>2. LogChange(l, HoursUpdated(log[l], h))
    BY <1>0, <1>6, UnitAssumption
    DEF UpdateTimeLog, LogChange, HoursUpdated, TimeLog, EditedHours, ValidHours
  <2> QED
    BY <1>0, <2>1, <2>2 DEF Rewrite, LogEffect
<1>7. CASE ManagerApprove(l)
  <2>1. LogChange(l, ApprovedLog(log[l]))
    BY <1>0, <1>7 DEF ManagerApprove, LogChange, ApprovedLog, TimeLog, ApprovalStatus
  <2> QED
    BY <1>0, <1>7, <2>1 DEF ManagerApprove, LogEffect
<1>8. CASE ManagerReject(l)
  <2>1. LogChange(l, RejectedLog(log[l]))
    BY <1>0, <1>8
    DEF ManagerReject, CanRejectLog, LogChange, RejectedLog, TimeLog, ApprovalStatus
  <2> QED
    BY <1>0, <1>8, <2>1 DEF ManagerReject, Rewrite, LogEffect
<1> QED
  BY <1>1, <1>2, <1>3, <1>4, <1>5, <1>6, <1>7, <1>8 DEF LogStep

LEMMA LogStepType ==
  ASSUME TypeOK, NEW l \in Logs, LogStep(l)
  PROVE  TypeOK'
<1>1. LogEffect(l)
  BY LogStepEffect
<1> QED
  BY <1>1 DEF LogEffect, LogChange, TypeOK

LEMMA SumHoursType ==
  ASSUME TypeOK, NEW P \in SUBSET Logs, \A l \in P : Exists(l)
  PROVE  SumHours(P) \in Nat
<1> DEFINE f == [l \in P |-> log[l].hours]
<1>1. IsFiniteSet(P)
  BY LogsAssumption, FS_Subset
<1>2. \A l \in P : log[l] \in TimeLog
  BY DEF TypeOK, Exists
<1>3. DOMAIN f = P /\ \A l \in P : f[l] \in Nat
  BY <1>2 DEF TimeLog
<1>4. SumHours(P) = SumFunctionOnSet(f, P)
  BY <1>3 DEF SumHours, SumFunction
<1> HIDE DEF f
<1> QED
  BY <1>1, <1>3, <1>4, SumIsNat

LEMMA SheetStepType ==
  ASSUME TypeOK, NEW t \in Sheets, SheetStep(t)
  PROVE  TypeOK'
<1>1. ASSUME NEW u \in Users, NEW w \in Weeks, SubmitTimesheet(t, u, w[1], w[2])
      PROVE  TypeOK'
  <2>1. w[1] \in Days /\ w[2] \in Days
    BY WeeksAssumption
  <2>2. PICK P \in Page(InRange(u, w[1], w[2])) :
          /\ sheet' = [sheet EXCEPT ![t] = SubmittedSheet(t, u, w[1], w[2])]
          /\ total' = [total EXCEPT ![t] = SumHours(P)]
          /\ log' = [l \in Logs |-> IF l \in P THEN SubmittedLog(log[l], t)
                                               ELSE log[l]]
    BY <1>1 DEF SubmitTimesheet
  <2>3. \A l \in P : log[l] \in TimeLog
    BY DEF Page, InRange, Exists, TypeOK
  <2>4. \A l \in P : SubmittedLog(log[l], t) \in TimeLog
    BY <2>3 DEF SubmittedLog, TimeLog, ApprovalStatus
  <2>5. SubmittedSheet(t, u, w[1], w[2]) \in Timesheet
    BY <2>1 DEF SubmittedSheet, Moved, TypeOK, Timesheet, SheetStatus
  <2>6. SumHours(P) \in Nat
    <3>1. P \in SUBSET Logs /\ \A l \in P : Exists(l)
      BY DEF Page, InRange
    <3> QED
      BY <3>1, SumHoursType
  <2>7. total' \in [Sheets -> Nat]
    BY <2>2, <2>6 DEF TypeOK
  <2> QED
    BY <1>1, <2>2, <2>4, <2>5, <2>7 DEF SubmitTimesheet, news, TypeOK
<1>2. CASE ApproveTimesheet(t)
  <2>1. Moved(sheet[t], "approved") \in Timesheet
    BY <1>2 DEF ApproveTimesheet, TypeOK, Moved, Timesheet, SheetStatus
  <2>2. \A l \in Linked(t) : log[l] \in TimeLog
    BY DEF Linked, Exists, TypeOK
  <2>3. \A l \in Linked(t) : ApprovedLog(log[l]) \in TimeLog
    BY <2>2 DEF ApprovedLog, TimeLog, ApprovalStatus
  <2>4. Linked(t) \subseteq Logs
    BY DEF Linked
  <2> QED
    BY <1>2, <2>1, <2>3, <2>4 DEF ApproveTimesheet, TypeOK
<1>3. CASE RejectTimesheet(t)
  <2>1. Moved(sheet[t], "rejected") \in Timesheet
    BY <1>3 DEF RejectTimesheet, TypeOK, Moved, Timesheet, SheetStatus
  <2>2. \A l \in Linked(t) : log[l] \in TimeLog
    BY DEF Linked, Exists, TypeOK
  <2>3. \A l \in Linked(t) : RejectedLog(log[l]) \in TimeLog
    BY <2>2 DEF RejectedLog, TimeLog, ApprovalStatus
  <2> QED
    BY <1>3, <2>1, <2>3 DEF RejectTimesheet, TypeOK
<1> QED
  BY <1>1, <1>2, <1>3 DEF SheetStep

LEMMA TypeStep == TypeOK /\ [Next]_vars => TypeOK'
<1> SUFFICES ASSUME TypeOK, [Next]_vars PROVE TypeOK'
  OBVIOUS
<1>1. CASE \E l \in Logs : LogStep(l)
  BY <1>1, LogStepType
<1>2. CASE \E t \in Sheets : SheetStep(t)
  BY <1>2, SheetStepType
<1>3. CASE PublishStep
  BY <1>3 DEF PublishStep, PublishApproval, PublishFails, TypeOK
<1>4. CASE ServerCrash
  BY <1>4 DEF ServerCrash, TypeOK
<1>5. CASE UNCHANGED vars
  BY <1>5 DEF vars, TypeOK
<1> QED
  BY <1>1, <1>2, <1>3, <1>4, <1>5 DEF Next

(* Type correctness: no use case, publication or crash leaves a row that   *)
(* the tables could not hold.                                              *)
THEOREM TypeCorrect == Spec => []TypeOK
<1>1. Init => TypeOK
  BY DEF Init, TypeOK
<1> QED
  BY <1>1, TypeStep, PTL DEF Spec
-----------------------------------------------------------------------------
(* What a submission does, in the terms the invariants use.                *)
LEMMA SubmitEffect ==
  ASSUME TypeOK, NEW t \in Sheets, NEW u \in Users, NEW w \in Weeks,
         SubmitTimesheet(t, u, w[1], w[2])
  PROVE  /\ sheet[t] = None \/ sheet[t].status \in {"draft", "rejected"}
         /\ \/ sheet[t] = None /\ SheetsOf(u, w[1]) = {}
            \/ sheet[t] # None /\ sheet[t].user = u /\ sheet[t].start = w[1]
         /\ SheetsOf(u, w[1]) \subseteq {t}
         /\ sheet'[t] \in Timesheet
         /\ sheet'[t].user = u /\ sheet'[t].start = w[1]
         /\ sheet'[t].status = "submitted"
         /\ \A s \in Sheets \ {t} : sheet'[s] = sheet[s] /\ total'[s] = total[s]
         /\ UNCHANGED <<owed, seen, lost>>
<1>1. w[1] \in Days /\ w[2] \in Days
  BY WeeksAssumption
<1>2. PICK P \in Page(InRange(u, w[1], w[2])) :
        /\ sheet' = [sheet EXCEPT ![t] = SubmittedSheet(t, u, w[1], w[2])]
        /\ total' = [total EXCEPT ![t] = SumHours(P)]
  BY DEF SubmitTimesheet
<1>4. \/ sheet[t] = None /\ SheetsOf(u, w[1]) = {}
      \/ /\ sheet[t] # None /\ sheet[t].user = u /\ sheet[t].start = w[1]
         /\ sheet[t].status \in {"draft", "rejected"}
  BY DEF SubmitTimesheet, SheetsOf, CanSubmit
<1>5. /\ SubmittedSheet(t, u, w[1], w[2]) \in Timesheet
      /\ SubmittedSheet(t, u, w[1], w[2]).user = u
      /\ SubmittedSheet(t, u, w[1], w[2]).start = w[1]
      /\ SubmittedSheet(t, u, w[1], w[2]).status = "submitted"
  BY <1>1, <1>4 DEF SubmittedSheet, Moved, TypeOK, Timesheet, SheetStatus
<1>6. sheet'[t] = SubmittedSheet(t, u, w[1], w[2])
  BY <1>2 DEF TypeOK
<1>7. \A s \in Sheets \ {t} : sheet'[s] = sheet[s] /\ total'[s] = total[s]
  BY <1>2 DEF TypeOK
<1>8. UNCHANGED <<owed, seen, lost>>
  BY DEF SubmitTimesheet, news
<1>9. SheetsOf(u, w[1]) \subseteq {t}
  BY DEF SubmitTimesheet, SheetsOf
<1> QED
  BY <1>4, <1>5, <1>6, <1>7, <1>8, <1>9

LEMMA SubmitLinks ==
  ASSUME NEW t \in Sheets, NEW u \in Users, NEW w \in Weeks,
         SubmitTimesheet(t, u, w[1], w[2])
  PROVE  \E P \in SUBSET InRange(u, w[1], w[2]) :
           log' = [l \in Logs |-> IF l \in P THEN SubmittedLog(log[l], t)
                                             ELSE log[l]]
BY DEF SubmitTimesheet, Page

(* What a decision on a timesheet does.                                    *)
Decides(t, status, approval) ==
  /\ sheet[t] # None /\ sheet[t].status = "submitted"
  /\ sheet'[t] \in Timesheet
  /\ sheet'[t].user = sheet[t].user /\ sheet'[t].start = sheet[t].start
  /\ sheet'[t].status = status
  /\ \A s \in Sheets \ {t} : sheet'[s] = sheet[s]
  /\ UNCHANGED <<total, seen, lost>>
  /\ \A l \in Logs \ Linked(t) : log'[l] = log[l]
  /\ \A l \in Linked(t) : log'[l] = [log[l] EXCEPT !.approval = approval]

LEMMA ApproveEffect ==
  ASSUME TypeOK, NEW t \in Sheets, ApproveTimesheet(t)
  PROVE  Decides(t, "approved", "approved") /\ owed' = owed \cup Linked(t)
<1>1. sheet[t] # None /\ sheet[t].status = "submitted"
  BY DEF ApproveTimesheet, CanMove, ValidTransitions
<1>2. sheet'[t] = Moved(sheet[t], "approved")
  BY DEF ApproveTimesheet, TypeOK
<1>3. Moved(sheet[t], "approved") \in Timesheet
  BY <1>1 DEF TypeOK, Moved, Timesheet, SheetStatus
<1> QED
  BY <1>1, <1>2, <1>3
  DEF ApproveTimesheet, Decides, TypeOK, Moved, Timesheet, Linked, ApprovedLog

LEMMA RejectEffect ==
  ASSUME TypeOK, NEW t \in Sheets, RejectTimesheet(t)
  PROVE  /\ Decides(t, "rejected", "rejected") /\ UNCHANGED owed
         /\ \A l \in Linked(t) : log[l].approval = "pending_manager"
<1>1. sheet[t] # None /\ sheet[t].status = "submitted"
  BY DEF RejectTimesheet, CanMove, ValidTransitions
<1>2. sheet'[t] = Moved(sheet[t], "rejected")
  BY DEF RejectTimesheet, TypeOK
<1>3. Moved(sheet[t], "rejected") \in Timesheet
  BY <1>1 DEF TypeOK, Moved, Timesheet, SheetStatus
<1> QED
  BY <1>1, <1>2, <1>3
  DEF RejectTimesheet, Decides, TypeOK, Moved, Timesheet, Linked, RejectedLog, CanRejectLog
-----------------------------------------------------------------------------
(* Every step, sorted by what it touches.                                  *)
LEMMA StepCases ==
  ASSUME TypeOK, [Next]_vars
  PROVE  \/ \E l \in Logs : LogEffect(l)
         \/ \E t \in Sheets, u \in Users, w \in Weeks :
              SubmitTimesheet(t, u, w[1], w[2])
         \/ \E t \in Sheets : ApproveTimesheet(t)
         \/ \E t \in Sheets : RejectTimesheet(t)
         \/ /\ UNCHANGED <<log, sheet, total>>
            /\ owed \cup seen \cup lost \subseteq owed' \cup seen' \cup lost'
<1>1. CASE \E l \in Logs : LogStep(l)
  BY <1>1, LogStepEffect
<1>2. CASE \E t \in Sheets : SheetStep(t)
  BY <1>2 DEF SheetStep
<1>3. CASE PublishStep
  BY <1>3 DEF PublishStep, PublishApproval, PublishFails
<1>4. CASE ServerCrash
  BY <1>4 DEF ServerCrash
<1>5. CASE UNCHANGED vars
  BY <1>5 DEF vars
<1> QED
  BY <1>1, <1>2, <1>3, <1>4, <1>5 DEF Next

(* The inductive invariant.  The types say what a link can name, and that  *)
(* no link dangles is what gives the other conjuncts a timesheet to speak  *)
(* of when a submission creates one.                                       *)
Inv ==
  /\ TypeOK
  /\ OneSheetPerWeek
  /\ LinksAreSound
  /\ DecisionsSettleLogs
  /\ ApprovalsAccountedFor

LEMMA InvInit == Init => Inv
BY DEF Init, Inv, TypeOK, OneSheetPerWeek, LinksAreSound, DecisionsSettleLogs,
       ApprovalsAccountedFor, Exists

LEMMA LogKeepsInv ==
  ASSUME Inv, TypeOK', NEW l \in Logs, LogEffect(l)
  PROVE  Inv'
<1>1. PICK row : LogChange(l, row) /\ log' = [log EXCEPT ![l] = row]
  BY DEF LogEffect
<1>2. log'[l] = row /\ \A k \in Logs \ {l} : log'[k] = log[k]
  BY <1>1 DEF Inv, TypeOK
<1>3. UNCHANGED <<sheet, seen, lost>> /\ owed \subseteq owed'
  BY DEF LogEffect
<1>4. row # None
  BY <1>1, RowAssumption DEF LogChange
<1>5. OneSheetPerWeek'
  BY <1>3 DEF Inv, OneSheetPerWeek
<1>6. LinksAreSound'
  BY <1>1, <1>2, <1>3 DEF Inv, LinksAreSound, LogChange, Exists
<1>7. DecisionsSettleLogs'
  BY <1>1, <1>2, <1>3 DEF Inv, DecisionsSettleLogs, LogChange, Exists
<1>8. ApprovalsAccountedFor'
  BY <1>1, <1>2, <1>3 DEF Inv, ApprovalsAccountedFor, LogChange, Exists
<1> QED
  BY <1>5, <1>6, <1>7, <1>8 DEF Inv

LEMMA SubmitKeepsInv ==
  ASSUME Inv, TypeOK', NEW t \in Sheets, NEW u \in Users, NEW w \in Weeks,
         SubmitTimesheet(t, u, w[1], w[2])
  PROVE  Inv'
<1>1. PICK P \in SUBSET InRange(u, w[1], w[2]) :
        log' = [l \in Logs |-> IF l \in P THEN SubmittedLog(log[l], t)
                                          ELSE log[l]]
  BY SubmitLinks
<1>2. w[1] \in Nat /\ w[2] \in Nat
  BY WeeksAssumption, DaysAssumption
<1>3. \A l \in P : /\ Exists(l) /\ log[l] \in TimeLog
                   /\ log[l].user = u /\ w[1] <= log[l].day
  BY <1>2, DaysAssumption DEF InRange, Inv, TypeOK, Exists, TimeLog
<1>4. \A l \in P : /\ log'[l] # None /\ log'[l].user = u
                   /\ log'[l].day = log[l].day /\ log'[l].sheet = t
                   /\ log'[l].approval = "pending_manager"
  <2>1. \A l \in P : log'[l] = SubmittedLog(log[l], t)
    BY <1>1 DEF InRange
  <2>2. \A l \in P : SubmittedLog(log[l], t) \in TimeLog
    BY <1>3 DEF SubmittedLog, TimeLog, ApprovalStatus
  <2>3. \A l \in P : log'[l] # None
    BY <2>1, <2>2, RowAssumption
  <2> QED
    BY <1>3, <2>1, <2>3 DEF SubmittedLog, TimeLog
<1>5. \A l \in Logs \ P : log'[l] = log[l]
  BY <1>1
<1>6. OneSheetPerWeek'
  BY SubmitEffect DEF Inv, OneSheetPerWeek, SheetsOf
<1>7. LinksAreSound'
  BY <1>3, <1>4, <1>5, SubmitEffect, RowAssumption DEF Inv, LinksAreSound, Exists, TypeOK, TimeLog
<1>8. DecisionsSettleLogs'
  BY <1>4, <1>5, SubmitEffect DEF Inv, TypeOK, TimeLog, DecisionsSettleLogs, Exists
<1>9. ApprovalsAccountedFor'
  BY <1>4, <1>5, SubmitEffect DEF Inv, ApprovalsAccountedFor, Exists
<1> QED
  BY <1>6, <1>7, <1>8, <1>9 DEF Inv

LEMMA DecisionKeepsInv ==
  ASSUME Inv, TypeOK', NEW t \in Sheets,
         ApproveTimesheet(t) \/ RejectTimesheet(t)
  PROVE  Inv'
<1>1. \/ Decides(t, "approved", "approved") /\ owed' = owed \cup Linked(t)
      \/ Decides(t, "rejected", "rejected") /\ owed' = owed
  BY ApproveEffect, RejectEffect DEF Inv
<1>2. \A l \in Linked(t) :
        /\ log[l] \in TimeLog /\ log[l].sheet = t /\ log'[l] # None
        /\ log'[l].user = log[l].user /\ log'[l].day = log[l].day
        /\ log'[l].sheet = t
        /\ log'[l].approval = sheet'[t].status
        /\ log'[l].approval \in {"approved", "rejected"}
        /\ log'[l].approval = "approved" => l \in owed'
  <2>1. \A l \in Linked(t) : log[l] \in TimeLog /\ log[l].sheet = t
    BY DEF Linked, Exists, Inv, TypeOK
  <2>2. \A l \in Linked(t) :
          /\ [log[l] EXCEPT !.approval = "approved"] \in TimeLog
          /\ [log[l] EXCEPT !.approval = "rejected"] \in TimeLog
    BY <2>1 DEF TimeLog, ApprovalStatus
  <2>3. \A l \in Linked(t) :
          \/ log'[l] = [log[l] EXCEPT !.approval = "approved"] /\ l \in owed'
             /\ sheet'[t].status = "approved"
          \/ log'[l] = [log[l] EXCEPT !.approval = "rejected"]
             /\ sheet'[t].status = "rejected"
    BY <1>1 DEF Decides
  <2>4. \A l \in Linked(t) : log'[l] # None
    BY <2>2, <2>3, RowAssumption
  <2> QED
    BY <2>1, <2>3, <2>4 DEF TimeLog
<1>3. \A l \in Logs : Exists(l) /\ log[l].sheet # None => log[l].sheet \in Sheets
  BY DEF Exists, Inv, TypeOK, TimeLog
<1>4. \A l \in Logs \ Linked(t) : log'[l] = log[l]
  BY <1>1 DEF Decides
<1>5. OneSheetPerWeek'
  BY <1>1 DEF Decides, Inv, OneSheetPerWeek
<1>6. LinksAreSound'
  BY <1>1, <1>2, <1>3, <1>4, RowAssumption
  DEF Decides, Inv, LinksAreSound, Exists, Linked
<1>7. DecisionsSettleLogs'
  BY <1>1, <1>2, <1>3, <1>4 DEF Decides, Inv, DecisionsSettleLogs, Exists, Linked
<1>8. ApprovalsAccountedFor'
  BY <1>1, <1>2, <1>4 DEF Decides, Inv, ApprovalsAccountedFor, Exists
<1> QED
  BY <1>5, <1>6, <1>7, <1>8 DEF Inv

LEMMA InvStep == Inv /\ [Next]_vars => Inv'
<1> SUFFICES ASSUME Inv, [Next]_vars PROVE Inv'
  OBVIOUS
<1>1. TypeOK'
  BY TypeStep DEF Inv
<1>2. CASE \E l \in Logs : LogEffect(l)
  BY <1>1, <1>2, LogKeepsInv
<1>3. CASE \E t \in Sheets, u \in Users, w \in Weeks :
             SubmitTimesheet(t, u, w[1], w[2])
  BY <1>1, <1>3, SubmitKeepsInv
<1>4. CASE \E t \in Sheets : ApproveTimesheet(t) \/ RejectTimesheet(t)
  BY <1>1, <1>4, DecisionKeepsInv
<1>5. CASE /\ UNCHANGED <<log, sheet, total>>
           /\ owed \cup seen \cup lost \subseteq owed' \cup seen' \cup lost'
  BY <1>1, <1>5 DEF Inv, OneSheetPerWeek, LinksAreSound, DecisionsSettleLogs,
     ApprovalsAccountedFor, Exists
<1> QED
  BY <1>2, <1>3, <1>4, <1>5, StepCases DEF Inv

LEMMA InvHolds == Spec => []Inv
BY InvInit, InvStep, PTL DEF Spec
-----------------------------------------------------------------------------
(* What the invariant gives.                                               *)

(* Submission is the only way a timesheet comes into being and it looks    *)
(* the week up first: no user ever has two timesheets for one week start.  *)
THEOREM OneSheetPerWeekHolds == Spec => []OneSheetPerWeek
BY InvHolds, PTL DEF Inv

(* Every link of a log names an existing timesheet of the log's own user   *)
(* that starts no later than the log's date.                               *)
THEOREM LinksAreSoundHolds == Spec => []LinksAreSound
BY InvHolds, PTL DEF Inv

(* A decided timesheet and the logs linked to it agree.                    *)
THEOREM DecisionsSettleLogsHolds == Spec => []DecisionsSettleLogs
BY InvHolds, PTL DEF Inv

(* Whatever fails after a commit, an approved log was announced, is to be, *)
(* or is known to have been dropped.                                       *)
THEOREM ApprovalsAccountedForHolds == Spec => []ApprovalsAccountedFor
BY InvHolds, PTL DEF Inv

(* No request changes an approved timesheet or its total.                  *)
THEOREM ApprovedSheetIsFinalHolds == Spec => ApprovedSheetIsFinal
<1> DEFINE Final == \A t \in Sheets : sheet[t] # None /\ sheet[t].status = "approved" =>
                      sheet'[t] = sheet[t] /\ total'[t] = total[t]
<1>1. TypeOK /\ [Next]_vars => Final
  <2> SUFFICES ASSUME TypeOK, [Next]_vars PROVE Final
    OBVIOUS
  <2>1. CASE \E t \in Sheets, u \in Users, w \in Weeks :
               SubmitTimesheet(t, u, w[1], w[2])
    BY <2>1, SubmitEffect
  <2>2. CASE \E t \in Sheets : ApproveTimesheet(t) \/ RejectTimesheet(t)
    BY <2>2, ApproveEffect, RejectEffect DEF Decides
  <2>3. CASE UNCHANGED <<sheet, total>>
    BY <2>3
  <2> QED
    BY <2>1, <2>2, <2>3, StepCases DEF LogEffect
<1> QED
  BY <1>1, TypeCorrect, PTL DEF Spec, ApprovedSheetIsFinal

(* An approval is taken back only by stopping the timer of the log or by a *)
(* submission that collects the log.                                       *)
THEOREM ApprovalLostOnlyByHolds == Spec => ApprovalLostOnlyBy
<1> DEFINE OnlyBy ==
      \A l \in Logs :
        Exists(l) /\ log[l].approval = "approved" /\ log'[l].approval # "approved"
        => \/ log[l].timer # "completed" /\ log'[l].timer = "completed"
           \/ /\ log'[l].sheet # None
              /\ sheet'[log'[l].sheet].status = "submitted"
              /\ sheet' # sheet
<1>1. TypeOK /\ [Next]_vars => OnlyBy
  <2> SUFFICES ASSUME TypeOK, [Next]_vars, NEW k \in Logs,
                      Exists(k), log[k].approval = "approved",
                      log'[k].approval # "approved"
               PROVE  \/ log[k].timer # "completed" /\ log'[k].timer = "completed"
                      \/ /\ log'[k].sheet # None
                         /\ sheet'[log'[k].sheet].status = "submitted"
                         /\ sheet' # sheet
    OBVIOUS
  <2>1. CASE \E l \in Logs : LogEffect(l)
    <3>0. PICK l \in Logs : LogEffect(l)
      BY <2>1
    <3>1. PICK row : LogChange(l, row) /\ log' = [log EXCEPT ![l] = row]
      BY <3>0 DEF LogEffect
    <3>2. k = l /\ log'[k] = row
      BY <3>1 DEF TypeOK
    <3> QED
      BY <3>1, <3>2 DEF LogChange
  <2>2. ASSUME NEW t \in Sheets, NEW u \in Users, NEW w \in Weeks,
               SubmitTimesheet(t, u, w[1], w[2])
        PROVE  /\ log'[k].sheet # None
               /\ sheet'[log'[k].sheet].status = "submitted"
               /\ sheet' # sheet
    <3>1. PICK P \in SUBSET InRange(u, w[1], w[2]) :
            log' = [l \in Logs |-> IF l \in P THEN SubmittedLog(log[l], t)
                                              ELSE log[l]]
      BY <2>2, SubmitLinks
    <3>2. log'[k] = SubmittedLog(log[k], t) /\ log[k] \in TimeLog
      BY <3>1 DEF TypeOK, Exists
    <3>3. log'[k].sheet = t
      BY <3>2 DEF SubmittedLog, TimeLog
    <3>4. sheet'[t].status = "submitted" /\ sheet'[t] # sheet[t]
      BY <2>2, SubmitEffect, RowAssumption
    <3> QED
      BY <3>3, <3>4, NoneAssumption
  <2>3. CASE \E t \in Sheets : ApproveTimesheet(t)
    <3>1. PICK t \in Sheets : Decides(t, "approved", "approved")
      BY <2>3, ApproveEffect
    <3>2. k \in Linked(t) => log'[k].approval = "approved"
      BY <3>1 DEF Decides, TypeOK, Exists, TimeLog
    <3> QED
      BY <3>1, <3>2 DEF Decides
  <2>4. CASE \E t \in Sheets : RejectTimesheet(t)
    BY <2>4, RejectEffect DEF Decides
  <2> QED
    BY <2>1, <2>2, <2>3, <2>4, StepCases
<1> QED
  BY <1>1, TypeCorrect, PTL DEF Spec, ApprovalLostOnlyBy
-----------------------------------------------------------------------------
(* Clients whose weeks do not overlap.                                     *)
NonOverlapping == \A v, w \in Weeks : v = w \/ v[2] < w[1] \/ w[2] < v[1]

(* A linked log lies in a submitted week that starts with its timesheet.   *)
LinkedInWeek ==
  \A l \in Logs : Exists(l) /\ log[l].sheet # None =>
    \E w \in Weeks : /\ w[1] = sheet[log[l].sheet].start
                     /\ log[l].day \in w[1]..w[2]

(* A submission then links logs that are free or already its own.          *)
LEMMA CollectsOwnLogs ==
  ASSUME NonOverlapping, Inv, LinkedInWeek,
         NEW t \in Sheets, NEW u \in Users, NEW w \in Weeks,
         SubmitTimesheet(t, u, w[1], w[2]),
         NEW l \in InRange(u, w[1], w[2])
  PROVE  log[l].sheet \in {None, t}
<1> SUFFICES ASSUME log[l].sheet # None PROVE log[l].sheet = t
  OBVIOUS
<1>1. /\ l \in Logs /\ Exists(l) /\ log[l].user = u /\ log[l].day \in w[1]..w[2]
  BY DEF InRange
<1>2. log[l].sheet \in Sheets /\ log[l].day \in Nat
  BY <1>1, DaysAssumption DEF Exists, Inv, TypeOK, TimeLog
<1>3. PICK v \in Weeks : v[1] = sheet[log[l].sheet].start /\ log[l].day \in v[1]..v[2]
  BY <1>1 DEF LinkedInWeek
<1>4. v[1] \in Nat /\ v[2] \in Nat /\ w[1] \in Nat /\ w[2] \in Nat
  BY WeeksAssumption, DaysAssumption
<1>5. v = w
  BY <1>1, <1>2, <1>3, <1>4 DEF NonOverlapping
<1>6. log[l].sheet \in SheetsOf(u, w[1])
  BY <1>1, <1>2, <1>3, <1>5 DEF Inv, LinksAreSound, SheetsOf
<1> QED
  BY <1>6, SubmitEffect DEF Inv

LEMMA LinkedInWeekStep ==
  ASSUME NonOverlapping, Inv, Inv', LinkedInWeek, [Next]_vars
  PROVE  LinkedInWeek'
<1>0. \A l \in Logs : Exists(l) => log[l] \in TimeLog
  BY DEF Exists, Inv, TypeOK
<1>1. CASE \E l \in Logs : LogEffect(l)
  <2>0. PICK l \in Logs : LogEffect(l)
    BY <1>1
  <2>1. PICK row : LogChange(l, row) /\ log' = [log EXCEPT ![l] = row]
    BY <2>0 DEF LogEffect
  <2>2. sheet' = sheet
    BY <1>1 DEF LogEffect
  <2> QED
    BY <2>1, <2>2 DEF LinkedInWeek, LogChange, Exists, Inv, TypeOK
<1>2. ASSUME NEW t \in Sheets, NEW u \in Users, NEW w \in Weeks,
             SubmitTimesheet(t, u, w[1], w[2])
      PROVE  LinkedInWeek'
  <2>1. PICK P \in SUBSET InRange(u, w[1], w[2]) :
          log' = [l \in Logs |-> IF l \in P THEN SubmittedLog(log[l], t)
                                            ELSE log[l]]
    BY <1>2, SubmitLinks
  <2>2. \A l \in P : /\ log'[l].sheet = t /\ log'[l].day = log[l].day
                     /\ log[l].day \in w[1]..w[2]
    BY <2>1, <1>0 DEF InRange, SubmittedLog, TimeLog
  <2>3. sheet'[t].start = w[1] /\ \A s \in Sheets \ {t} : sheet'[s] = sheet[s]
    BY <1>2, SubmitEffect DEF Inv
  <2>4. \A l \in Logs \ P : Exists(l) /\ log[l].sheet = t => sheet[t].start = w[1]
    BY <1>2, SubmitEffect, NoneAssumption DEF Inv, LinksAreSound
  <2>5. SUFFICES ASSUME NEW l \in Logs, log'[l] # None, log'[l].sheet # None
                 PROVE  \E v \in Weeks : /\ v[1] = sheet'[log'[l].sheet].start
                                         /\ log'[l].day \in v[1]..v[2]
    BY DEF LinkedInWeek, Exists
  <2>6. CASE l \in P
    BY <2>2, <2>3, <2>6
  <2>7. CASE l \notin P
    <3>1. log'[l] = log[l]
      BY <2>1, <2>7
    <3>2. sheet'[log[l].sheet].start = sheet[log[l].sheet].start
      BY <1>0, <2>3, <2>4, <2>5, <2>7, <3>1 DEF Exists, TimeLog
    <3> QED
      BY <2>5, <3>1, <3>2 DEF LinkedInWeek, Exists
  <2> QED
    BY <2>6, <2>7
<1>3. CASE \E t \in Sheets : ApproveTimesheet(t) \/ RejectTimesheet(t)
  <2>1. PICK t \in Sheets : \/ Decides(t, "approved", "approved")
                            \/ Decides(t, "rejected", "rejected")
    BY <1>3, ApproveEffect, RejectEffect DEF Inv
  <2>2. \A l \in Logs : Exists(l) => /\ log'[l].sheet = log[l].sheet
                                     /\ log'[l].day = log[l].day
    <3>1. \A l \in Linked(t) : log'[l].sheet = log[l].sheet /\ log'[l].day = log[l].day
      BY <1>0, <2>1 DEF Decides, Linked, TimeLog
    <3>2. \A l \in Logs \ Linked(t) : log'[l] = log[l]
      BY <2>1 DEF Decides
    <3> QED
      BY <3>1, <3>2
  <2>3. \A l \in Logs : Exists(l)' => Exists(l)
    BY <2>1 DEF Decides, Linked, Exists
  <2>4. \A s \in Sheets : sheet[s] # None => sheet'[s].start = sheet[s].start
    BY <2>1 DEF Decides
  <2> QED
    BY <1>0, <2>2, <2>3, <2>4 DEF LinkedInWeek, Inv, LinksAreSound, TimeLog
<1>4. CASE UNCHANGED <<log, sheet, total>>
  BY <1>4 DEF LinkedInWeek, Exists
<1> QED
  BY <1>1, <1>2, <1>3, <1>4, StepCases DEF Inv

(* With non-overlapping weeks no later submission moves a log away from a  *)
(* timesheet that was approved, nor adds one to it.                        *)
THEOREM ApprovedSheetKeepsLogsHolds ==
  ASSUME NonOverlapping
  PROVE  Spec => ApprovedSheetKeepsLogs
<1> DEFINE Keeps ==
      \A t \in Sheets : sheet[t] # None /\ sheet[t].status = "approved" =>
        {l \in Logs : log'[l] # None /\ log'[l].sheet = t} = Linked(t)
<1>1. Init => LinkedInWeek
  BY DEF Init, LinkedInWeek, Exists
<1>2. Inv /\ Inv' /\ LinkedInWeek /\ [Next]_vars => LinkedInWeek'
  BY LinkedInWeekStep
<1>3. Inv /\ LinkedInWeek /\ [Next]_vars => Keeps
  <2> SUFFICES ASSUME Inv, LinkedInWeek, [Next]_vars, NEW a \in Sheets,
                      sheet[a] # None, sheet[a].status = "approved"
               PROVE  \A l \in Logs : log'[l] # None /\ log'[l].sheet = a
                                      <=> Exists(l) /\ log[l].sheet = a
    BY DEF Linked
  <2>0. \A l \in Logs : Exists(l) => log[l] \in TimeLog
    BY DEF Exists, Inv, TypeOK
  <2>1. CASE \E l \in Logs : LogEffect(l)
    <3>0. PICK l \in Logs : LogEffect(l)
      BY <2>1
    <3>1. PICK row : LogChange(l, row) /\ log' = [log EXCEPT ![l] = row]
      BY <3>0 DEF LogEffect
    <3>2. row # None /\ a # None
      BY <3>1, RowAssumption, NoneAssumption DEF LogChange
    <3> QED
      BY <3>1, <3>2 DEF LogChange, Exists, Inv, TypeOK
  <2>2. ASSUME NEW t \in Sheets, NEW u \in Users, NEW w \in Weeks,
               SubmitTimesheet(t, u, w[1], w[2])
        PROVE  \A l \in Logs : log'[l] # None /\ log'[l].sheet = a
                               <=> Exists(l) /\ log[l].sheet = a
    <3>1. PICK P \in SUBSET InRange(u, w[1], w[2]) :
            log' = [l \in Logs |-> IF l \in P THEN SubmittedLog(log[l], t)
                                              ELSE log[l]]
      BY <2>2, SubmitLinks
    <3>2. a # t /\ a # None
      BY <2>2, SubmitEffect, NoneAssumption DEF Inv
    <3>3. \A l \in P : log'[l].sheet = t /\ log[l].sheet \in {None, t}
      BY <2>0, <2>2, <3>1, CollectsOwnLogs DEF InRange, SubmittedLog, TimeLog
    <3> QED
      BY <3>1, <3>2, <3>3 DEF Exists
  <2>3. CASE \E t \in Sheets : ApproveTimesheet(t) \/ RejectTimesheet(t)
    <3>1. PICK t \in Sheets : \/ Decides(t, "approved", "approved")
                              \/ Decides(t, "rejected", "rejected")
      BY <2>3, ApproveEffect, RejectEffect DEF Inv
    <3>2. a # t
      BY <3>1 DEF Decides
    <3>3. \A l \in Linked(t) : log[l].sheet = t /\ log'[l].sheet = t
      BY <2>0, <3>1 DEF Decides, Linked, TimeLog
    <3> QED
      BY <3>1, <3>2, <3>3 DEF Decides, Exists
  <2>4. CASE UNCHANGED <<log, sheet, total>>
    BY <2>4 DEF Exists
  <2> QED
    BY <2>1, <2>2, <2>3, <2>4, StepCases DEF Inv
<1> QED
  BY <1>1, <1>2, <1>3, InvHolds, PTL DEF Spec, ApprovedSheetKeepsLogs
-----------------------------------------------------------------------------
(* Clients whose weeks, moreover, are never empty, with logs that fit one  *)
(* page.  The range of an empty week would contain no log, and its         *)
(* resubmission store a total of 0 over logs that stay linked.             *)
NoEmptyWeek == \A w \in Weeks : w[1] <= w[2]

(* A page that is not full is the whole range.                             *)
LEMMA PageIsComplete ==
  ASSUME Cardinality(Logs) <= PageLimit, NEW S \in SUBSET Logs, NEW P \in Page(S)
  PROVE  P = S
<1>1. IsFiniteSet(S) /\ Cardinality(S) \in Nat /\ Cardinality(Logs) \in Nat
      /\ Cardinality(S) <= Cardinality(Logs)
  BY LogsAssumption, FS_Subset, FS_CardinalityType
<1>2. P \in SUBSET S /\ Cardinality(P) = Cardinality(S)
  BY <1>1, PageAssumption DEF Page
<1> QED
  BY <1>1, <1>2, FS_Subset

(* Whatever is linked to the timesheet already is in the submitted week.   *)
LEMMA RangeHasOwnLogs ==
  ASSUME NonOverlapping, NoEmptyWeek, Inv, LinkedInWeek,
         NEW t \in Sheets, NEW u \in Users, NEW w \in Weeks,
         SubmitTimesheet(t, u, w[1], w[2]),
         NEW l \in Linked(t)
  PROVE  l \in InRange(u, w[1], w[2])
<1>1. /\ l \in Logs /\ Exists(l) /\ log[l].sheet = t /\ t # None
      /\ log[l] \in TimeLog /\ log[l].day \in Nat
  BY NoneAssumption, DaysAssumption DEF Linked, Inv, TypeOK, Exists, TimeLog
<1>2. sheet[t] # None /\ sheet[t].user = log[l].user
  BY <1>1 DEF Inv, LinksAreSound
<1>3. sheet[t].user = u /\ sheet[t].start = w[1]
  BY <1>2, SubmitEffect DEF Inv
<1>4. PICK v \in Weeks : v[1] = w[1] /\ log[l].day \in v[1]..v[2]
  BY <1>1, <1>3 DEF LinkedInWeek
<1>5. v[1] \in Nat /\ v[2] \in Nat /\ w[1] \in Nat /\ w[2] \in Nat
  BY WeeksAssumption, DaysAssumption
<1>6. v = w
  BY <1>4, <1>5 DEF NonOverlapping, NoEmptyWeek
<1> QED
  BY <1>1, <1>2, <1>3, <1>4, <1>6 DEF InRange

(* The stored total is that of exactly the logs that the timesheet has     *)
(* after the submission.                                                   *)
LEMMA SubmissionCovers ==
  ASSUME NonOverlapping, NoEmptyWeek, Cardinality(Logs) <= PageLimit,
         Inv, LinkedInWeek,
         NEW t \in Sheets, NEW u \in Users, NEW w \in Weeks,
         SubmitTimesheet(t, u, w[1], w[2])
  PROVE  total'[t] = SumFunction([l \in {k \in Logs : log'[k] # None /\ log'[k].sheet = t}
                                    |-> log'[l].hours])
<1> DEFINE S == InRange(u, w[1], w[2])
           T == {k \in Logs : log'[k] # None /\ log'[k].sheet = t}
<1>1. S \in SUBSET Logs
  BY DEF InRange
<1>2. PICK P \in Page(S) :
        /\ total' = [total EXCEPT ![t] = SumHours(P)]
        /\ log' = [l \in Logs |-> IF l \in P THEN SubmittedLog(log[l], t) ELSE log[l]]
  BY DEF SubmitTimesheet
<1>3. P = S
  BY <1>1, <1>2, PageIsComplete
<1>4. total'[t] = SumHours(S)
  BY <1>2, <1>3 DEF Inv, TypeOK
<1>5. \A l \in S : /\ log[l] \in TimeLog /\ log'[l] = SubmittedLog(log[l], t)
                   /\ SubmittedLog(log[l], t) \in TimeLog
  <2>1. \A l \in S : log[l] \in TimeLog
    BY DEF InRange, Exists, Inv, TypeOK
  <2>2. \A l \in S : SubmittedLog(log[l], t) \in TimeLog
    BY <2>1 DEF SubmittedLog, TimeLog, ApprovalStatus
  <2> QED
    BY <1>1, <1>2, <1>3, <2>1, <2>2
<1>6. \A l \in S : log'[l] # None /\ log'[l].sheet = t /\ log'[l].hours = log[l].hours
  <2>1. \A l \in S : log'[l] # None
    BY <1>5, RowAssumption
  <2> QED
    BY <1>5, <2>1 DEF SubmittedLog, TimeLog
<1>7. T = S
  <2>1. \A l \in Logs \ S : log'[l] = log[l]
    BY <1>2, <1>3
  <2>2. Linked(t) \subseteq S
    BY RangeHasOwnLogs
  <2> HIDE DEF S
  <2> QED
    BY <1>1, <1>6, <2>1, <2>2 DEF Linked, Exists
<1>8. [l \in T |-> log'[l].hours] = [l \in S |-> log[l].hours]
  <2> HIDE DEF S, T
  <2> QED
    BY <1>6, <1>7
<1> QED
  BY <1>4, <1>8 DEF SumHours

(* For such clients the total of a submitted timesheet is that of the logs *)
(* a decision on it reaches: none is left out, none counted that another   *)
(* timesheet keeps, however often it was rejected and submitted before.    *)
THEOREM SubmittedTotalCoversLogsHolds ==
  ASSUME NonOverlapping, NoEmptyWeek, Cardinality(Logs) <= PageLimit
  PROVE  Spec => SubmittedTotalCoversLogs
<1> DEFINE Covers ==
      \A t \in Sheets : sheet'[t] # sheet[t] /\ sheet'[t].status = "submitted" =>
        total'[t] = SumFunction([l \in {k \in Logs : log'[k] # None /\ log'[k].sheet = t}
                                   |-> log'[l].hours])
<1>1. Init => LinkedInWeek
  BY DEF Init, LinkedInWeek, Exists
<1>2. Inv /\ Inv' /\ LinkedInWeek /\ [Next]_vars => LinkedInWeek'
  BY LinkedInWeekStep
<1>3. Inv /\ LinkedInWeek /\ [Next]_vars => Covers
  <2> SUFFICES ASSUME Inv, LinkedInWeek, [Next]_vars, NEW a \in Sheets,
                      sheet'[a] # sheet[a], sheet'[a].status = "submitted"
               PROVE  total'[a] = SumFunction(
                        [l \in {k \in Logs : log'[k] # None /\ log'[k].sheet = a}
                           |-> log'[l].hours])
    OBVIOUS
  <2>1. ASSUME NEW t \in Sheets, NEW u \in Users, NEW w \in Weeks,
               SubmitTimesheet(t, u, w[1], w[2])
        PROVE  a = t
    BY <2>1, SubmitEffect DEF Inv
  <2>2. ~\E t \in Sheets : ApproveTimesheet(t) \/ RejectTimesheet(t)
    BY ApproveEffect, RejectEffect DEF Decides, Inv
  <2>3. PICK t \in Sheets, u \in Users, w \in Weeks : SubmitTimesheet(t, u, w[1], w[2])
    BY <2>2, StepCases DEF LogEffect, Inv
  <2> QED
    BY <2>1, <2>3, SubmissionCovers
<1> QED
  BY <1>1, <1>2, <1>3, InvHolds, PTL DEF Spec, SubmittedTotalCoversLogs
=============================================================================

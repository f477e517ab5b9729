---------------------- MODULE TimesheetRequestsProofs ----------------------
(***************************************************************************)
(* Theorems about TimesheetRequests, for any number of requests in flight, *)
(* any sets of users, logs, timesheets, dates and weeks, any page limit.   *)
(***************************************************************************)
EXTENDS TimesheetRequests, FiniteSums

Fields == {"op", "root", "at", "id", "value", "todo", "to", "news"}
Operations == LogOps \cup SheetOps \cup {"create", "start", "submit"}
Places == {"merge", "collect", "next", "write", "list", "publish"}

(* The approvals that are announced, are about to be, or are lost.         *)
Accounted == Owed \cup seen \cup lost

(* The row that an UPDATE would make of any row of timelogs.               *)
Patches(p) == \A row \in TimeLog : Over(p, row) \in TimeLog

(* What a request relies on at each of its places: it has its fields; what *)
(* it copied exists and has the shape of the table; a cascade owes nothing *)
(* before it has listed its logs and then all of those it approves; and    *)
(* where it writes an approval it will announce it, unless someone did.    *)
Shaped(r) ==
  /\ DOMAIN r = Fields
  /\ r.op \in Operations /\ r.at \in Places
  /\ r.id \in Logs \cup Sheets /\ r.news \subseteq Logs
  /\ r.op \in SheetOps \cup {"submit"} => r.root \in Sheets
  /\ r.at = "collect" => r.op = "submit" /\ r.id = r.root
  /\ r.at = "list" => r.op \in SheetOps
Copied(r) ==
  /\ r.at \in {"merge", "write"} /\ r.id \in Logs => Exists(r.id)
  /\ r.at = "merge" /\ r.id \in Logs => r.value \in TimeLog
  /\ r.at = "write" /\ r.id \in Logs => Patches(r.value)
  /\ \A l \in DOMAIN r.todo : l \in Logs /\ Exists(l) /\ r.todo[l] \in TimeLog
Owing(r) ==
  /\ r.op \in SheetOps /\ (r.at \in {"merge", "list"} \/ (r.at = "write" /\ r.id = r.root))
       => r.news = {}
  /\ r.op = "approve_sheet" /\ r.at # "publish" => DOMAIN r.todo \subseteq r.news
Announcing(r) ==
  /\ r.at = "merge" /\ r.id \in Logs /\ r.value.approval = "approved"
       => r.id \in Accounted \cup r.news
  /\ r.at = "write" /\ r.id \in Logs /\ "approval" \in DOMAIN r.value
       /\ r.value.approval = "approved"
       => r.id \in Accounted \cup r.news
Fits(r) == r = Idle \/ (Shaped(r) /\ Copied(r) /\ Owing(r) /\ Announcing(r))

(* The uncommitted rows of request r.                                      *)
Holds(r, m) ==
  \A l \in DOMAIN m \cap Logs :
    m[l] \in TimeLog /\ (m[l].approval = "approved" => l \in Accounted \cup r.news)

LogsOK == log \in [Logs -> TimeLog \cup {None}]
RequestsOK ==
  /\ DOMAIN req = Workers /\ DOMAIN mine = Workers
  /\ \A w \in Workers : Fits(req[w]) /\ Holds(req[w], mine[w])

(* The inductive invariant.                                                *)
Inv == LogsOK /\ RequestsOK /\ ApprovalsAccountedFor
-----------------------------------------------------------------------------
(* The methods of the entities.                                            *)

(* The rounding of a timer yields hours: natural numbers.                  *)
LEMMA RoundedHoursType ==
  ASSUME NEW s \in Nat
  PROVE  RoundedHours(s) \subseteq Nat
<1> DEFINE q == s \div SecondsPerUnit
<1>1. q \in Int /\ SecondsPerUnit \in Nat \ {0}
  BY UnitAssumption
<1>2. q >= 0
  BY UnitAssumption
<1> QED
  BY <1>1, <1>2 DEF RoundedHours

(* What an elapsed segment adds stays within the bound of the model.       *)
LEMMA SegmentsType ==
  ASSUME NEW r \in TimeLog, NEW e \in Segments(r)
  PROVE  r.seconds + e \in 0..MaxSeconds
BY UnitAssumption DEF Segments, TimeLog

(* The columns of a log that is worked on and the one that a decision      *)
(* moves: nothing but approve() approves.                                  *)
Reworked(r, e) ==
  /\ e \in TimeLog /\ e.sheet = r.sheet
  /\ e.approval \in {r.approval, "pending_manager"}

LEMMA SegmentReworks ==
  ASSUME NEW r \in TimeLog, NEW e \in Segments(r), NEW h \in RoundedHours(r.seconds + e)
  PROVE  Reworked(r, Paused(r, e, h)) /\ Reworked(r, Stopped(r, e, h))
<1>1. r.seconds + e \in 0..MaxSeconds /\ h \in Nat
  BY SegmentsType, RoundedHoursType, UnitAssumption
<1>2. Reworked(r, Paused(r, e, h))
  BY <1>1 DEF Reworked, Paused, TimeLog, TimerStatus
<1>3. Reworked(r, Stopped(r, e, h))
  BY <1>1 DEF Reworked, Stopped, TimeLog, TimerStatus, ApprovalStatus
<1> QED
  BY <1>2, <1>3

LEMMA EditReworks ==
  ASSUME NEW r \in TimeLog
  PROVE  Reworked(r, Resumed(r)) /\ \A h \in EditedHours(r) : Reworked(r, HoursUpdated(r, h))
BY UnitAssumption DEF Reworked, Resumed, HoursUpdated, TimeLog, TimerStatus, EditedHours, ValidHours

LEMMA Decided ==
  ASSUME NEW r \in TimeLog
  PROVE  /\ ApprovedLog(r) \in TimeLog /\ ApprovedLog(r).sheet = r.sheet
         /\ RejectedLog(r) \in TimeLog /\ RejectedLog(r).sheet = r.sheet
         /\ ApprovedLog(r).approval = "approved" /\ RejectedLog(r).approval = "rejected"
BY DEF ApprovedLog, RejectedLog, TimeLog, ApprovalStatus

LEMMA Submitted ==
  ASSUME NEW r \in TimeLog, NEW t \in Sheets
  PROVE  /\ SubmittedLog(r, t) \in TimeLog /\ SubmittedLog(r, t).sheet = t
         /\ SubmittedLog(r, t).approval = "pending_manager"
BY DEF SubmittedLog, TimeLog, ApprovalStatus

LEMMA NewRows ==
  ASSUME NEW u \in Users, NEW d \in Days
  PROVE  /\ TimerLog(u, d) \in TimeLog /\ TimerLog(u, d).approval = "draft"
         /\ \A h \in ValidHours : /\ ManualLog(u, d, h) \in TimeLog
                                  /\ ManualLog(u, d, h).approval = "pending_manager"
BY UnitAssumption
DEF TimerLog, ManualLog, TimeLog, TimerStatus, ApprovalStatus, ValidHours
-----------------------------------------------------------------------------
(* Patches: what an UPDATE of some columns makes of a row.                 *)

Columns == {"user", "day", "timer", "seconds", "hours", "approval", "sheet"}

LEMMA LogColumns == \A r \in TimeLog : DOMAIN r = Columns
BY DEF TimeLog, Columns

LEMMA PatchedRow ==
  ASSUME NEW e \in TimeLog, NEW row \in TimeLog, NEW p, DOMAIN p \subseteq DOMAIN e,
         \A c \in DOMAIN p : p[c] = e[c]
  PROVE  Over(p, row) \in TimeLog
<1> DEFINE n == Over(p, row)
<1>1. /\ DOMAIN n = Columns
      /\ \A c \in Columns : n[c] = e[c] \/ n[c] = row[c]
  BY LogColumns DEF Over
<1>2. n = [c \in Columns |-> n[c]]
  BY <1>1 DEF Over
<1> HIDE DEF n
<1>3. n = [user |-> n.user, day |-> n.day, timer |-> n.timer, seconds |-> n.seconds,
           hours |-> n.hours, approval |-> n.approval, sheet |-> n.sheet]
  BY <1>1, <1>2 DEF Columns
<1>4. /\ n.user \in Users /\ n.day \in Days /\ n.timer \in TimerStatus
      /\ n.seconds \in 0..MaxSeconds /\ n.hours \in Nat
      /\ n.approval \in ApprovalStatus /\ n.sheet \in Sheets \cup {None}
  BY <1>1 DEF Columns, TimeLog
<1>5. n \in TimeLog
  BY <1>3, <1>4 DEF TimeLog
<1> QED
  BY <1>5 DEF n

LEMMA DirtyColumns ==
  ASSUME NEW e, NEW row
  PROVE  /\ DOMAIN Dirty(e, row) = {d \in DOMAIN e : e[d] # row[d]}
         /\ \A c \in DOMAIN Dirty(e, row) : Dirty(e, row)[c] = e[c]
BY DEF Dirty

LEMMA DirtyPatches ==
  ASSUME NEW e \in TimeLog, NEW row
  PROVE  /\ Patches(Dirty(e, row))
         /\ "approval" \in DOMAIN Dirty(e, row) => Dirty(e, row).approval = e.approval
<1> DEFINE p == Dirty(e, row)
<1>1. DOMAIN p \subseteq DOMAIN e /\ \A c \in DOMAIN p : p[c] = e[c]
  BY DirtyColumns
<1> HIDE DEF p
<1>2. Patches(p) /\ ("approval" \in DOMAIN p => p.approval = e.approval)
  BY <1>1, PatchedRow DEF Patches
<1> QED
  BY <1>2 DEF p

LEMMA PatchedApproval ==
  ASSUME NEW row \in TimeLog, NEW p
  PROVE  Over(p, row).approval = IF "approval" \in DOMAIN p THEN p.approval ELSE row.approval
BY LogColumns DEF Over, Columns
-----------------------------------------------------------------------------
(* The methods of one log, as the use cases of one log call them.          *)

LEMMA ResultsType ==
  ASSUME NEW r \in TimeLog, NEW o \in LogOps, NEW e \in Results(o, r)
  PROVE  /\ e \in TimeLog /\ e.sheet = r.sheet
         /\ e.approval = "approved" => r.approval = "approved" \/ o = "approve_log"
<1>1. CASE o = "pause"
  <2>1. PICK s \in Segments(r) : \E h \in RoundedHours(r.seconds + s) : e = Paused(r, s, h)
    BY <1>1 DEF Results
  <2> QED
    BY <2>1, SegmentReworks DEF Reworked
<1>2. CASE o = "stop"
  <2>1. PICK s \in Segments(r) : \E h \in RoundedHours(r.seconds + s) : e = Stopped(r, s, h)
    BY <1>2 DEF Results
  <2> QED
    BY <2>1, SegmentReworks DEF Reworked
<1>3. CASE o = "resume"
  BY <1>3, EditReworks DEF Results, Reworked
<1>4. CASE o = "update"
  BY <1>4, EditReworks DEF Results, Reworked
<1>5. CASE o = "approve_log"
  BY <1>5, Decided DEF Results
<1>6. CASE o = "reject_log"
  BY <1>6, Decided DEF Results
<1> QED
  BY <1>1, <1>2, <1>3, <1>4, <1>5, <1>6 DEF LogOps

LEMMA SettledType ==
  ASSUME NEW w \in Workers, NEW r \in TimeLog, NEW e \in Settled(w, r),
         req[w].op = "submit" => req[w].root \in Sheets
  PROVE  /\ e \in TimeLog
         /\ e.approval = "approved" => req[w].op = "approve_sheet"
<1>1. CASE req[w].op = "submit"
  BY <1>1, Submitted DEF Settled
<1>2. CASE req[w].op = "approve_sheet"
  BY <1>2, Decided DEF Settled
<1>3. CASE req[w].op = "reject_sheet"
  BY <1>3, Decided DEF Settled
<1> QED
  BY <1>1, <1>2, <1>3 DEF Settled
-----------------------------------------------------------------------------
(* A request moves on, the others are where they were.                     *)
Becomes(w, r) == req' = [req EXCEPT ![w] = r]
Has(w, m) == mine' = [mine EXCEPT ![w] = m] \/ (mine' = mine /\ m = mine[w])

LEMMA IdleFits == Fits(Idle) /\ Idle.news = {} /\ Idle.op \notin Operations
BY DEF Fits, Idle, Operations, LogOps, SheetOps

LEMMA Busy ==
  ASSUME RequestsOK, NEW w \in Workers, NEW place, At(w, place)
  PROVE  /\ Shaped(req[w]) /\ Copied(req[w]) /\ Owing(req[w]) /\ Announcing(req[w])
         /\ req[w] # Idle /\ req[w].at = place
BY DEF RequestsOK, Fits, At

LEMMA ShapedIsBusy == \A r : Shaped(r) => r # Idle
BY IdleFits DEF Shaped

LEMMA StillAccounted ==
  ASSUME RequestsOK, NEW w \in Workers, NEW r, Becomes(w, r),
         At(w, "publish") => req[w].news \subseteq
           seen' \cup lost' \cup (IF r # Idle /\ r.at = "publish" THEN r.news ELSE {}),
         seen \subseteq seen', lost \subseteq lost'
  PROVE  Accounted \subseteq Accounted'
<1> SUFFICES ASSUME NEW l \in Accounted PROVE l \in Accounted'
  OBVIOUS
<1>1. CASE l \in seen \cup lost
  BY <1>1 DEF Accounted
<1>2. CASE l \in Owed
  <2>1. PICK v \in Workers : At(v, "publish") /\ l \in req[v].news
    BY <1>2 DEF Owed
  <2>2. CASE v # w
    <3>1. req'[v] = req[v]
      BY <2>2 DEF Becomes, RequestsOK
    <3>2. At(v, "publish")'
      BY <2>1, <3>1 DEF At
    <3>3. l \in Owed'
      BY <2>1, <3>1, <3>2 DEF Owed
    <3> QED
      BY <3>3 DEF Accounted
  <2>3. CASE v = w
    <3>1. req'[w] = r
      BY DEF Becomes, RequestsOK
    <3>2. CASE l \in seen' \cup lost'
      BY <3>2 DEF Accounted
    <3>3. CASE r # Idle /\ r.at = "publish" /\ l \in r.news
      <4>1. At(w, "publish")' /\ l \in req'[w].news
        BY <3>1, <3>3 DEF At
      <4>2. l \in Owed'
        BY <4>1 DEF Owed
      <4> QED
        BY <4>2 DEF Accounted
    <3> QED
      BY <2>1, <2>3, <3>2, <3>3
  <2> QED
    BY <2>2, <2>3
<1> QED
  BY <1>1, <1>2 DEF Accounted

(* What a request relies on stays while logs are kept and approvals stay   *)
(* accounted for.                                                          *)
LEMMA OthersFit ==
  ASSUME NEW v \in Workers, Fits(req[v]), Holds(req[v], mine[v]),
         req'[v] = req[v], mine'[v] = mine[v],
         \A l \in Logs : Exists(l) => Exists(l)', Accounted \subseteq Accounted'
  PROVE  Fits(req[v])' /\ Holds(req[v], mine[v])'
<1>1. CASE req[v] = Idle
  BY <1>1 DEF Fits, Holds
<1>2. CASE Shaped(req[v]) /\ Copied(req[v]) /\ Owing(req[v]) /\ Announcing(req[v])
  <2>1. Shaped(req[v])' /\ Owing(req[v])'
    BY <1>2 DEF Shaped, Owing
  <2>2. Copied(req[v])'
    BY <1>2 DEF Copied
  <2>3. Announcing(req[v])'
    BY <1>2 DEF Announcing
  <2> QED
    BY <2>1, <2>2, <2>3 DEF Fits, Holds
<1> QED
  BY <1>1, <1>2 DEF Fits

(* A step that commits nothing.                                            *)
LEMMA Moves ==
  ASSUME Inv, NEW w \in Workers, NEW r, NEW m, Becomes(w, r), Has(w, m), log' = log,
         Fits(r), Holds(r, m), Accounted \subseteq Accounted'
  PROVE  Inv'
<1>1. /\ req'[w] = r /\ mine'[w] = m
      /\ \A v \in Workers \ {w} : req'[v] = req[v] /\ mine'[v] = mine[v]
      /\ DOMAIN req' = Workers /\ DOMAIN mine' = Workers
  BY DEF Becomes, Has, Inv, RequestsOK
<1>2. \A l \in Logs : Exists(l) <=> Exists(l)'
  BY DEF Exists
<1>3. ASSUME NEW v \in Workers \ {w} PROVE Fits(req[v])' /\ Holds(req[v], mine[v])'
  BY <1>1, <1>2, OthersFit DEF Inv, RequestsOK
<1>4. Fits(req[w])' /\ Holds(req[w], mine[w])'
  <2>1. CASE r = Idle
    BY <1>1, <2>1 DEF Fits, Holds
  <2>2. CASE Shaped(r) /\ Copied(r) /\ Owing(r) /\ Announcing(r)
    <3>1. Shaped(req[w])' /\ Owing(req[w])'
      BY <1>1, <2>2 DEF Shaped, Owing
    <3>2. Copied(req[w])'
      BY <1>1, <1>2, <2>2 DEF Copied
    <3>3. Announcing(req[w])'
      BY <1>1, <2>2 DEF Announcing
    <3> QED
      BY <1>1, <3>1, <3>2, <3>3 DEF Fits, Holds
  <2> QED
    BY <2>1, <2>2 DEF Fits
<1>5. ApprovalsAccountedFor'
  BY <1>2 DEF Inv, ApprovalsAccountedFor, Accounted
<1> QED
  BY <1>1, <1>3, <1>4, <1>5 DEF Inv, RequestsOK, LogsOK

LEMMA ApprovedIsAccounted ==
  ASSUME Inv, NEW l \in Logs, Exists(l)
  PROVE  log[l] \in TimeLog /\ (log[l].approval = "approved" => l \in Accounted)
BY DEF Inv, LogsOK, Exists, ApprovalsAccountedFor, Accounted
-----------------------------------------------------------------------------
(* Requests arrive.                                                        *)

LEMMA InitInv == Init => Inv
<1> SUFFICES ASSUME Init PROVE Inv
  OBVIOUS
<1>1. LogsOK /\ ApprovalsAccountedFor
  BY DEF Init, LogsOK, ApprovalsAccountedFor, Exists
<1>2. \A w \in Workers : Fits(req[w]) /\ Holds(req[w], mine[w])
  BY IdleFits DEF Init, Holds, Empty
<1> QED
  BY <1>1, <1>2 DEF Init, Inv, RequestsOK

(* The state of a request that has begun.                                  *)
Begun(o, root, at, value, owes) ==
  [op |-> o, root |-> root, at |-> at, id |-> root, value |-> value,
   todo |-> Empty, to |-> 0, news |-> owes]

LEMMA BeginKeepsInv ==
  ASSUME Inv, NEW w \in Workers, req[w] = Idle, NEW r, NEW m, Becomes(w, r), Has(w, m),
         UNCHANGED <<log, seen, lost>>, Fits(r),
         m = mine[w] \/ Holds(r, m)
  PROVE  Inv'
<1>1. Accounted \subseteq Accounted'
  BY StillAccounted DEF Inv, At
<1>2. Holds(r, m)
  BY IdleFits DEF Inv, RequestsOK, Holds
<1> QED
  BY <1>1, <1>2, Moves

LEMMA LoadLogKeepsInv ==
  ASSUME Inv, NEW w \in Workers, NEW o \in LogOps, NEW l \in Logs, LoadLog(w, o, l)
  PROVE  Inv'
<1>1. PICK e \in Results(o, log[l]) :
        Begin(w, o, l, "merge", e, IF o = "approve_log" THEN {l} ELSE {})
  BY DEF LoadLog
<1> DEFINE r == Begun(o, l, "merge", e, IF o = "approve_log" THEN {l} ELSE {})
<1>2. Exists(l) /\ UNCHANGED <<log, mine, seen, lost>>
  BY DEF LoadLog
<1>3. log[l] \in TimeLog /\ (log[l].approval = "approved" => l \in Accounted)
  BY <1>2, ApprovedIsAccounted
<1>4. /\ e \in TimeLog
      /\ e.approval = "approved" => log[l].approval = "approved" \/ o = "approve_log"
  BY <1>3, ResultsType
<1>5. req[w] = Idle /\ Becomes(w, r)
  BY <1>1 DEF Begin, Admitted, Becomes, Begun
<1>6. Shaped(r) /\ Owing(r)
  BY DEF Shaped, Owing, Begun, Fields, Operations, Places, LogOps, SheetOps
<1>7. Copied(r) /\ Announcing(r)
  BY <1>2, <1>3, <1>4 DEF Copied, Announcing, Begun, Empty
<1>8. Fits(r)
  BY <1>6, <1>7 DEF Fits
<1> HIDE DEF r
<1> QED
  BY <1>2, <1>5, <1>8, BeginKeepsInv DEF Has

LEMMA InsertLogKeepsInv ==
  ASSUME Inv, NEW w \in Workers, NEW o \in {"create", "start"}, NEW l \in Logs,
         NEW row \in TimeLog, row.approval # "approved", InsertLog(w, o, l, row)
  PROVE  Inv'
<1> DEFINE r == Begun(o, l, "next", None, {})
<1>1. /\ req[w] = Idle /\ Becomes(w, r)
      /\ Has(w, Only(l, row)) /\ UNCHANGED <<log, seen, lost>>
  BY DEF InsertLog, Begin, Admitted, Becomes, Begun, Has
<1>2. Shaped(r) /\ Owing(r)
  BY DEF Shaped, Owing, Begun, Fields, Operations, Places, LogOps, SheetOps
<1>3. Copied(r) /\ Announcing(r)
  BY DEF Copied, Announcing, Begun, Empty
<1>4. Fits(r)
  BY <1>2, <1>3 DEF Fits
<1>5. Holds(r, Only(l, row))
  BY DEF Holds, Only
<1> HIDE DEF r
<1> QED
  BY <1>1, <1>4, <1>5, BeginKeepsInv

LEMMA LoadSheetKeepsInv ==
  ASSUME Inv, NEW w \in Workers, NEW o \in SheetOps, NEW t \in Sheets, LoadSheet(w, o, t)
  PROVE  Inv'
<1> DEFINE r == Begun(o, t, "merge", Moved(sheet[t], Verdict(o)), {})
<1>1. /\ req[w] = Idle /\ Becomes(w, r)
      /\ Has(w, mine[w]) /\ UNCHANGED <<log, seen, lost>>
  BY DEF LoadSheet, Begin, Admitted, Becomes, Begun, Has
<1>2. Shaped(r) /\ Owing(r)
  BY DEF Shaped, Owing, Begun, Empty, Fields, Operations, Places, LogOps, SheetOps
<1>3. Copied(r) /\ Announcing(r)
  BY IdsAssumption DEF Copied, Announcing, Begun, Empty
<1>4. Fits(r)
  BY <1>2, <1>3 DEF Fits
<1> HIDE DEF r
<1> QED
  BY <1>1, <1>4, BeginKeepsInv

LEMMA LookupKeepsInv ==
  ASSUME Inv, NEW w \in Workers, NEW t \in Sheets, NEW u, NEW from, NEW to,
         Lookup(w, t, u, from, to)
  PROVE  Inv'
<1>1. PICK value : Becomes(w, [op |-> "submit", root |-> t, at |-> "collect", id |-> t,
                               value |-> value, todo |-> Empty, to |-> to, news |-> {}])
  BY DEF Lookup, Becomes
<1> DEFINE r == [op |-> "submit", root |-> t, at |-> "collect", id |-> t,
                 value |-> value, todo |-> Empty, to |-> to, news |-> {}]
<1>2. /\ req[w] = Idle /\ Has(w, mine[w]) /\ UNCHANGED <<log, seen, lost>>
  BY DEF Lookup, Admitted, Has
<1>3. Shaped(r) /\ Owing(r)
  BY DEF Shaped, Owing, Fields, Operations, Places, LogOps, SheetOps
<1>4. Copied(r) /\ Announcing(r)
  BY DEF Copied, Announcing, Empty
<1>5. Fits(r)
  BY <1>3, <1>4 DEF Fits
<1> HIDE DEF r
<1>6. Becomes(w, r)
  BY <1>1 DEF r
<1> QED
  BY <1>2, <1>5, <1>6, BeginKeepsInv

LEMMA ArriveKeepsInv ==
  ASSUME Inv, NEW w \in Workers, Arrive(w)
  PROVE  Inv'
<1>1. ASSUME NEW o \in LogOps, NEW l \in Logs, LoadLog(w, o, l) PROVE Inv'
  BY <1>1, LoadLogKeepsInv
<1>2. ASSUME NEW o \in SheetOps, NEW t \in Sheets, LoadSheet(w, o, t) PROVE Inv'
  BY <1>2, LoadSheetKeepsInv
<1>3. ASSUME NEW l \in Logs, NEW u \in Users, NEW d \in Days, CreateTimeLog(w, l, u, d)
      PROVE  Inv'
  <2>1. PICK h \in ValidHours : InsertLog(w, "create", l, ManualLog(u, d, h))
    BY <1>3 DEF CreateTimeLog
  <2>2. ManualLog(u, d, h) \in TimeLog /\ ManualLog(u, d, h).approval # "approved"
    BY NewRows
  <2> QED
    BY <2>1, <2>2, InsertLogKeepsInv
<1>4. ASSUME NEW l \in Logs, NEW u \in Users, NEW d \in Days, StartTimer(w, l, u, d)
      PROVE  Inv'
  <2>1. TimerLog(u, d) \in TimeLog /\ TimerLog(u, d).approval # "approved"
    BY NewRows
  <2> QED
    BY <1>4, <2>1, InsertLogKeepsInv DEF StartTimer
<1>5. ASSUME NEW t \in Sheets, NEW u \in Users, NEW k \in Weeks, Lookup(w, t, u, k[1], k[2])
      PROVE  Inv'
  BY <1>5, LookupKeepsInv
<1> QED
  BY <1>1, <1>2, <1>3, <1>4, <1>5 DEF Arrive
-----------------------------------------------------------------------------
(* The statements of a request before its commit.                          *)

LEMMA StatementKeepsInv ==
  ASSUME Inv, NEW w \in Workers, ~At(w, "publish"), NEW r, NEW m, Becomes(w, r), Has(w, m),
         UNCHANGED <<log, seen, lost>>, Fits(r), Holds(r, m)
  PROVE  Inv'
<1>1. Accounted \subseteq Accounted'
  BY StillAccounted DEF Inv
<1> QED
  BY <1>1, Moves

LEMMA CollectKeepsInv ==
  ASSUME Inv, NEW w \in Workers, Collect(w)
  PROVE  Inv'
<1>1. /\ Shaped(req[w]) /\ Copied(req[w]) /\ Owing(req[w]) /\ req[w].at = "collect"
      /\ ~At(w, "publish") /\ Holds(req[w], mine[w])
  BY Busy DEF Inv, RequestsOK, Collect, At
<1>2. /\ req[w].op = "submit" /\ req[w].root \in Sheets /\ req[w].id = req[w].root
      /\ req[w].id \notin Logs
  BY <1>1, IdsAssumption DEF Shaped
<1>3. PICK P \in Page(InRange(req[w].value.user, req[w].value.start, req[w].to)) :
        LET t == req[w].root
            row == [req[w].value EXCEPT !.total = SumHours(P)]
            isNew == sheet[t] = None
        IN
        /\ req' = [req EXCEPT ![w].at = IF isNew THEN "next" ELSE "merge",
                              ![w].value = IF isNew THEN None ELSE row,
                              ![w].todo = [l \in P |-> log[l]]]
        /\ mine' = IF isNew THEN [mine EXCEPT ![w] = Only(t, row)] ELSE mine
  BY DEF Collect
<1> DEFINE isNew == sheet[req[w].root] = None
           row == [req[w].value EXCEPT !.total = SumHours(P)]
           at == IF isNew THEN "next" ELSE "merge"
           value == IF isNew THEN None ELSE row
           todo == [l \in P |-> log[l]]
           r == [req[w] EXCEPT !.at = at, !.value = value, !.todo = todo]
           m == IF isNew THEN Only(req[w].root, row) ELSE mine[w]
<1>4. \A l \in P : l \in Logs /\ Exists(l) /\ log[l] \in TimeLog
  <2>1. \A l \in P : l \in Logs /\ Exists(l)
    BY DEF Page, InRange
  <2> QED
    BY <2>1, ApprovedIsAccounted
<1>5. Becomes(w, r) /\ Has(w, m) /\ UNCHANGED <<log, seen, lost>>
  BY <1>3 DEF Becomes, Has, Inv, RequestsOK, Collect
<1> HIDE DEF value, row
<1>6. /\ r.op = "submit" /\ r.root = req[w].root /\ r.id = req[w].id /\ r.news = req[w].news
      /\ r.at \in {"next", "merge"} /\ r.todo = todo /\ DOMAIN r = Fields
  BY <1>1, <1>2 DEF Shaped, Fields
<1>7. \A l \in DOMAIN todo : l \in Logs /\ Exists(l) /\ todo[l] \in TimeLog
  BY <1>4
<1>8. Holds(r, m)
  BY <1>1, <1>2, <1>6 DEF Holds, Only
<1> HIDE DEF r, m, todo
<1>9. Shaped(r) /\ Owing(r)
  BY <1>1, <1>2, <1>6 DEF Shaped, Owing, Operations, Places, SheetOps
<1>10. Copied(r) /\ Announcing(r)
  BY <1>2, <1>6, <1>7 DEF Copied, Announcing
<1>11. Fits(r)
  BY <1>9, <1>10 DEF Fits
<1> QED
  BY <1>1, <1>5, <1>8, <1>11, StatementKeepsInv

LEMMA MergeKeepsInv ==
  ASSUME Inv, NEW w \in Workers, Merge(w)
  PROVE  Inv'
<1>1. /\ Shaped(req[w]) /\ Copied(req[w]) /\ Owing(req[w]) /\ Announcing(req[w])
      /\ req[w].at = "merge" /\ ~At(w, "publish") /\ Holds(req[w], mine[w])
  BY Busy DEF Inv, RequestsOK, Merge, At
<1> DEFINE patch == Dirty(req[w].value, Row(req[w].id))
           r == [req[w] EXCEPT !.at = "write", !.value = patch]
<1>2. Becomes(w, r) /\ Has(w, mine[w]) /\ UNCHANGED <<log, seen, lost>>
  BY DEF Merge, Becomes, Has, Inv, RequestsOK
<1>3. req[w].id \in Logs =>
        /\ Patches(patch)
        /\ "approval" \in DOMAIN patch => patch.approval = req[w].value.approval
  BY <1>1, DirtyPatches DEF Copied
<1> HIDE DEF patch
<1>4. /\ r.op = req[w].op /\ r.root = req[w].root /\ r.id = req[w].id /\ r.news = req[w].news
      /\ r.at = "write" /\ r.todo = req[w].todo /\ r.value = patch /\ DOMAIN r = Fields
  BY <1>1 DEF Shaped, Fields
<1> HIDE DEF r
<1>5. Shaped(r) /\ Owing(r)
  BY <1>1, <1>4 DEF Shaped, Owing, Places
<1>6. Copied(r) /\ Announcing(r)
  BY <1>1, <1>3, <1>4 DEF Copied, Announcing
<1>7. Fits(r) /\ Holds(r, mine[w])
  BY <1>1, <1>4, <1>5, <1>6 DEF Fits, Holds
<1> QED
  BY <1>1, <1>2, <1>7, StatementKeepsInv

LEMMA WriteKeepsInv ==
  ASSUME Inv, NEW w \in Workers, Write(w)
  PROVE  Inv'
<1>1. /\ Shaped(req[w]) /\ Copied(req[w]) /\ Owing(req[w]) /\ Announcing(req[w])
      /\ req[w].at = "write" /\ ~At(w, "publish") /\ Holds(req[w], mine[w])
  BY Busy DEF Inv, RequestsOK, Write, At
<1> DEFINE id == req[w].id
           row == Over(req[w].value, Row(id))
           m == Over(Only(id, row), mine[w])
           root == req[w].op \in SheetOps /\ id = req[w].root
           at == IF root THEN "list" ELSE "next"
           r == [req[w] EXCEPT !.at = at, !.value = None]
<1>2. Becomes(w, r) /\ Has(w, m) /\ UNCHANGED <<log, seen, lost>>
  BY DEF Write, Becomes, Has, Inv, RequestsOK
<1>3. /\ r.op = req[w].op /\ r.root = req[w].root /\ r.id = req[w].id /\ r.news = req[w].news
      /\ r.at = at /\ r.todo = req[w].todo /\ DOMAIN r = Fields
  BY <1>1 DEF Shaped, Fields
<1>4. id \in Logs =>
        row \in TimeLog /\ (row.approval = "approved" => id \in Accounted \cup r.news)
  <2> SUFFICES ASSUME id \in Logs
               PROVE  row \in TimeLog /\ (row.approval = "approved" => id \in Accounted \cup r.news)
    OBVIOUS
  <2>1. Row(id) = log[id] /\ Exists(id) /\ Patches(req[w].value)
    BY <1>1 DEF Row, Copied
  <2>2. log[id] \in TimeLog /\ (log[id].approval = "approved" => id \in Accounted)
    BY <2>1, ApprovedIsAccounted
  <2>3. row.approval = IF "approval" \in DOMAIN req[w].value THEN req[w].value.approval
                                                             ELSE log[id].approval
    BY <2>1, <2>2, PatchedApproval
  <2>4. row \in TimeLog
    BY <2>1, <2>2 DEF Patches
  <2> HIDE DEF row
  <2> QED
    BY <1>1, <1>3, <2>2, <2>3, <2>4 DEF Announcing
<1> HIDE DEF row
<1>5. /\ DOMAIN m = {id} \cup DOMAIN mine[w] /\ m[id] = row
      /\ \A k \in DOMAIN mine[w] \ {id} : m[k] = mine[w][k]
  BY DEF Over, Only
<1> HIDE DEF m, r
<1>6. Holds(r, m)
  <2> SUFFICES ASSUME NEW l \in DOMAIN m \cap Logs
               PROVE  m[l] \in TimeLog /\ (m[l].approval = "approved" => l \in Accounted \cup r.news)
    BY DEF Holds
  <2>1. CASE l = id
    BY <1>4, <1>5, <2>1
  <2>2. CASE l # id
    BY <1>1, <1>3, <1>5, <2>2 DEF Holds
  <2> QED
    BY <2>1, <2>2
<1>7. Shaped(r) /\ Owing(r)
  BY <1>1, <1>3 DEF Shaped, Owing, Places
<1>8. Copied(r) /\ Announcing(r)
  BY <1>1, <1>3 DEF Copied, Announcing
<1>9. Fits(r)
  BY <1>7, <1>8 DEF Fits
<1> QED
  BY <1>1, <1>2, <1>6, <1>9, StatementKeepsInv

LEMMA ListLinkedKeepsInv ==
  ASSUME Inv, NEW w \in Workers, ListLinked(w)
  PROVE  Inv'
<1>1. /\ Shaped(req[w]) /\ Owing(req[w])
      /\ req[w].at = "list" /\ ~At(w, "publish") /\ Holds(req[w], mine[w])
  BY Busy DEF Inv, RequestsOK, ListLinked, At
<1> DEFINE L == Listed(req[w].root)
           todo == [l \in L |-> log[l]]
           owes == IF req[w].op = "approve_sheet" THEN L ELSE {}
           r == [req[w] EXCEPT !.at = "next", !.todo = todo, !.news = owes]
<1>2. Becomes(w, r) /\ Has(w, mine[w]) /\ UNCHANGED <<log, seen, lost>>
  BY DEF ListLinked, Becomes, Has, Inv, RequestsOK
<1>3. \A l \in L : l \in Logs /\ Exists(l) /\ log[l] \in TimeLog
  <2>1. \A l \in L : l \in Logs /\ Exists(l)
    BY DEF Listed, Linked
  <2> QED
    BY <2>1, ApprovedIsAccounted
<1> HIDE DEF L
<1>4. /\ r.op = req[w].op /\ r.root = req[w].root /\ r.id = req[w].id /\ r.news = owes
      /\ r.at = "next" /\ r.todo = todo /\ DOMAIN r = Fields
  BY <1>1 DEF Shaped, Fields
<1>5. /\ \A l \in DOMAIN todo : l \in Logs /\ Exists(l) /\ todo[l] \in TimeLog
      /\ DOMAIN todo = L
  BY <1>3
<1> HIDE DEF r, todo
<1>6. Shaped(r) /\ Owing(r)
  BY <1>1, <1>3, <1>4, <1>5 DEF Shaped, Owing, Places
<1>7. Copied(r) /\ Announcing(r)
  BY <1>4, <1>5 DEF Copied, Announcing
<1>8. req[w].news = {}
  <2>1. req[w].op \in SheetOps
    BY <1>1 DEF Shaped
  <2> QED
    BY <1>1, <2>1 DEF Owing
<1>9. Fits(r) /\ Holds(r, mine[w])
  BY <1>1, <1>6, <1>7, <1>8 DEF Fits, Holds
<1> QED
  BY <1>1, <1>2, <1>9, StatementKeepsInv

LEMMA MergeNextKeepsInv ==
  ASSUME Inv, NEW w \in Workers, MergeNext(w)
  PROVE  Inv'
<1>1. /\ Shaped(req[w]) /\ Copied(req[w]) /\ Owing(req[w])
      /\ req[w].at = "next" /\ ~At(w, "publish") /\ Holds(req[w], mine[w])
  BY Busy DEF Inv, RequestsOK, MergeNext, At
<1>2. PICK l \in DOMAIN req[w].todo : \E e \in Settled(w, req[w].todo[l]) :
        req' = [req EXCEPT ![w].at = "write", ![w].id = l, ![w].value = Dirty(e, log[l]),
                           ![w].todo = [k \in DOMAIN @ \ {l} |-> @[k]]]
  BY DEF MergeNext
<1>3. PICK e \in Settled(w, req[w].todo[l]) :
        req' = [req EXCEPT ![w].at = "write", ![w].id = l, ![w].value = Dirty(e, log[l]),
                           ![w].todo = [k \in DOMAIN @ \ {l} |-> @[k]]]
  BY <1>2
<1> DEFINE patch == Dirty(e, log[l])
           rest == [k \in DOMAIN req[w].todo \ {l} |-> req[w].todo[k]]
           r == [req[w] EXCEPT !.at = "write", !.id = l, !.value = patch, !.todo = rest]
<1>4. Becomes(w, r) /\ Has(w, mine[w]) /\ UNCHANGED <<log, seen, lost>>
  BY <1>1, <1>3 DEF MergeNext, Becomes, Has, Inv, RequestsOK
<1>5. /\ l \in Logs /\ Exists(l) /\ req[w].todo[l] \in TimeLog
      /\ req[w].op = "submit" => req[w].root \in Sheets
  BY <1>1 DEF Copied, Shaped
<1>6. e \in TimeLog /\ (e.approval = "approved" => req[w].op = "approve_sheet")
  BY <1>5, SettledType
<1>7. /\ Patches(patch)
      /\ "approval" \in DOMAIN patch => patch.approval = e.approval
  BY <1>6, DirtyPatches
<1>8. /\ DOMAIN rest \subseteq DOMAIN req[w].todo
      /\ \A k \in DOMAIN rest : rest[k] = req[w].todo[k]
  OBVIOUS
<1> HIDE DEF patch, rest
<1>9. /\ r.op = req[w].op /\ r.root = req[w].root /\ r.id = l /\ r.news = req[w].news
      /\ r.at = "write" /\ r.todo = rest /\ r.value = patch /\ DOMAIN r = Fields
  BY <1>1 DEF Shaped, Fields
<1> HIDE DEF r
<1>10. Shaped(r) /\ Owing(r)
  BY <1>1, <1>5, <1>8, <1>9, IdsAssumption DEF Shaped, Owing, Places
<1>11. Copied(r)
  BY <1>1, <1>5, <1>7, <1>8, <1>9 DEF Copied
<1>12. Announcing(r)
  BY <1>1, <1>6, <1>7, <1>9 DEF Announcing, Owing
<1>13. Fits(r) /\ Holds(r, mine[w])
  BY <1>1, <1>9, <1>10, <1>11, <1>12 DEF Fits, Holds
<1> QED
  BY <1>1, <1>4, <1>13, StatementKeepsInv

LEMMA RollbackKeepsInv ==
  ASSUME Inv, NEW w \in Workers, ~At(w, "publish"), Rollback(w)
  PROVE  Inv'
<1>1. Becomes(w, Idle) /\ Has(w, Empty) /\ UNCHANGED <<log, seen, lost>>
  BY DEF Rollback, Becomes, Has
<1>2. Holds(Idle, Empty)
  BY DEF Holds, Empty
<1> QED
  BY <1>1, <1>2, IdleFits, StatementKeepsInv
-----------------------------------------------------------------------------
(* Commits, publications, crashes.                                         *)

LEMMA CommitKeepsInv ==
  ASSUME Inv, NEW w \in Workers, Commit(w)
  PROVE  Inv'
<1>1. /\ Shaped(req[w]) /\ Copied(req[w]) /\ Owing(req[w])
      /\ req[w].at = "next" /\ ~At(w, "publish") /\ Holds(req[w], mine[w])
  BY Busy DEF Inv, RequestsOK, Commit, At
<1> DEFINE r == IF req[w].news = {} THEN Idle ELSE [req[w] EXCEPT !.at = "publish"]
<1>2. Becomes(w, r) /\ Has(w, Empty) /\ UNCHANGED <<seen, lost>>
  BY DEF Commit, Becomes, Has, Inv, RequestsOK
<1>3. /\ req'[w] = r /\ mine'[w] = Empty
      /\ \A v \in Workers \ {w} : req'[v] = req[v] /\ mine'[v] = mine[v]
      /\ DOMAIN req' = Workers /\ DOMAIN mine' = Workers
  BY DEF Commit, Inv, RequestsOK
<1>4. req[w].news # {} =>
        /\ r.op = req[w].op /\ r.root = req[w].root /\ r.id = req[w].id /\ r.news = req[w].news
        /\ r.at = "publish" /\ r.todo = req[w].todo /\ DOMAIN r = Fields
  BY <1>1 DEF Shaped, Fields
<1>5. req[w].news = {} => r = Idle
  OBVIOUS
<1> HIDE DEF r
<1>6. Accounted \subseteq Accounted'
  BY <1>1, <1>2, StillAccounted DEF Inv
<1>7. req[w].news \subseteq Accounted'
  <2> SUFFICES ASSUME NEW l \in req[w].news PROVE l \in Accounted'
    OBVIOUS
  <2>1. r # Idle
    BY <1>1, <1>4, IdleFits DEF Shaped
  <2>2. At(w, "publish")' /\ l \in req'[w].news
    BY <1>3, <1>4, <2>1 DEF At
  <2>3. l \in Owed'
    BY <2>2 DEF Owed
  <2> QED
    BY <2>3 DEF Accounted
<1>8. ASSUME NEW l \in Logs
      PROVE  /\ log'[l] = log[l] \/ (log'[l] \in TimeLog /\ Exists(l)')
             /\ Exists(l) => Exists(l)'
             /\ Exists(l)' /\ log'[l].approval = "approved" => l \in Accounted'
  <2>1. CASE l \in DOMAIN mine[w]
    <3>1. log'[l] = mine[w][l]
      BY <2>1 DEF Commit
    <3>2. mine[w][l] \in TimeLog /\ mine[w][l] # None
      BY <1>1, <2>1, RowAssumption DEF Holds
    <3>3. mine[w][l].approval = "approved" => l \in Accounted \cup req[w].news
      BY <1>1, <2>1 DEF Holds
    <3> QED
      BY <1>6, <1>7, <3>1, <3>2, <3>3 DEF Exists
  <2>2. CASE l \notin DOMAIN mine[w]
    <3>1. log'[l] = log[l]
      BY <2>2 DEF Commit
    <3> QED
      BY <1>6, <3>1, ApprovedIsAccounted DEF Exists
  <2> QED
    BY <2>1, <2>2
<1>9. LogsOK'
  <2>1. \A l \in Logs : log'[l] \in TimeLog \cup {None}
    BY <1>8 DEF Inv, LogsOK
  <2>2. log' = [l \in Logs |-> IF l \in DOMAIN mine[w] THEN mine[w][l] ELSE log[l]]
    BY DEF Commit
  <2> QED
    BY <2>1, <2>2 DEF LogsOK
<1>10. ApprovalsAccountedFor'
  BY <1>8 DEF ApprovalsAccountedFor, Accounted
<1>11. ASSUME NEW v \in Workers \ {w} PROVE Fits(req[v])' /\ Holds(req[v], mine[v])'
  BY <1>3, <1>6, <1>8, OthersFit DEF Inv, RequestsOK
<1>12. Fits(req[w])'
  <2>1. CASE req[w].news = {}
    BY <1>3, <1>5, <2>1 DEF Fits
  <2>2. CASE req[w].news # {}
    <3>1. Shaped(req[w])' /\ Owing(req[w])'
      BY <1>1, <1>3, <1>4, <2>2 DEF Shaped, Owing, Places
    <3>2. Copied(req[w])'
      BY <1>1, <1>3, <1>4, <1>8, <2>2 DEF Copied
    <3>3. Announcing(req[w])'
      BY <1>3, <1>4, <2>2 DEF Announcing
    <3> QED
      BY <3>1, <3>2, <3>3 DEF Fits
  <2> QED
    BY <2>1, <2>2
<1>13. Holds(req[w], mine[w])'
  BY <1>3 DEF Holds, Empty
<1> QED
  BY <1>3, <1>9, <1>10, <1>11, <1>12, <1>13 DEF Inv, RequestsOK

LEMMA PublishKeepsInv ==
  ASSUME Inv, NEW w \in Workers, PublishApproval(w) \/ PublishFails(w)
  PROVE  Inv'
<1>1. /\ Shaped(req[w]) /\ Copied(req[w]) /\ Owing(req[w])
      /\ req[w].at = "publish" /\ At(w, "publish") /\ Holds(req[w], mine[w])
  BY Busy DEF Inv, RequestsOK, PublishApproval, PublishFails
<1>2. PICK l \in req[w].news : /\ Announced(w, l) /\ UNCHANGED <<log, mine>>
                              /\ \/ seen' = seen \cup {l} /\ lost' = lost
                                 \/ lost' = lost \cup {l} /\ seen' = seen
  BY DEF PublishApproval, PublishFails
<1> DEFINE left == req[w].news \ {l}
           r == IF left = {} THEN Idle ELSE [req[w] EXCEPT !.news = left]
<1>3. Becomes(w, r) /\ Has(w, mine[w])
  BY <1>2 DEF Announced, Becomes, Has, Inv, RequestsOK
<1>4. left # {} =>
        /\ r.op = req[w].op /\ r.root = req[w].root /\ r.id = req[w].id /\ r.news = left
        /\ r.at = "publish" /\ r.todo = req[w].todo /\ DOMAIN r = Fields
  BY <1>1 DEF Shaped, Fields
<1>5. left = {} => r = Idle
  OBVIOUS
<1> HIDE DEF r
<1>6. req[w].news \subseteq seen' \cup lost' \cup left
  BY <1>2
<1>7. left # {} => r # Idle
  BY <1>1, <1>4, IdleFits DEF Shaped
<1>8. Accounted \subseteq Accounted'
  BY <1>2, <1>3, <1>4, <1>6, <1>7, StillAccounted DEF Inv
<1>9. Fits(r)
  <2>1. CASE left = {}
    BY <1>5, <2>1, IdleFits
  <2>2. CASE left # {}
    <3>1. Shaped(r)
      BY <1>1, <1>4, <2>2 DEF Shaped
    <3>2. Copied(r) /\ Announcing(r)
      BY <1>1, <1>4, <2>2 DEF Copied, Announcing
    <3>3. Owing(r)
      BY <1>1, <1>4, <2>2 DEF Owing
    <3> QED
      BY <3>1, <3>2, <3>3 DEF Fits
  <2> QED
    BY <2>1, <2>2
<1>10. Holds(r, mine[w])
  <2>1. req[w].news \subseteq Accounted
    BY <1>1 DEF Accounted, Owed
  <2> QED
    BY <1>1, <2>1 DEF Holds
<1> QED
  BY <1>2, <1>3, <1>8, <1>9, <1>10, Moves

LEMMA ServerCrashKeepsInv ==
  ASSUME Inv, ServerCrash
  PROVE  Inv'
<1>1. /\ req' = [w \in Workers |-> Idle] /\ mine' = [w \in Workers |-> Empty]
      /\ lost' = lost \cup Owed /\ log' = log /\ seen' = seen
  BY DEF ServerCrash
<1>2. Accounted \subseteq Accounted'
  BY <1>1 DEF Accounted
<1>3. ApprovalsAccountedFor'
  BY <1>1, <1>2 DEF Inv, ApprovalsAccountedFor, Accounted, Exists
<1>4. \A w \in Workers : Fits(req[w])' /\ Holds(req[w], mine[w])'
  BY <1>1 DEF Fits, Holds, Empty
<1> QED
  BY <1>1, <1>3, <1>4 DEF Inv, LogsOK, RequestsOK

LEMMA StepKeepsInv ==
  ASSUME Inv, NEW w \in Workers, Step(w)
  PROVE  Inv'
<1>1. CASE CascadeRaises(w)
  <2>1. ~At(w, "publish")
    BY <1>1 DEF CascadeRaises, At
  <2> QED
    BY <1>1, <2>1, RollbackKeepsInv DEF CascadeRaises
<1> QED
  BY <1>1, CollectKeepsInv, MergeKeepsInv, WriteKeepsInv, ListLinkedKeepsInv,
     MergeNextKeepsInv, CommitKeepsInv, PublishKeepsInv DEF Step

LEMMA NextInv == Inv /\ [Next]_vars => Inv'
<1> SUFFICES ASSUME Inv, [Next]_vars PROVE Inv'
  OBVIOUS
<1>1. ASSUME NEW w \in Workers, DeadlockVictim(w) PROVE Inv'
  <2>1. ~At(w, "publish")
    BY <1>1 DEF DeadlockVictim, OnCycle, Blocks, At
  <2> QED
    BY <1>1, <2>1, RollbackKeepsInv DEF DeadlockVictim
<1>2. CASE UNCHANGED vars
  <2>1. ApprovalsAccountedFor'
    BY <1>2 DEF vars, Inv, ApprovalsAccountedFor, Exists, Owed, At
  <2>2. Accounted' = Accounted
    BY <1>2 DEF vars, Accounted, Owed, At
  <2>3. ASSUME NEW w \in Workers PROVE Fits(req[w])' /\ Holds(req[w], mine[w])'
    BY <1>2, <2>2, OthersFit DEF vars, Inv, RequestsOK, Exists
  <2> QED
    BY <1>2, <2>1, <2>3 DEF vars, Inv, LogsOK, RequestsOK
<1> QED
  BY <1>1, <1>2, ArriveKeepsInv, StepKeepsInv, ServerCrashKeepsInv DEF Next

THEOREM Invariance == Spec => []Inv
BY InitInv, NextInv, PTL DEF Spec

(* However many requests overlap, and whatever they lose or the server     *)
(* forgets, no approval of a log goes unannounced and unaccounted for      *)
(* (manager_approve.py, approve_timesheet.py).                             *)
THEOREM ApprovalsAccountedForHolds == Spec => []ApprovalsAccountedFor
<1>1. Inv => ApprovalsAccountedFor
  BY DEF Inv
<1> QED
  BY <1>1, Invariance, PTL
-----------------------------------------------------------------------------
(* Rows and links.  No request changes the owner or the date of a log, or  *)
(* the owner or the start of a timesheet, and no two requests insert under *)
(* one id.  So a link that was sound when a request read it, or that leads *)
(* to the timesheet the request inserts with it, is sound when it commits. *)
SheetPatches(p) == \A row \in SheetRow : Over(p, row) \in SheetRow

(* A timesheet that a log of user u and date d may be linked to: committed *)
(* or inserted by request r, whose uncommitted rows are m.                 *)
Fine(s, u, d) == sheet[s] # None /\ sheet[s].user = u /\ sheet[s].start <= d
Own(r, m, s, u, d) ==
  r.op = "submit" /\ s = r.root /\ s \in DOMAIN m /\ m[s].user = u /\ m[s].start <= d
Backed(r, m, s, u, d) == s = None \/ (s \in Sheets /\ (Fine(s, u, d) \/ Own(r, m, s, u, d)))

SameLog(l, row) == row.user = log[l].user /\ row.day = log[l].day
SameSheet(t, row) == row.user = sheet[t].user /\ row.start = sheet[t].start

Rests(r, m) == r = Idle \/ r.at \in {"collect", "publish"} => DOMAIN m = {}
RowsBacked(r, m) ==
  /\ DOMAIN m \subseteq Logs \cup Sheets
  /\ \A t \in DOMAIN m \cap Sheets :
       t = r.root /\ m[t] \in SheetRow /\ (sheet[t] # None => SameSheet(t, m[t]))
  /\ \A l \in DOMAIN m \cap Logs :
       /\ Exists(l) => SameLog(l, m[l])
       /\ Backed(r, m, m[l].sheet, m[l].user, m[l].day)
LogCopy(r, m) ==
  /\ r.at = "merge" /\ r.id \in Logs =>
       SameLog(r.id, r.value) /\ Backed(r, m, r.value.sheet, log[r.id].user, log[r.id].day)
  /\ r.at = "write" /\ r.id \in Logs =>
       /\ "user" \in DOMAIN r.value => r.value.user = log[r.id].user
       /\ "day" \in DOMAIN r.value => r.value.day = log[r.id].day
       /\ "sheet" \in DOMAIN r.value =>
            Backed(r, m, r.value.sheet, log[r.id].user, log[r.id].day)
  /\ \A l \in DOMAIN r.todo :
       /\ SameLog(l, r.todo[l])
       /\ Backed(r, m, r.todo[l].sheet, log[l].user, log[l].day)
       /\ r.op = "submit" => Backed(r, m, r.root, log[l].user, log[l].day)
SheetCopy(r) ==
  /\ r.at = "collect" =>
       r.value \in SheetRow /\ (sheet[r.root] # None => SameSheet(r.root, r.value))
  /\ r.at = "merge" /\ r.id \in Sheets =>
       /\ r.id = r.root /\ sheet[r.id] # None
       /\ r.value \in SheetRow /\ SameSheet(r.id, r.value)
  /\ r.at = "write" /\ r.id \in Sheets =>
       /\ r.id = r.root /\ sheet[r.id] # None /\ SheetPatches(r.value)
       /\ "user" \in DOMAIN r.value => r.value.user = sheet[r.id].user
       /\ "start" \in DOMAIN r.value => r.value.start = sheet[r.id].start
Linking(r, m) ==
  Rests(r, m) /\ RowsBacked(r, m) /\ (r # Idle => LogCopy(r, m) /\ SheetCopy(r))

Apart(v, w) ==
  /\ DOMAIN mine[v] \cap DOMAIN mine[w] = {}
  /\ req[v] # Idle /\ req[w] # Idle /\ req[v].root = req[w].root /\ req[w].root \in Sheets
       => sheet[req[w].root] # None

LinksOK ==
  /\ sheet \in [Sheets -> SheetRow \cup {None}]
  /\ \A w \in Workers : Linking(req[w], mine[w])
  /\ \A v, w \in Workers : v # w => Apart(v, w)
  /\ NoDanglingLink
  /\ seen \subseteq Logs /\ lost \subseteq Logs

LEMMA InitLinks == Init => LinksOK
<1> SUFFICES ASSUME Init PROVE LinksOK
  OBVIOUS
<1>1. NoDanglingLink
  BY DEF Init, NoDanglingLink, Exists
<1>2. \A w \in Workers : Linking(req[w], mine[w])
  BY DEF Init, Linking, Rests, RowsBacked, Empty
<1>3. \A v, w \in Workers : v # w => Apart(v, w)
  BY DEF Init, Apart, Empty
<1> QED
  BY <1>1, <1>2, <1>3 DEF Init, LinksOK

LEMMA RowTypes ==
  ASSUME Inv, LinksOK
  PROVE  /\ \A l \in Logs : Exists(l) =>
              /\ log[l] \in TimeLog /\ Row(l) = log[l]
              /\ log[l].sheet = None \/ (log[l].sheet \in Sheets /\
                                         Fine(log[l].sheet, log[l].user, log[l].day))
         /\ \A t \in Sheets : Row(t) = sheet[t] /\ (sheet[t] # None => sheet[t] \in SheetRow)
<1>1. \A l \in Logs : Exists(l) => log[l] \in TimeLog
  BY DEF Inv, LogsOK, Exists
<1>2. \A l \in Logs : Exists(l) =>
        log[l].sheet = None \/ (log[l].sheet \in Sheets
                                /\ Fine(log[l].sheet, log[l].user, log[l].day))
  BY <1>1 DEF LinksOK, NoDanglingLink, Fine, TimeLog
<1>3. \A t \in Sheets : sheet[t] # None => sheet[t] \in SheetRow
  BY DEF LinksOK
<1> QED
  BY <1>1, <1>2, <1>3, IdsAssumption DEF Row

(* Nothing that a request relies on is disturbed by a step of another one  *)
(* that keeps owners and dates and commits no row under its ids.           *)
LEMMA OthersLink ==
  ASSUME NEW v \in Workers, Fits(req[v]), Linking(req[v], mine[v]),
         req'[v] = req[v], mine'[v] = mine[v],
         \A l \in Logs : Exists(l) => Exists(l)' /\ SameLog(l, log'[l]),
         \A t \in Sheets : sheet[t] # None => sheet'[t] # None /\ SameSheet(t, sheet'[t]),
         \A l \in DOMAIN mine[v] \cap Logs : ~Exists(l) => ~Exists(l)',
         \A t \in Sheets : req[v] # Idle /\ t = req[v].root /\ sheet[t] = None
                             => sheet'[t] = None
  PROVE  Linking(req[v], mine[v])'
<1> DEFINE r == req[v]
           m == mine[v]
<1>1. \A s, u, d : Backed(r, m, s, u, d) => Backed(r, m, s, u, d)'
  BY DEF Backed, Fine, Own, SameSheet
<1>2. Rests(r, m)'
  BY DEF Linking, Rests
<1>3. CASE r = Idle
  BY <1>2, <1>3 DEF Linking, Rests, RowsBacked
<1>4. CASE r # Idle
  <2>1. RowsBacked(r, m)'
    <3>1. DOMAIN m \subseteq Logs \cup Sheets
      BY DEF Linking, RowsBacked
    <3>2. \A t \in DOMAIN m \cap Sheets :
            t = r.root /\ m[t] \in SheetRow /\ (sheet'[t] # None => SameSheet(t, m[t])')
      BY <1>4 DEF Linking, RowsBacked, SameSheet
    <3>3. \A l \in DOMAIN m \cap Logs :
            /\ Exists(l)' => SameLog(l, m[l])'
            /\ Backed(r, m, m[l].sheet, m[l].user, m[l].day)'
      BY <1>1 DEF Linking, RowsBacked, SameLog
    <3> QED
      BY <3>1, <3>2, <3>3 DEF RowsBacked
  <2>2. Copied(r) /\ Shaped(r)
    BY <1>4 DEF Fits
  <2>3. LogCopy(r, m)'
    <3>1. r.at = "merge" /\ r.id \in Logs =>
            /\ SameLog(r.id, r.value)'
            /\ Backed(r, m, r.value.sheet, log[r.id].user, log[r.id].day)'
      BY <1>1, <1>4, <2>2 DEF Linking, LogCopy, Copied, SameLog
    <3>2. r.at = "write" /\ r.id \in Logs =>
            /\ "user" \in DOMAIN r.value => r.value.user = log'[r.id].user
            /\ "day" \in DOMAIN r.value => r.value.day = log'[r.id].day
            /\ "sheet" \in DOMAIN r.value =>
                 Backed(r, m, r.value.sheet, log[r.id].user, log[r.id].day)'
      BY <1>1, <1>4, <2>2 DEF Linking, LogCopy, Copied, SameLog
    <3>3. \A l \in DOMAIN r.todo :
            /\ SameLog(l, r.todo[l])'
            /\ Backed(r, m, r.todo[l].sheet, log[l].user, log[l].day)'
            /\ r.op = "submit" => Backed(r, m, r.root, log[l].user, log[l].day)'
      BY <1>1, <1>4, <2>2 DEF Linking, LogCopy, Copied, SameLog
    <3> QED
      BY <3>1, <3>2, <3>3 DEF LogCopy
  <2>4. SheetCopy(r)'
    <3>1. r.at = "collect" => r.root \in Sheets
      BY <2>2 DEF Shaped
    <3> QED
      BY <1>4, <2>2, <3>1 DEF Linking, SheetCopy, SameSheet, SheetPatches
  <2> QED
    BY <1>2, <2>1, <2>3, <2>4 DEF Linking
<1> QED
  BY <1>3, <1>4

(* A step that commits nothing.                                            *)
LEMMA MovesLinks ==
  ASSUME Inv, LinksOK, NEW w \in Workers, NEW r, NEW m, Becomes(w, r), Has(w, m),
         UNCHANGED <<log, sheet>>, seen' \subseteq Logs, lost' \subseteq Logs, Linking(r, m),
         \A v \in Workers \ {w} : DOMAIN m \cap DOMAIN mine[v] = {},
         \A v \in Workers \ {w} :
           r # Idle /\ req[v] # Idle /\ r.root \in Sheets /\ r.root = req[v].root
             => sheet[r.root] # None
  PROVE  LinksOK'
<1>1. /\ req'[w] = r /\ mine'[w] = m
      /\ \A v \in Workers \ {w} : req'[v] = req[v] /\ mine'[v] = mine[v]
  BY DEF Becomes, Has, Inv, RequestsOK
<1>2. /\ \A l \in Logs : Exists(l) => Exists(l)' /\ SameLog(l, log'[l])
      /\ \A l \in Logs : ~Exists(l) => ~Exists(l)'
      /\ \A t \in Sheets : sheet[t] # None => sheet'[t] # None /\ SameSheet(t, sheet'[t])
  BY DEF Exists, SameLog, SameSheet
<1>3. ASSUME NEW v \in Workers \ {w} PROVE Linking(req[v], mine[v])'
  BY <1>1, <1>2, OthersLink DEF Inv, RequestsOK, LinksOK
<1>4. Linking(req[w], mine[w])'
  <2>1. Linking(r, m)'
    BY DEF Linking, Rests, RowsBacked, LogCopy, SheetCopy, Backed, Fine, Own, SameLog,
           SameSheet, SheetPatches, Exists
  <2> QED
    BY <1>1, <2>1 DEF Linking, Rests, RowsBacked, LogCopy, SheetCopy, Backed, Fine, Own,
                      SameLog, SameSheet, SheetPatches, Exists
<1>5. \A v, x \in Workers : v # x => Apart(v, x)'
  BY <1>1 DEF LinksOK, Apart
<1>6. NoDanglingLink'
  BY DEF LinksOK, NoDanglingLink, Exists
<1> QED
  BY <1>3, <1>4, <1>5, <1>6 DEF LinksOK
-----------------------------------------------------------------------------
(* Owners and dates stay what they are.                                    *)

LEMMA ResultsKeepOwner ==
  ASSUME NEW r \in TimeLog, NEW o \in LogOps, NEW e \in Results(o, r)
  PROVE  e.user = r.user /\ e.day = r.day
<1>1. CASE o = "pause"
  <2>1. PICK s \in Segments(r) : \E h \in RoundedHours(r.seconds + s) : e = Paused(r, s, h)
    BY <1>1 DEF Results
  <2> QED
    BY <2>1 DEF Paused, TimeLog
<1>2. CASE o = "stop"
  <2>1. PICK s \in Segments(r) : \E h \in RoundedHours(r.seconds + s) : e = Stopped(r, s, h)
    BY <1>2 DEF Results
  <2> QED
    BY <2>1 DEF Stopped, TimeLog
<1>3. CASE o = "resume"
  BY <1>3 DEF Results, Resumed, TimeLog
<1>4. CASE o = "update"
  BY <1>4 DEF Results, HoursUpdated, TimeLog
<1>5. CASE o = "approve_log"
  BY <1>5 DEF Results, ApprovedLog, TimeLog
<1>6. CASE o = "reject_log"
  BY <1>6 DEF Results, RejectedLog, TimeLog
<1> QED
  BY <1>1, <1>2, <1>3, <1>4, <1>5, <1>6 DEF LogOps

LEMMA SettledKeepsOwner ==
  ASSUME NEW w \in Workers, NEW r \in TimeLog, NEW e \in Settled(w, r)
  PROVE  /\ e.user = r.user /\ e.day = r.day
         /\ e.sheet = IF req[w].op = "submit" THEN req[w].root ELSE r.sheet
<1>1. CASE req[w].op = "submit"
  BY <1>1 DEF Settled, SubmittedLog, TimeLog
<1>2. CASE req[w].op = "approve_sheet"
  BY <1>2 DEF Settled, ApprovedLog, TimeLog
<1>3. CASE req[w].op = "reject_sheet"
  BY <1>3 DEF Settled, RejectedLog, TimeLog
<1> QED
  BY <1>1, <1>2, <1>3 DEF Settled

SheetColumns == {"user", "start", "end", "status", "total"}

LEMMA SheetPatchedRow ==
  ASSUME NEW e \in SheetRow, NEW row
  PROVE  /\ SheetPatches(Dirty(e, row))
         /\ "user" \in DOMAIN Dirty(e, row) => Dirty(e, row).user = e.user
         /\ "start" \in DOMAIN Dirty(e, row) => Dirty(e, row).start = e.start
<1> DEFINE p == Dirty(e, row)
<1>1. DOMAIN p \subseteq DOMAIN e /\ \A c \in DOMAIN p : p[c] = e[c]
  BY DirtyColumns
<1> HIDE DEF p
<1>2. ASSUME NEW s \in SheetRow PROVE Over(p, s) \in SheetRow
  <2> DEFINE n == Over(p, s)
  <2>1. DOMAIN e = SheetColumns /\ DOMAIN s = SheetColumns
    BY DEF SheetRow, SheetColumns
  <2>2. /\ DOMAIN n = SheetColumns
        /\ \A c \in SheetColumns : n[c] = e[c] \/ n[c] = s[c]
        /\ n = [c \in SheetColumns |-> n[c]]
    BY <1>1, <2>1 DEF Over
  <2> HIDE DEF n
  <2>3. n = [user |-> n.user, start |-> n.start, end |-> n.end, status |-> n.status,
             total |-> n.total]
    BY <2>2 DEF SheetColumns
  <2>4. /\ n.user \in Users /\ n.start \in Days /\ n.end \in Days
        /\ n.status \in SheetStatus /\ n.total \in Nat
    BY <2>2 DEF SheetColumns, SheetRow
  <2>5. n \in SheetRow
    BY <2>3, <2>4 DEF SheetRow
  <2> QED
    BY <2>5 DEF n
<1>3. /\ SheetPatches(p)
      /\ "user" \in DOMAIN p => p.user = e.user
      /\ "start" \in DOMAIN p => p.start = e.start
  BY <1>1, <1>2 DEF SheetPatches
<1> QED
  BY <1>3 DEF p

LEMMA PatchedOwner ==
  ASSUME NEW p, NEW row, {"user", "day", "sheet"} \subseteq DOMAIN row
  PROVE  /\ Over(p, row).user = IF "user" \in DOMAIN p THEN p.user ELSE row.user
         /\ Over(p, row).day = IF "day" \in DOMAIN p THEN p.day ELSE row.day
         /\ Over(p, row).sheet = IF "sheet" \in DOMAIN p THEN p.sheet ELSE row.sheet
BY DEF Over
-----------------------------------------------------------------------------
(* Arrivals.                                                               *)

LEMMA TakenIds ==
  ASSUME NEW x \in Workers
  PROVE  DOMAIN mine[x] \subseteq Taken /\ (req[x] # Idle => req[x].root \in Taken)
<1>1. DOMAIN mine[x] \subseteq Locked
  <2>1. DOMAIN mine[x] \in {DOMAIN mine[w] : w \in Workers}
    OBVIOUS
  <2> QED
    BY <2>1 DEF Locked
<1>2. req[x] # Idle => req[x].root \in Roots
  BY DEF Roots
<1> QED
  BY <1>1, <1>2 DEF Taken

LEMMA BeginLinks ==
  ASSUME Inv, LinksOK, NEW w \in Workers, req[w] = Idle, NEW r, NEW m,
         Becomes(w, r), Has(w, m), UNCHANGED <<log, sheet, seen, lost>>, Linking(r, m),
         DOMAIN m \cap Taken = {},
         r.root \in Sheets => sheet[r.root] # None \/ r.root \notin Taken
  PROVE  LinksOK'
<1>1. \A v \in Workers \ {w} : DOMAIN m \cap DOMAIN mine[v] = {}
  BY TakenIds
<1>2. \A v \in Workers \ {w} :
        r # Idle /\ req[v] # Idle /\ r.root \in Sheets /\ r.root = req[v].root
          => sheet[r.root] # None
  BY TakenIds
<1>3. seen' \subseteq Logs /\ lost' \subseteq Logs
  BY DEF LinksOK
<1> QED
  BY <1>1, <1>2, <1>3, MovesLinks

LEMMA IdleHasNothing ==
  ASSUME LinksOK, NEW w \in Workers, req[w] = Idle
  PROVE  DOMAIN mine[w] = {}
BY DEF LinksOK, Linking, Rests

LEMMA LoadLogLinks ==
  ASSUME Inv, LinksOK, NEW w \in Workers, NEW o \in LogOps, NEW l \in Logs, LoadLog(w, o, l)
  PROVE  LinksOK'
<1>1. PICK e \in Results(o, log[l]) :
        Begin(w, o, l, "merge", e, IF o = "approve_log" THEN {l} ELSE {})
  BY DEF LoadLog
<1> DEFINE r == Begun(o, l, "merge", e, IF o = "approve_log" THEN {l} ELSE {})
           m == mine[w]
<1>2. Exists(l) /\ UNCHANGED <<log, sheet, mine, seen, lost>>
  BY DEF LoadLog
<1>3. /\ log[l] \in TimeLog
      /\ Backed(r, m, log[l].sheet, log[l].user, log[l].day)
  BY <1>2, RowTypes DEF Backed
<1>4. e.user = log[l].user /\ e.day = log[l].day /\ e.sheet = log[l].sheet
  BY <1>3, ResultsType, ResultsKeepOwner
<1>5. req[w] = Idle /\ Becomes(w, r) /\ Has(w, m)
  BY <1>1, <1>2 DEF Begin, Admitted, Becomes, Begun, Has
<1>6. DOMAIN m = {}
  BY <1>5, IdleHasNothing
<1>7. /\ r.at = "merge" /\ r.id = l /\ r.root = l /\ r.value = e /\ DOMAIN r.todo = {}
      /\ l \notin Sheets
  BY IdsAssumption DEF Begun, Empty
<1> HIDE DEF r, m
<1>8. Rests(r, m) /\ RowsBacked(r, m)
  BY <1>6 DEF Rests, RowsBacked
<1>9. LogCopy(r, m) /\ SheetCopy(r)
  BY <1>3, <1>4, <1>7 DEF LogCopy, SheetCopy, SameLog
<1> QED
  BY <1>2, <1>5, <1>6, <1>7, <1>8, <1>9, BeginLinks DEF Linking

LEMMA InsertLogLinks ==
  ASSUME Inv, LinksOK, NEW w \in Workers, NEW o \in {"create", "start"}, NEW l \in Logs,
         NEW row \in TimeLog, row.sheet = None, InsertLog(w, o, l, row)
  PROVE  LinksOK'
<1> DEFINE r == Begun(o, l, "next", None, {})
           m == Only(l, row)
<1>1. /\ req[w] = Idle /\ Becomes(w, r) /\ ~Exists(l) /\ l \notin Taken
      /\ Has(w, m) /\ UNCHANGED <<log, sheet, seen, lost>>
  BY DEF InsertLog, Begin, Admitted, Becomes, Begun, Has
<1>2. /\ r.at = "next" /\ r.id = l /\ r.root = l /\ DOMAIN r.todo = {} /\ r # Idle
      /\ l \notin Sheets
  BY IdsAssumption DEF Begun, Empty, Idle
<1>3. DOMAIN m = {l} /\ m[l] = row
  BY DEF Only
<1> HIDE DEF r, m
<1>4. Rests(r, m) /\ RowsBacked(r, m)
  BY <1>1, <1>2, <1>3 DEF Rests, RowsBacked, Backed
<1>5. LogCopy(r, m) /\ SheetCopy(r)
  BY <1>2 DEF LogCopy, SheetCopy
<1> QED
  BY <1>1, <1>2, <1>3, <1>4, <1>5, BeginLinks DEF Linking

LEMMA LoadSheetLinks ==
  ASSUME Inv, LinksOK, NEW w \in Workers, NEW o \in SheetOps, NEW t \in Sheets,
         LoadSheet(w, o, t)
  PROVE  LinksOK'
<1> DEFINE e == Moved(sheet[t], Verdict(o))
           r == Begun(o, t, "merge", e, {})
           m == mine[w]
<1>1. /\ req[w] = Idle /\ Becomes(w, r) /\ sheet[t] # None
      /\ Has(w, m) /\ UNCHANGED <<log, sheet, seen, lost>>
  BY DEF LoadSheet, Begin, Admitted, Becomes, Begun, Has
<1>2. e \in SheetRow /\ SameSheet(t, e)
  <2>1. sheet[t] \in SheetRow
    BY <1>1, RowTypes
  <2> QED
    BY <2>1 DEF Moved, SheetRow, SheetStatus, Verdict, SameSheet
<1>3. DOMAIN m = {}
  BY <1>1, IdleHasNothing
<1>4. /\ r.at = "merge" /\ r.id = t /\ r.root = t /\ r.value = e /\ DOMAIN r.todo = {}
      /\ t \notin Logs
  BY IdsAssumption DEF Begun, Empty
<1> HIDE DEF r, m, e
<1>5. Rests(r, m) /\ RowsBacked(r, m)
  BY <1>3 DEF Rests, RowsBacked
<1>6. LogCopy(r, m) /\ SheetCopy(r)
  BY <1>1, <1>2, <1>4 DEF LogCopy, SheetCopy
<1> QED
  BY <1>1, <1>3, <1>4, <1>5, <1>6, BeginLinks DEF Linking

LEMMA LookupLinks ==
  ASSUME Inv, LinksOK, NEW w \in Workers, NEW t \in Sheets, NEW u \in Users,
         NEW from \in Days, NEW to \in Days, Lookup(w, t, u, from, to)
  PROVE  LinksOK'
<1> DEFINE found == SheetsOf(u, from)
           e == IF found = {} THEN NewSheet(u, from, to) ELSE Moved(sheet[t], "submitted")
           r == [op |-> "submit", root |-> t, at |-> "collect", id |-> t,
                 value |-> e, todo |-> Empty, to |-> to, news |-> {}]
           m == mine[w]
<1>1. /\ req[w] = Idle /\ Becomes(w, r) /\ Has(w, m) /\ UNCHANGED <<log, sheet, seen, lost>>
      /\ IF found = {} THEN sheet[t] = None /\ t \notin Taken ELSE t \in found
  BY DEF Lookup, Admitted, Becomes, Has
<1>2. e \in SheetRow /\ (sheet[t] # None => SameSheet(t, e))
  <2>1. CASE found = {}
    <3>1. e = NewSheet(u, from, to) /\ sheet[t] = None
      BY <1>1, <2>1
    <3> QED
      BY <3>1 DEF NewSheet, SheetRow, SheetStatus
  <2>2. CASE found # {}
    <3>1. e = Moved(sheet[t], "submitted") /\ sheet[t] # None
      BY <1>1, <2>2 DEF SheetsOf
    <3>2. sheet[t] \in SheetRow
      BY <3>1, RowTypes
    <3> QED
      BY <3>1, <3>2 DEF Moved, SheetRow, SheetStatus, SameSheet
  <2> QED
    BY <2>1, <2>2
<1>3. sheet[t] # None \/ t \notin Taken
  BY <1>1 DEF SheetsOf
<1>4. DOMAIN m = {}
  BY <1>1, IdleHasNothing
<1> HIDE DEF e, m
<1>5. r.at = "collect" /\ r.id = t /\ r.root = t /\ r.value = e /\ DOMAIN r.todo = {}
  BY DEF Empty
<1> HIDE DEF r
<1>6. Rests(r, m) /\ RowsBacked(r, m)
  BY <1>4 DEF Rests, RowsBacked
<1>7. LogCopy(r, m) /\ SheetCopy(r)
  BY <1>2, <1>5 DEF LogCopy, SheetCopy
<1> QED
  BY <1>1, <1>3, <1>4, <1>5, <1>6, <1>7, BeginLinks DEF Linking

LEMMA ArriveLinks ==
  ASSUME Inv, LinksOK, NEW w \in Workers, Arrive(w)
  PROVE  LinksOK'
<1>1. ASSUME NEW o \in LogOps, NEW l \in Logs, LoadLog(w, o, l) PROVE LinksOK'
  BY <1>1, LoadLogLinks
<1>2. ASSUME NEW o \in SheetOps, NEW t \in Sheets, LoadSheet(w, o, t) PROVE LinksOK'
  BY <1>2, LoadSheetLinks
<1>3. ASSUME NEW l \in Logs, NEW u \in Users, NEW d \in Days, CreateTimeLog(w, l, u, d)
      PROVE  LinksOK'
  <2>1. PICK h \in ValidHours : InsertLog(w, "create", l, ManualLog(u, d, h))
    BY <1>3 DEF CreateTimeLog
  <2>2. ManualLog(u, d, h) \in TimeLog /\ ManualLog(u, d, h).sheet = None
    BY NewRows DEF ManualLog
  <2> QED
    BY <2>1, <2>2, InsertLogLinks
<1>4. ASSUME NEW l \in Logs, NEW u \in Users, NEW d \in Days, StartTimer(w, l, u, d)
      PROVE  LinksOK'
  <2>1. TimerLog(u, d) \in TimeLog /\ TimerLog(u, d).sheet = None
    BY NewRows DEF TimerLog
  <2> QED
    BY <1>4, <2>1, InsertLogLinks DEF StartTimer
<1>5. ASSUME NEW t \in Sheets, NEW u \in Users, NEW k \in Weeks, Lookup(w, t, u, k[1], k[2])
      PROVE  LinksOK'
  BY <1>5, WeeksAssumption, LookupLinks
<1> QED
  BY <1>1, <1>2, <1>3, <1>4, <1>5 DEF Arrive
-----------------------------------------------------------------------------
(* The statements of a request before its commit.                          *)

LEMMA ContinueLinks ==
  ASSUME Inv, LinksOK, NEW w \in Workers, req[w] # Idle, NEW r, NEW m,
         Becomes(w, r), Has(w, m), UNCHANGED <<log, sheet>>,
         seen' \subseteq Logs, lost' \subseteq Logs, Linking(r, m),
         r = Idle \/ r.root = req[w].root,
         \A v \in Workers \ {w} : DOMAIN m \cap DOMAIN mine[v] = {}
  PROVE  LinksOK'
<1>1. \A v \in Workers \ {w} :
        r # Idle /\ req[v] # Idle /\ r.root \in Sheets /\ r.root = req[v].root
          => sheet[r.root] # None
  BY DEF LinksOK, Apart
<1> QED
  BY <1>1, MovesLinks

LEMMA Links ==
  ASSUME LinksOK, NEW w \in Workers, NEW place, At(w, place)
  PROVE  /\ Rests(req[w], mine[w]) /\ RowsBacked(req[w], mine[w])
         /\ LogCopy(req[w], mine[w]) /\ SheetCopy(req[w])
         /\ \A v \in Workers \ {w} : DOMAIN mine[w] \cap DOMAIN mine[v] = {}
         /\ seen \subseteq Logs /\ lost \subseteq Logs
BY DEF LinksOK, Linking, At, Apart

LEMMA HoursType ==
  ASSUME Inv, LinksOK, NEW P \in SUBSET Logs, \A l \in P : Exists(l)
  PROVE  SumHours(P) \in Nat
<1> DEFINE f == [l \in P |-> log[l].hours]
<1>1. IsFiniteSet(P)
  BY IdsAssumption, FS_Subset
<1>2. \A l \in P : log[l] \in TimeLog
  BY RowTypes
<1>3. DOMAIN f = P /\ \A l \in P : f[l] \in Nat
  BY <1>2 DEF TimeLog
<1>4. SumHours(P) = SumFunctionOnSet(f, P)
  BY <1>3 DEF SumHours, SumFunction
<1> HIDE DEF f
<1> QED
  BY <1>1, <1>3, <1>4, SumIsNat

LEMMA CollectLinks ==
  ASSUME Inv, LinksOK, NEW w \in Workers, Collect(w)
  PROVE  LinksOK'
<1>1. /\ Shaped(req[w]) /\ req[w] # Idle /\ req[w].at = "collect"
      /\ SheetCopy(req[w]) /\ DOMAIN mine[w] = {}
      /\ seen \subseteq Logs /\ lost \subseteq Logs
  BY Busy, Links DEF Inv, RequestsOK, Collect, At, Rests
<1>2. /\ req[w].op = "submit" /\ req[w].root \in Sheets /\ req[w].id = req[w].root
      /\ req[w].id \notin Logs
  BY <1>1, IdsAssumption DEF Shaped
<1>3. PICK P \in Page(InRange(req[w].value.user, req[w].value.start, req[w].to)) :
        LET t == req[w].root
            row == [req[w].value EXCEPT !.total = SumHours(P)]
            isNew == sheet[t] = None
        IN
        /\ req' = [req EXCEPT ![w].at = IF isNew THEN "next" ELSE "merge",
                              ![w].value = IF isNew THEN None ELSE row,
                              ![w].todo = [l \in P |-> log[l]]]
        /\ mine' = IF isNew THEN [mine EXCEPT ![w] = Only(t, row)] ELSE mine
  BY DEF Collect
<1> DEFINE t == req[w].root
           isNew == sheet[t] = None
           row == [req[w].value EXCEPT !.total = SumHours(P)]
           at == IF isNew THEN "next" ELSE "merge"
           value == IF isNew THEN None ELSE row
           todo == [l \in P |-> log[l]]
           r == [req[w] EXCEPT !.at = at, !.value = value, !.todo = todo]
           m == IF isNew THEN Only(t, row) ELSE mine[w]
<1>4. \A l \in P : /\ l \in Logs /\ Exists(l) /\ log[l].user = req[w].value.user
                   /\ log[l].day \in req[w].value.start..req[w].to
  BY DEF Page, InRange
<1>5. req[w].value \in SheetRow /\ (sheet[t] # None => SameSheet(t, req[w].value))
  BY <1>1 DEF SheetCopy
<1>6. /\ row \in SheetRow /\ row.user = req[w].value.user
      /\ row.start = req[w].value.start /\ row.start \in Nat
  <2>1. SumHours(P) \in Nat
    <3>1. P \in SUBSET Logs /\ \A l \in P : Exists(l)
      BY <1>4
    <3> QED
      BY <3>1, HoursType
  <2> QED
    BY <1>5, <2>1, DaysAssumption DEF SheetRow
<1>7. \A l \in P : log[l].user = row.user /\ row.start <= log[l].day
  <2>1. \A l \in P : log[l] \in TimeLog
    BY <1>4, RowTypes
  <2>2. \A l \in P : log[l].day \in Nat
    BY <2>1, DaysAssumption DEF TimeLog
  <2> HIDE DEF row
  <2> QED
    BY <1>4, <1>6, <2>2
<1>8. Becomes(w, r) /\ Has(w, m) /\ UNCHANGED <<log, sheet, seen, lost>>
  BY <1>3 DEF Becomes, Has, Inv, RequestsOK, Collect
<1> HIDE DEF row
<1>9. /\ isNew => DOMAIN m = {t} /\ m[t] = row
      /\ ~isNew => DOMAIN m = {}
  BY <1>1 DEF Only
<1>10. /\ r.op = "submit" /\ r.root = t /\ r.id = t
       /\ isNew => r.at = "next"
       /\ ~isNew => r.at = "merge" /\ r.value = row
       /\ DOMAIN r.todo = P /\ \A l \in P : r.todo[l] = log[l]
       /\ DOMAIN r = Fields
  BY <1>1, <1>2 DEF Shaped, Fields
<1> HIDE DEF r, m
<1>11. Rests(r, m) /\ RowsBacked(r, m)
  <2>1. r # Idle
    BY <1>10 DEF Idle
  <2> QED
    BY <1>2, <1>6, <1>9, <1>10, <2>1 DEF Rests, RowsBacked
<1>12. \A l \in P : Backed(r, m, t, log[l].user, log[l].day)
  <2>1. CASE isNew
    BY <1>2, <1>7, <1>9, <1>10, <2>1 DEF Backed, Own
  <2>2. CASE ~isNew
    BY <1>2, <1>5, <1>6, <1>7, <2>2 DEF Backed, Fine, SameSheet
  <2> QED
    BY <2>1, <2>2
<1>13. \A l \in P : Backed(r, m, log[l].sheet, log[l].user, log[l].day)
  BY <1>4, RowTypes DEF Backed
<1>14. LogCopy(r, m)
  BY <1>2, <1>10, <1>12, <1>13 DEF LogCopy, SameLog
<1>15. SheetCopy(r)
  BY <1>5, <1>6, <1>10 DEF SheetCopy, SameSheet
<1>16. \A v \in Workers \ {w} : DOMAIN m \cap DOMAIN mine[v] = {}
  <2> SUFFICES ASSUME isNew, NEW v \in Workers \ {w}, t \in DOMAIN mine[v]
               PROVE  FALSE
    BY <1>9
  <2>1. Rests(req[v], mine[v]) /\ RowsBacked(req[v], mine[v]) /\ Apart(v, w)
    BY DEF LinksOK, Linking
  <2>2. req[v] # Idle /\ req[v].root = t
    BY <1>2, <2>1 DEF Rests, RowsBacked
  <2> QED
    BY <1>1, <1>2, <2>1, <2>2 DEF Apart
<1> QED
  BY <1>1, <1>8, <1>10, <1>11, <1>14, <1>15, <1>16, ContinueLinks DEF Linking

LEMMA MergeLinks ==
  ASSUME Inv, LinksOK, NEW w \in Workers, Merge(w)
  PROVE  LinksOK'
<1>1. /\ Shaped(req[w]) /\ Copied(req[w]) /\ req[w] # Idle /\ req[w].at = "merge"
      /\ RowsBacked(req[w], mine[w]) /\ LogCopy(req[w], mine[w]) /\ SheetCopy(req[w])
      /\ \A v \in Workers \ {w} : DOMAIN mine[w] \cap DOMAIN mine[v] = {}
      /\ seen \subseteq Logs /\ lost \subseteq Logs
  BY Busy, Links DEF Inv, RequestsOK, Merge, At
<1> DEFINE patch == Dirty(req[w].value, Row(req[w].id))
           r == [req[w] EXCEPT !.at = "write", !.value = patch]
           m == mine[w]
<1>2. Becomes(w, r) /\ Has(w, m) /\ UNCHANGED <<log, sheet, seen, lost>>
  BY DEF Merge, Becomes, Has, Inv, RequestsOK
<1>3. \A c \in DOMAIN patch : patch[c] = req[w].value[c]
  BY DirtyColumns
<1>4. req[w].id \in Sheets =>
        /\ SheetPatches(patch)
        /\ "user" \in DOMAIN patch => patch.user = req[w].value.user
        /\ "start" \in DOMAIN patch => patch.start = req[w].value.start
  BY <1>1, SheetPatchedRow DEF SheetCopy
<1> HIDE DEF patch
<1>5. /\ r.op = req[w].op /\ r.root = req[w].root /\ r.id = req[w].id
      /\ r.at = "write" /\ r.todo = req[w].todo /\ r.value = patch /\ DOMAIN r = Fields
  BY <1>1 DEF Shaped, Fields
<1> HIDE DEF r, m
<1>6. \A s, u, d : Backed(req[w], m, s, u, d) => Backed(r, m, s, u, d)
  BY <1>5 DEF Backed, Own
<1>7. Rests(r, m) /\ RowsBacked(r, m)
  <2>1. r # Idle
    BY <1>1, <1>5, IdleFits DEF Shaped
  <2> QED
    BY <1>1, <1>5, <1>6, <2>1 DEF Rests, RowsBacked, m
<1>8. LogCopy(r, m)
  <2>1. r.id \in Logs =>
          /\ "user" \in DOMAIN r.value => r.value.user = log[r.id].user
          /\ "day" \in DOMAIN r.value => r.value.day = log[r.id].day
          /\ "sheet" \in DOMAIN r.value =>
               Backed(r, m, r.value.sheet, log[r.id].user, log[r.id].day)
    BY <1>1, <1>3, <1>5, <1>6 DEF LogCopy, SameLog, m
  <2> QED
    BY <1>1, <1>5, <1>6, <2>1 DEF LogCopy, m
<1>9. SheetCopy(r)
  BY <1>1, <1>4, <1>5 DEF SheetCopy, SameSheet
<1> QED
  BY <1>1, <1>2, <1>5, <1>7, <1>8, <1>9, ContinueLinks DEF Linking, m

LEMMA WriteLinks ==
  ASSUME Inv, LinksOK, NEW w \in Workers, Write(w)
  PROVE  LinksOK'
<1>1. /\ Shaped(req[w]) /\ Copied(req[w]) /\ req[w] # Idle /\ req[w].at = "write"
      /\ RowsBacked(req[w], mine[w]) /\ LogCopy(req[w], mine[w]) /\ SheetCopy(req[w])
      /\ \A v \in Workers \ {w} : DOMAIN mine[w] \cap DOMAIN mine[v] = {}
      /\ seen \subseteq Logs /\ lost \subseteq Logs
  BY Busy, Links DEF Inv, RequestsOK, Write, At
<1> DEFINE id == req[w].id
           p == req[w].value
           old == mine[w]
           row == Over(p, Row(id))
           m == Over(Only(id, row), mine[w])
           at == IF req[w].op \in SheetOps /\ id = req[w].root THEN "list" ELSE "next"
           r == [req[w] EXCEPT !.at = at, !.value = None]
<1>2. Becomes(w, r) /\ Has(w, m) /\ UNCHANGED <<log, sheet, seen, lost>>
  BY DEF Write, Becomes, Has, Inv, RequestsOK
<1>3. /\ r.op = req[w].op /\ r.root = req[w].root /\ r.id = id
      /\ r.at \in {"list", "next"} /\ r.todo = req[w].todo /\ DOMAIN r = Fields
  BY <1>1 DEF Shaped, Fields
<1>4. id \in Logs =>
        /\ SameLog(id, row)
        /\ row.sheet = log[id].sheet \/ Backed(req[w], old, row.sheet, row.user, row.day)
        /\ Backed(req[w], old, log[id].sheet, log[id].user, log[id].day)
  <2> SUFFICES ASSUME id \in Logs
               PROVE  /\ SameLog(id, row)
                      /\ \/ row.sheet = log[id].sheet
                         \/ Backed(req[w], old, row.sheet, row.user, row.day)
                      /\ Backed(req[w], old, log[id].sheet, log[id].user, log[id].day)
    OBVIOUS
  <2>1. Exists(id) /\ Row(id) = log[id] /\ log[id] \in TimeLog
    BY <1>1, RowTypes DEF Copied
  <2>2. {"user", "day", "sheet"} \subseteq DOMAIN log[id]
    BY <2>1, LogColumns DEF Columns
  <2>3. /\ row.user = IF "user" \in DOMAIN p THEN p.user ELSE log[id].user
        /\ row.day = IF "day" \in DOMAIN p THEN p.day ELSE log[id].day
        /\ row.sheet = IF "sheet" \in DOMAIN p THEN p.sheet ELSE log[id].sheet
    BY <2>1, <2>2, PatchedOwner
  <2> HIDE DEF row
  <2>4. SameLog(id, row)
    BY <1>1, <2>3 DEF LogCopy, SameLog
  <2>5. row.sheet = log[id].sheet \/ Backed(req[w], old, row.sheet, row.user, row.day)
    BY <1>1, <2>3, <2>4 DEF LogCopy, SameLog
  <2>6. Backed(req[w], old, log[id].sheet, log[id].user, log[id].day)
    BY <2>1, RowTypes DEF Backed
  <2> QED
    BY <2>4, <2>5, <2>6
<1>5. id \in Sheets =>
        id = req[w].root /\ sheet[id] # None /\ row \in SheetRow /\ SameSheet(id, row)
  <2> SUFFICES ASSUME id \in Sheets
               PROVE  /\ id = req[w].root /\ sheet[id] # None
                      /\ row \in SheetRow /\ SameSheet(id, row)
    OBVIOUS
  <2>1. /\ id = req[w].root /\ sheet[id] # None /\ SheetPatches(p)
        /\ Row(id) = sheet[id] /\ sheet[id] \in SheetRow
    BY <1>1, RowTypes DEF SheetCopy
  <2>2. row \in SheetRow
    BY <2>1 DEF SheetPatches
  <2>3. "user" \in DOMAIN sheet[id] /\ "start" \in DOMAIN sheet[id]
    BY <2>1 DEF SheetRow
  <2>4. /\ row.user = IF "user" \in DOMAIN p THEN p.user ELSE sheet[id].user
        /\ row.start = IF "start" \in DOMAIN p THEN p.start ELSE sheet[id].start
    BY <2>1, <2>3 DEF Over
  <2> HIDE DEF row
  <2> QED
    BY <1>1, <2>1, <2>2, <2>4 DEF SheetCopy, SameSheet
<1> HIDE DEF row
<1>6. /\ DOMAIN m = {id} \cup DOMAIN old /\ m[id] = row
      /\ \A k \in DOMAIN old \ {id} : m[k] = old[k]
  BY DEF Over, Only
<1>7. id \in Logs \cup Sheets /\ ~(id \in Logs /\ id \in Sheets)
  BY <1>1, IdsAssumption DEF Shaped
<1>8. \A v \in Workers \ {w} : DOMAIN m \cap DOMAIN mine[v] = {}
  <2>1. \A v \in Workers \ {w} : id \notin DOMAIN mine[v]
    BY <1>1 DEF Write, Blocks, At
  <2> QED
    BY <1>1, <1>6, <2>1
<1> HIDE DEF m, r
<1>9. ASSUME NEW s, NEW u, NEW d, Backed(req[w], old, s, u, d)
      PROVE  Backed(r, m, s, u, d)
  <2>1. CASE s = None \/ (s \in Sheets /\ Fine(s, u, d))
    BY <2>1 DEF Backed
  <2>2. CASE s \in Sheets /\ Own(req[w], old, s, u, d)
    <3>1. /\ req[w].op = "submit" /\ s = req[w].root /\ s \in DOMAIN old
          /\ old[s].user = u /\ old[s].start <= d
      BY <2>2 DEF Own
    <3>2. CASE s = id
      <4>1. sheet[s] # None /\ SameSheet(s, old[s])
        BY <1>1, <1>5, <2>2, <3>1, <3>2 DEF RowsBacked
      <4> QED
        BY <2>2, <3>1, <4>1 DEF Backed, Fine, SameSheet
    <3>3. CASE s # id
      BY <1>3, <1>6, <2>2, <3>1, <3>3 DEF Backed, Own
    <3> QED
      BY <3>2, <3>3
  <2> QED
    BY <1>9, <2>1, <2>2 DEF Backed
<1>10. RowsBacked(r, m)
  <2>1. DOMAIN m \subseteq Logs \cup Sheets
    BY <1>1, <1>6, <1>7 DEF RowsBacked
  <2>2. ASSUME NEW t \in DOMAIN m \cap Sheets
        PROVE  t = r.root /\ m[t] \in SheetRow /\ (sheet[t] # None => SameSheet(t, m[t]))
    <3>1. CASE t = id
      BY <1>3, <1>5, <1>6, <3>1
    <3>2. CASE t # id
      BY <1>1, <1>3, <1>6, <3>2 DEF RowsBacked
    <3> QED
      BY <3>1, <3>2
  <2>3. ASSUME NEW l \in DOMAIN m \cap Logs
        PROVE  /\ Exists(l) => SameLog(l, m[l])
               /\ Backed(r, m, m[l].sheet, m[l].user, m[l].day)
    <3>1. CASE l = id
      <4>1. m[l] = row /\ id \in Logs
        BY <1>6, <3>1
      <4>2. row.user = log[id].user /\ row.day = log[id].day
        BY <1>4, <4>1 DEF SameLog
      <4>3. Backed(req[w], old, row.sheet, row.user, row.day)
        BY <1>4, <4>1, <4>2
      <4> QED
        BY <1>4, <1>9, <3>1, <4>1, <4>3
    <3>2. CASE l # id
      BY <1>1, <1>6, <1>9, <3>2 DEF RowsBacked
    <3> QED
      BY <3>1, <3>2
  <2> QED
    BY <2>1, <2>2, <2>3 DEF RowsBacked
<1>11. Rests(r, m)
  <2>1. r # Idle
    BY <1>1, <1>3, IdleFits DEF Shaped
  <2> QED
    BY <1>3, <2>1 DEF Rests
<1>12. LogCopy(r, m) /\ SheetCopy(r)
  BY <1>1, <1>3, <1>9 DEF LogCopy, SheetCopy
<1> QED
  BY <1>1, <1>2, <1>3, <1>8, <1>10, <1>11, <1>12, ContinueLinks DEF Linking

LEMMA ListLinkedLinks ==
  ASSUME Inv, LinksOK, NEW w \in Workers, ListLinked(w)
  PROVE  LinksOK'
<1>1. /\ Shaped(req[w]) /\ req[w] # Idle /\ req[w].at = "list"
      /\ RowsBacked(req[w], mine[w])
      /\ \A v \in Workers \ {w} : DOMAIN mine[w] \cap DOMAIN mine[v] = {}
      /\ seen \subseteq Logs /\ lost \subseteq Logs
  BY Busy, Links DEF Inv, RequestsOK, ListLinked, At
<1> DEFINE L == Listed(req[w].root)
           todo == [l \in L |-> log[l]]
           owes == IF req[w].op = "approve_sheet" THEN L ELSE {}
           r == [req[w] EXCEPT !.at = "next", !.todo = todo, !.news = owes]
           m == mine[w]
<1>2. Becomes(w, r) /\ Has(w, m) /\ UNCHANGED <<log, sheet, seen, lost>>
  BY DEF ListLinked, Becomes, Has, Inv, RequestsOK
<1>3. \A l \in L : l \in Logs /\ Exists(l)
  BY DEF Listed, Linked
<1> HIDE DEF L
<1>4. /\ r.op = req[w].op /\ r.root = req[w].root /\ r.id = req[w].id
      /\ r.at = "next" /\ r.todo = todo /\ DOMAIN r = Fields
  BY <1>1 DEF Shaped, Fields
<1>5. DOMAIN todo = L /\ \A l \in L : todo[l] = log[l]
  OBVIOUS
<1>6. req[w].op # "submit"
  BY <1>1 DEF Shaped, SheetOps
<1> HIDE DEF r, m, todo
<1>7. \A s, u, d : Backed(req[w], m, s, u, d) => Backed(r, m, s, u, d)
  BY <1>4 DEF Backed, Own
<1>8. Rests(r, m) /\ RowsBacked(r, m)
  <2>1. r # Idle
    BY <1>1, <1>4, IdleFits DEF Shaped
  <2> QED
    BY <1>1, <1>4, <1>7, <2>1 DEF Rests, RowsBacked, m
<1>9. \A l \in L : Backed(r, m, log[l].sheet, log[l].user, log[l].day)
  BY <1>3, RowTypes DEF Backed
<1>10. LogCopy(r, m) /\ SheetCopy(r)
  BY <1>4, <1>5, <1>6, <1>9 DEF LogCopy, SheetCopy, SameLog
<1> QED
  BY <1>1, <1>2, <1>4, <1>8, <1>10, ContinueLinks DEF Linking, m

LEMMA MergeNextLinks ==
  ASSUME Inv, LinksOK, NEW w \in Workers, MergeNext(w)
  PROVE  LinksOK'
<1>1. /\ Shaped(req[w]) /\ Copied(req[w]) /\ req[w] # Idle /\ req[w].at = "next"
      /\ RowsBacked(req[w], mine[w]) /\ LogCopy(req[w], mine[w])
      /\ \A v \in Workers \ {w} : DOMAIN mine[w] \cap DOMAIN mine[v] = {}
      /\ seen \subseteq Logs /\ lost \subseteq Logs
  BY Busy, Links DEF Inv, RequestsOK, MergeNext, At
<1>2. PICK l \in DOMAIN req[w].todo : \E e \in Settled(w, req[w].todo[l]) :
        req' = [req EXCEPT ![w].at = "write", ![w].id = l, ![w].value = Dirty(e, log[l]),
                           ![w].todo = [k \in DOMAIN @ \ {l} |-> @[k]]]
  BY DEF MergeNext
<1>3. PICK e \in Settled(w, req[w].todo[l]) :
        req' = [req EXCEPT ![w].at = "write", ![w].id = l, ![w].value = Dirty(e, log[l]),
                           ![w].todo = [k \in DOMAIN @ \ {l} |-> @[k]]]
  BY <1>2
<1> DEFINE patch == Dirty(e, log[l])
           rest == [k \in DOMAIN req[w].todo \ {l} |-> req[w].todo[k]]
           r == [req[w] EXCEPT !.at = "write", !.id = l, !.value = patch, !.todo = rest]
           m == mine[w]
<1>4. Becomes(w, r) /\ Has(w, m) /\ UNCHANGED <<log, sheet, seen, lost>>
  BY <1>1, <1>3 DEF MergeNext, Becomes, Has, Inv, RequestsOK
<1>5. l \in Logs /\ req[w].todo[l] \in TimeLog /\ l \notin Sheets
  BY <1>1, IdsAssumption DEF Copied
<1>6. /\ e.user = log[l].user /\ e.day = log[l].day
      /\ Backed(req[w], m, e.sheet, log[l].user, log[l].day)
  <2>1. /\ e.user = req[w].todo[l].user /\ e.day = req[w].todo[l].day
        /\ e.sheet = IF req[w].op = "submit" THEN req[w].root ELSE req[w].todo[l].sheet
    BY <1>5, SettledKeepsOwner
  <2> QED
    BY <1>1, <2>1 DEF LogCopy, SameLog
<1>7. \A c \in DOMAIN patch : patch[c] = e[c]
  BY DirtyColumns
<1>8. /\ DOMAIN rest \subseteq DOMAIN req[w].todo
      /\ \A k \in DOMAIN rest : rest[k] = req[w].todo[k]
  OBVIOUS
<1> HIDE DEF patch, rest
<1>9. /\ r.op = req[w].op /\ r.root = req[w].root /\ r.id = l
      /\ r.at = "write" /\ r.todo = rest /\ r.value = patch /\ DOMAIN r = Fields
  BY <1>1 DEF Shaped, Fields
<1> HIDE DEF r, m
<1>10. \A s, u, d : Backed(req[w], m, s, u, d) => Backed(r, m, s, u, d)
  BY <1>9 DEF Backed, Own
<1>11. Rests(r, m) /\ RowsBacked(r, m)
  <2>1. r # Idle
    BY <1>1, <1>9, IdleFits DEF Shaped
  <2> QED
    BY <1>1, <1>9, <1>10, <2>1 DEF Rests, RowsBacked, m
<1>12. LogCopy(r, m)
  <2>1. \A k \in DOMAIN rest :
          /\ SameLog(k, rest[k])
          /\ Backed(r, m, rest[k].sheet, log[k].user, log[k].day)
          /\ r.op = "submit" => Backed(r, m, r.root, log[k].user, log[k].day)
    BY <1>1, <1>8, <1>9, <1>10 DEF LogCopy, m
  <2>2. /\ "user" \in DOMAIN patch => patch.user = log[l].user
        /\ "day" \in DOMAIN patch => patch.day = log[l].day
        /\ "sheet" \in DOMAIN patch => Backed(r, m, patch.sheet, log[l].user, log[l].day)
    BY <1>6, <1>7, <1>10
  <2> QED
    BY <1>9, <2>1, <2>2 DEF LogCopy
<1>13. SheetCopy(r)
  BY <1>5, <1>9 DEF SheetCopy
<1> QED
  BY <1>1, <1>4, <1>9, <1>11, <1>12, <1>13, ContinueLinks DEF Linking, m

LEMMA RollbackLinks ==
  ASSUME Inv, LinksOK, NEW w \in Workers, req[w] # Idle, Rollback(w)
  PROVE  LinksOK'
<1>1. Becomes(w, Idle) /\ Has(w, Empty) /\ UNCHANGED <<log, sheet, seen, lost>>
  BY DEF Rollback, Becomes, Has
<1>2. DOMAIN Empty = {}
  BY DEF Empty
<1>3. Linking(Idle, Empty)
  BY <1>2 DEF Linking, Rests, RowsBacked
<1>4. seen' \subseteq Logs /\ lost' \subseteq Logs
  BY <1>1 DEF LinksOK
<1> QED
  BY <1>1, <1>2, <1>3, <1>4, ContinueLinks
-----------------------------------------------------------------------------
(* Commits, publications, crashes.                                         *)

LEMMA CommitLinks ==
  ASSUME Inv, LinksOK, NEW w \in Workers, Commit(w)
  PROVE  LinksOK'
<1>1. /\ Shaped(req[w]) /\ req[w] # Idle /\ req[w].at = "next"
      /\ Holds(req[w], mine[w]) /\ RowsBacked(req[w], mine[w])
      /\ \A v \in Workers \ {w} : DOMAIN mine[w] \cap DOMAIN mine[v] = {}
  BY Busy, Links DEF Inv, RequestsOK, Commit, At
<1> DEFINE m == mine[w]
           r == IF req[w].news = {} THEN Idle ELSE [req[w] EXCEPT !.at = "publish"]
<1>2. /\ req'[w] = r /\ mine'[w] = Empty /\ seen' = seen /\ lost' = lost
      /\ \A v \in Workers \ {w} : req'[v] = req[v] /\ mine'[v] = mine[v]
  BY DEF Commit, Inv, RequestsOK
<1>3. r # Idle => r.op = req[w].op /\ r.root = req[w].root /\ r.at = "publish"
                  /\ DOMAIN r.todo = {}
  BY <1>1 DEF Commit, Shaped, Fields, Empty
<1> HIDE DEF r
<1>4. \A l \in Logs : /\ l \in DOMAIN m => log'[l] = m[l]
                      /\ l \notin DOMAIN m => log'[l] = log[l]
  BY DEF Commit
<1>5. \A t \in Sheets : /\ t \in DOMAIN m => sheet'[t] = m[t]
                        /\ t \notin DOMAIN m => sheet'[t] = sheet[t]
  BY DEF Commit
<1>6. \A t \in DOMAIN m \cap Sheets :
        t = req[w].root /\ m[t] \in SheetRow /\ m[t] # None
        /\ (sheet[t] # None => SameSheet(t, m[t]))
  BY <1>1, SheetRowAssumption DEF RowsBacked
<1>7. \A l \in DOMAIN m \cap Logs :
        m[l] # None /\ (Exists(l) => SameLog(l, m[l]))
        /\ Backed(req[w], m, m[l].sheet, m[l].user, m[l].day)
  BY <1>1, RowAssumption DEF RowsBacked, Holds
<1>8. sheet' \in [Sheets -> SheetRow \cup {None}]
  <2>1. \A t \in Sheets : sheet'[t] \in SheetRow \cup {None}
    BY <1>5, <1>6 DEF LinksOK
  <2>2. sheet' = [t \in Sheets |-> IF t \in DOMAIN m THEN m[t] ELSE sheet[t]]
    BY DEF Commit
  <2> QED
    BY <2>1, <2>2
<1>9. \A l \in Logs : Exists(l) => Exists(l)' /\ SameLog(l, log'[l])
  BY <1>4, <1>7 DEF Exists, SameLog
<1>10. \A t \in Sheets : sheet[t] # None => sheet'[t] # None /\ SameSheet(t, sheet'[t])
  BY <1>5, <1>6 DEF SameSheet
<1> HIDE DEF m
<1>11. ASSUME NEW v \in Workers \ {w} PROVE Linking(req[v], mine[v])'
  <2>1. \A l \in DOMAIN mine[v] \cap Logs : ~Exists(l) => ~Exists(l)'
    BY <1>1, <1>4 DEF Exists, m
  <2>2. \A t \in Sheets : req[v] # Idle /\ t = req[v].root /\ sheet[t] = None
                            => sheet'[t] = None
    BY <1>1, <1>5, <1>6 DEF LinksOK, Apart
  <2>3. Fits(req[v]) /\ Linking(req[v], mine[v])
    BY DEF Inv, RequestsOK, LinksOK
  <2> QED
    BY <1>2, <1>9, <1>10, <2>1, <2>2, <2>3, OthersLink
<1>12. Linking(req[w], mine[w])'
  <2>1. DOMAIN mine'[w] = {}
    BY <1>2 DEF Empty
  <2>2. Rests(req[w], mine[w])' /\ RowsBacked(req[w], mine[w])'
    BY <2>1 DEF Rests, RowsBacked
  <2>3. req'[w] # Idle => LogCopy(req[w], mine[w])' /\ SheetCopy(req[w])'
    BY <1>2, <1>3 DEF LogCopy, SheetCopy
  <2> QED
    BY <2>2, <2>3 DEF Linking
<1>13. ASSUME NEW v \in Workers, NEW x \in Workers, v # x PROVE Apart(v, x)'
  <2>1. Apart(v, x)
    BY <1>13 DEF LinksOK
  <2>2. /\ DOMAIN mine'[v] \subseteq DOMAIN mine[v] /\ DOMAIN mine'[x] \subseteq DOMAIN mine[x]
        /\ req'[v] # Idle => req[v] # Idle /\ req'[v].root = req[v].root
        /\ req'[x] # Idle => req[x] # Idle /\ req'[x].root = req[x].root
    BY <1>1, <1>2, <1>3 DEF Empty
  <2> QED
    BY <1>10, <2>1, <2>2 DEF Apart
<1>14. NoDanglingLink'
  <2> SUFFICES ASSUME NEW l \in Logs, Exists(l)', log'[l].sheet # None
               PROVE  LET s == sheet'[log'[l].sheet] IN
                      s # None /\ s.user = log'[l].user /\ s.start <= log'[l].day
    BY DEF NoDanglingLink
  <2> DEFINE s == log'[l].sheet
  <2>1. /\ s \in Sheets
        /\ Fine(s, log'[l].user, log'[l].day) \/ Own(req[w], m, s, log'[l].user, log'[l].day)
    <3>1. CASE l \in DOMAIN m
      BY <1>4, <1>7, <3>1 DEF Backed
    <3>2. CASE l \notin DOMAIN m
      BY <1>4, <3>2, RowTypes DEF Exists
    <3> QED
      BY <3>1, <3>2
  <2>2. CASE Fine(s, log'[l].user, log'[l].day)
    BY <1>10, <2>1, <2>2 DEF Fine, SameSheet
  <2>3. CASE Own(req[w], m, s, log'[l].user, log'[l].day)
    BY <1>5, <1>6, <2>1, <2>3 DEF Own
  <2> QED
    BY <2>1, <2>2, <2>3
<1>15. seen' \subseteq Logs /\ lost' \subseteq Logs
  BY <1>2 DEF LinksOK
<1> QED
  BY <1>8, <1>11, <1>12, <1>13, <1>14, <1>15 DEF LinksOK

LEMMA PublishLinks ==
  ASSUME Inv, LinksOK, NEW w \in Workers, PublishApproval(w) \/ PublishFails(w)
  PROVE  LinksOK'
<1>1. /\ Shaped(req[w]) /\ req[w] # Idle /\ req[w].at = "publish"
      /\ Rests(req[w], mine[w]) /\ RowsBacked(req[w], mine[w])
      /\ LogCopy(req[w], mine[w]) /\ SheetCopy(req[w])
      /\ \A v \in Workers \ {w} : DOMAIN mine[w] \cap DOMAIN mine[v] = {}
      /\ seen \subseteq Logs /\ lost \subseteq Logs
  BY Busy, Links DEF Inv, RequestsOK, PublishApproval, PublishFails, At
<1>2. PICK l \in req[w].news : /\ Announced(w, l) /\ UNCHANGED <<log, sheet, mine>>
                              /\ seen' \subseteq seen \cup {l} /\ lost' \subseteq lost \cup {l}
  BY DEF PublishApproval, PublishFails
<1> DEFINE left == req[w].news \ {l}
           r == IF left = {} THEN Idle ELSE [req[w] EXCEPT !.news = left]
           m == mine[w]
<1>3. Becomes(w, r) /\ Has(w, m)
  BY <1>2 DEF Announced, Becomes, Has, Inv, RequestsOK
<1>4. r # Idle => /\ r.op = req[w].op /\ r.root = req[w].root /\ r.id = req[w].id
                  /\ r.at = "publish" /\ r.todo = req[w].todo
  BY <1>1 DEF Shaped, Fields
<1>5. DOMAIN m = {}
  BY <1>1 DEF Rests
<1> HIDE DEF r, m
<1>6. \A s, u, d : Backed(req[w], m, s, u, d) /\ r # Idle => Backed(r, m, s, u, d)
  BY <1>4 DEF Backed, Own
<1>7. Rests(r, m) /\ RowsBacked(r, m)
  BY <1>5 DEF Rests, RowsBacked
<1>8. r # Idle => LogCopy(r, m) /\ SheetCopy(r)
  BY <1>1, <1>4, <1>6 DEF LogCopy, SheetCopy, m
<1>9. seen' \subseteq Logs /\ lost' \subseteq Logs
  BY <1>1, <1>2 DEF Shaped
<1>10. \A v \in Workers \ {w} : DOMAIN m \cap DOMAIN mine[v] = {}
  BY <1>5
<1>11. r = Idle \/ r.root = req[w].root
  BY <1>4
<1> QED
  BY <1>1, <1>2, <1>3, <1>7, <1>8, <1>9, <1>10, <1>11, ContinueLinks DEF Linking

LEMMA ServerCrashLinks ==
  ASSUME Inv, LinksOK, ServerCrash
  PROVE  LinksOK'
<1>1. /\ req' = [w \in Workers |-> Idle] /\ mine' = [w \in Workers |-> Empty]
      /\ lost' = lost \cup Owed /\ UNCHANGED <<log, sheet, seen>>
  BY DEF ServerCrash
<1>2. Owed \subseteq Logs
  <2> SUFFICES ASSUME NEW l \in Owed PROVE l \in Logs
    OBVIOUS
  <2>1. PICK w \in Workers : At(w, "publish") /\ l \in req[w].news
    BY DEF Owed
  <2> QED
    BY <2>1, Busy DEF Inv, Shaped
<1>3. \A w \in Workers : req'[w] = Idle /\ DOMAIN mine'[w] = {}
  BY <1>1 DEF Empty
<1>4. \A w \in Workers : Linking(req[w], mine[w])'
  BY <1>3 DEF Linking, Rests, RowsBacked
<1>5. \A v, w \in Workers : v # w => Apart(v, w)'
  BY <1>3 DEF Apart
<1>6. NoDanglingLink'
  BY <1>1 DEF LinksOK, NoDanglingLink, Exists
<1> QED
  BY <1>1, <1>2, <1>4, <1>5, <1>6 DEF LinksOK

LEMMA StepLinks ==
  ASSUME Inv, LinksOK, NEW w \in Workers, Step(w)
  PROVE  LinksOK'
<1>1. CASE CascadeRaises(w)
  BY <1>1, RollbackLinks DEF CascadeRaises, At
<1> QED
  BY <1>1, CollectLinks, MergeLinks, WriteLinks, ListLinkedLinks, MergeNextLinks,
     CommitLinks, PublishLinks DEF Step

LEMMA NextLinks == Inv /\ LinksOK /\ [Next]_vars => LinksOK'
<1> SUFFICES ASSUME Inv, LinksOK, [Next]_vars PROVE LinksOK'
  OBVIOUS
<1>1. ASSUME NEW w \in Workers, DeadlockVictim(w) PROVE LinksOK'
  <2>1. req[w] # Idle
    BY <1>1 DEF DeadlockVictim, OnCycle, Blocks, At
  <2> QED
    BY <1>1, <2>1, RollbackLinks DEF DeadlockVictim
<1>2. CASE UNCHANGED vars
  <2>1. /\ log' = log /\ sheet' = sheet /\ req' = req /\ mine' = mine
        /\ seen' = seen /\ lost' = lost
    BY <1>2 DEF vars
  <2>2. ASSUME NEW w \in Workers PROVE Linking(req[w], mine[w])'
    BY <2>1, OthersLink DEF Inv, RequestsOK, LinksOK, Exists, SameLog, SameSheet
  <2>3. \A v, w \in Workers : v # w => Apart(v, w)'
    BY <2>1 DEF LinksOK, Apart
  <2>4. NoDanglingLink'
    BY <2>1 DEF LinksOK, NoDanglingLink, Exists
  <2> QED
    BY <2>1, <2>2, <2>3, <2>4 DEF LinksOK
<1> QED
  BY <1>1, <1>2, ArriveLinks, StepLinks, ServerCrashLinks DEF Next

THEOREM LinkInvariance == Spec => []LinksOK
BY InitLinks, InitInv, NextInv, NextLinks, PTL DEF Spec

(* Whatever requests overlap, committed and uncommitted rows keep the      *)
(* shape of their tables, and no two transactions hold a lock on one row   *)
(* (SQLAlchemyRepository.update, save).                                    *)
THEOREM TypeCorrect == Spec => []TypeOK
<1>1. Inv /\ LinksOK => TypeOK
  <2> SUFFICES ASSUME Inv, LinksOK PROVE TypeOK
    OBVIOUS
  <2>1. log \in [Logs -> TimeLog \cup {None}] /\ sheet \in [Sheets -> SheetRow \cup {None}]
        /\ seen \subseteq Logs /\ lost \subseteq Logs
    BY DEF Inv, LogsOK, LinksOK
  <2>2. ASSUME NEW w \in Workers
        PROVE  /\ DOMAIN mine[w] \subseteq Logs \cup Sheets
               /\ \A l \in DOMAIN mine[w] \cap Logs : mine[w][l] \in TimeLog
               /\ \A t \in DOMAIN mine[w] \cap Sheets : mine[w][t] \in SheetRow
               /\ \A v \in Workers \ {w} : DOMAIN mine[v] \cap DOMAIN mine[w] = {}
    BY DEF Inv, RequestsOK, Holds, LinksOK, Linking, RowsBacked, Apart
  <2> QED
    BY <2>1, <2>2 DEF TypeOK
<1> QED
  BY <1>1, Invariance, LinkInvariance, PTL

(* However requests overlap, a log is linked only to an existing timesheet *)
(* of its own user that starts no later than its date: what a submission   *)
(* or an edit copied may be stale, but never the owner or a date           *)
(* (submit_timesheet.py, update in base_repository.py).                    *)
THEOREM NoDanglingLinkHolds == Spec => []NoDanglingLink
<1>1. LinksOK => NoDanglingLink
  BY DEF LinksOK
<1> QED
  BY <1>1, LinkInvariance, PTL
=============================================================================

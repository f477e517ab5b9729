----------------------- MODULE TimesheetClientsProofs -----------------------
(***************************************************************************)
(* Theorems about TimesheetRequests that rest on what its clients do.      *)
(* Where requests come one at a time, the statements implement the         *)
(* transactions of TimesheetWorkflow.  Where clients record and submit     *)
(* alone, decisions and edits never deadlock, however many of them there   *)
(* are.  Where they otherwise only decide, approve or reject logs and      *)
(* timesheets, decided timesheets stay decided with all of their logs.     *)
(***************************************************************************)
EXTENDS TimesheetRequestsProofs
-----------------------------------------------------------------------------
(* One request at a time, because clients wait for each other or because   *)
(* the server has one worker: the statements implement the transactions.   *)
(* While a request is alone nothing is committed under it, so what it has  *)
(* written so far is a part of what its transaction does to the committed  *)
(* tables, and its commit takes the step of TimesheetWorkflow.             *)
OneAtATime == Ops \subseteq Solo \/ \A v, w \in Workers : v = w
OthersIdle(w) == \A v \in Workers \ {w} : req[v] = Idle

(* The rows that request r has written or is writing, and what it makes of *)
(* row x among them.                                                       *)
Touched(r, m) == DOMAIN m \cup (IF r.at \in {"merge", "write"} THEN {r.id} ELSE {})
Made(r, m, x) ==
  IF r.at = "merge" /\ x = r.id THEN r.value
  ELSE IF r.at = "write" /\ x = r.id THEN Over(r.value, Row(x)) ELSE m[x]

(* What request op on timesheet t makes of a log.                          *)
Outcome(op, t, row) ==
  CASE op = "submit"                              -> {SubmittedLog(row, t)}
    [] op = "approve_sheet" /\ CanApproveLog(row) -> {ApprovedLog(row)}
    [] op = "reject_sheet" /\ CanRejectLog(row)   -> {RejectedLog(row)}
    [] OTHER                                      -> {}

(* Besides its root, r is to rewrite the logs B: it has done so, or still  *)
(* has them to do as they are.                                             *)
Batch(r, m, B) ==
  /\ DOMAIN r.todo \subseteq B /\ \A l \in DOMAIN r.todo : r.todo[l] = log[l]
  /\ Touched(r, m) = {r.root} \cup (B \ DOMAIN r.todo)
  /\ \A l \in B \ DOMAIN r.todo : Made(r, m, l) \in Outcome(r.op, r.root, log[l])

MakesLog(r, m) ==
  /\ r.op \in LogOps /\ r.root \in Logs /\ Exists(r.root) /\ Batch(r, m, {})
  /\ Made(r, m, r.root) \in Results(r.op, log[r.root])
  /\ r.news = IF r.op = "approve_log" THEN {r.root} ELSE {}

NewLog(row) ==
  \E u \in Users, d \in Days :
    \/ row = TimerLog(u, d)
    \/ \E h \in ValidHours : HoursOn(u, d) + h <= DayCap /\ row = ManualLog(u, d, h)
InsertsLog(r, m) ==
  /\ r.op \in {"create", "start"} /\ r.at = "next" /\ r.news = {}
  /\ r.root \in Logs /\ ~Exists(r.root) /\ Batch(r, m, {}) /\ NewLog(Made(r, m, r.root))

(* A submission found timesheet t, or none, for the week.                  *)
Finds(t, u, from) ==
  /\ \A s, q \in SheetsOf(u, from) : s = q
  /\ \A s \in SheetsOf(u, from) : CanSubmit(sheet[s])
  /\ IF SheetsOf(u, from) = {} THEN sheet[t] = None ELSE t \in SheetsOf(u, from)
Submittable(t, u, from, to) ==
  IF sheet[t] = None THEN NewSheet(u, from, to) ELSE Moved(sheet[t], "submitted")
Totalled(row, P) == [row EXCEPT !.total = SumHours(P)]

Collects(r, m) ==
  /\ r.op = "submit" /\ r.at = "collect" /\ r.root \in Sheets /\ r.id = r.root
  /\ r.news = {} /\ DOMAIN m = {}
  /\ \E u \in Users, k \in Weeks :
       Finds(r.root, u, k[1]) /\ r.value = Submittable(r.root, u, k[1], k[2]) /\ r.to = k[2]
LinksLogs(r, m) ==
  /\ r.op = "submit" /\ r.at # "collect" /\ r.root \in Sheets /\ r.news = {}
  /\ \E u \in Users, k \in Weeks : \E P \in Page(InRange(u, k[1], k[2])) :
       /\ Finds(r.root, u, k[1]) /\ Batch(r, m, P)
       /\ Made(r, m, r.root) = Totalled(Submittable(r.root, u, k[1], k[2]), P)

Unlisted(r) == r.at \in {"merge", "list"} \/ (r.at = "write" /\ r.id = r.root)
Reached(r) == IF Unlisted(r) THEN {} ELSE Linked(r.root)
SettlesLogs(r, m) ==
  /\ r.op \in SheetOps /\ r.root \in Sheets
  /\ sheet[r.root] # None /\ CanMove(sheet[r.root].status, Verdict(r.op))
  /\ Made(r, m, r.root) = Moved(sheet[r.root], Verdict(r.op))
  /\ Batch(r, m, Reached(r)) /\ r.news = IF r.op = "approve_sheet" THEN Reached(r) ELSE {}

Intact(r, m) ==
  MakesLog(r, m) \/ InsertsLog(r, m) \/ Collects(r, m) \/ LinksLogs(r, m) \/ SettlesLogs(r, m)

AloneOK ==
  \A w \in Workers : req[w] # Idle =>
    OthersIdle(w) /\ (req[w].at = "publish" \/ Intact(req[w], mine[w]))
Sound == Inv /\ LinksOK /\ AloneOK

LEMMA OutcomeIsSettled ==
  \A w, row : Settled(w, row) = Outcome(req[w].op, req[w].root, row)
BY DEF Settled, Outcome

LEMMA Redone ==
  ASSUME NEW e, NEW row, DOMAIN e = DOMAIN row
  PROVE  Over(Dirty(e, row), row) = [c \in DOMAIN e |-> e[c]]
<1> DEFINE p == Dirty(e, row)
<1>1. DOMAIN p = {c \in DOMAIN e : e[c] # row[c]} /\ \A c \in DOMAIN p : p[c] = e[c]
  BY DirtyColumns
<1> HIDE DEF p
<1>2. DOMAIN p \cup DOMAIN row = DOMAIN e
  BY <1>1
<1>3. \A c \in DOMAIN e : (IF c \in DOMAIN p THEN p[c] ELSE row[c]) = e[c]
  BY <1>1
<1>4. Over(p, row) = [c \in DOMAIN e |-> e[c]]
  BY <1>2, <1>3 DEF Over
<1> QED
  BY <1>4 DEF p

LEMMA RedoneLog ==
  ASSUME NEW e \in TimeLog, NEW row \in TimeLog
  PROVE  Over(Dirty(e, row), row) = e
<1>1. DOMAIN e = DOMAIN row
  BY LogColumns
<1>2. e = [c \in DOMAIN e |-> e[c]]
  BY DEF TimeLog
<1> QED
  BY <1>1, <1>2, Redone

LEMMA RedoneSheet ==
  ASSUME NEW e \in SheetRow, NEW row \in SheetRow
  PROVE  Over(Dirty(e, row), row) = e
<1>1. DOMAIN e = DOMAIN row
  BY DEF SheetRow
<1>2. e = [c \in DOMAIN e |-> e[c]]
  BY DEF SheetRow
<1> QED
  BY <1>1, <1>2, Redone

(* The committed tables are all that Intact reads besides r and m.         *)
LEMMA StaysIntact ==
  ASSUME NEW w \in Workers, Intact(req'[w], mine'[w]), UNCHANGED <<log, sheet>>
  PROVE  Intact(req[w], mine[w])'
<1> DEFINE r == req'[w]
           m == mine'[w]
<1>1. /\ \A l : Exists(l)' <=> Exists(l)
      /\ \A t : Linked(t)' = Linked(t)
      /\ \A x : Row(x)' = Row(x)
      /\ \A S : SumHours(S)' = SumHours(S)
      /\ \A u, d : SheetsOf(u, d)' = SheetsOf(u, d)
      /\ \A u, d, e : InRange(u, d, e)' = InRange(u, d, e)
  BY DEF Exists, Linked, Row, SumHours, SheetsOf, InRange
<1>2. \A S : Page(S)' = Page(S)
  BY DEF Page
<1>3. \A u, d : HoursOn(u, d)' = HoursOn(u, d)
  BY <1>1 DEF HoursOn, Exists, SumHours
<1>4. /\ \A x : Made(r, m, x) = (Made(req[w], mine[w], x))'
      /\ \A B : Batch(r, m, B) => (Batch(req[w], mine[w], B))'
  BY <1>1 DEF Made, Batch, Touched
<1>5. MakesLog(r, m) => MakesLog(req[w], mine[w])'
  BY <1>1, <1>4 DEF MakesLog
<1>6. InsertsLog(r, m) => InsertsLog(req[w], mine[w])'
  BY <1>1, <1>3, <1>4 DEF InsertsLog, NewLog
<1>7. /\ \A t, u, d : Finds(t, u, d)' <=> Finds(t, u, d)
      /\ \A t, u, d, e : Submittable(t, u, d, e)' = Submittable(t, u, d, e)
      /\ \A row, P : Totalled(row, P)' = Totalled(row, P)
  BY <1>1 DEF Finds, Submittable, Totalled
<1>8. Collects(r, m) => Collects(req[w], mine[w])'
  BY <1>7 DEF Collects
<1>9. LinksLogs(r, m) => LinksLogs(req[w], mine[w])'
  BY <1>1, <1>2, <1>4, <1>7 DEF LinksLogs
<1>10. SettlesLogs(r, m) => SettlesLogs(req[w], mine[w])'
  BY <1>1, <1>4 DEF SettlesLogs, Reached, Unlisted
<1> QED
  BY <1>5, <1>6, <1>8, <1>9, <1>10 DEF Intact

LEMMA InitAlone == Init => AloneOK
BY DEF Init, AloneOK

(* A request that is alone moves on, or ends.                              *)
LEMMA AloneGoesOn ==
  ASSUME Inv, NEW w \in Workers, OthersIdle(w), NEW r, NEW m, Becomes(w, r), Has(w, m),
         r = Idle \/ r.at = "publish" \/ (Intact(r, m) /\ UNCHANGED <<log, sheet>>)
  PROVE  AloneOK' /\ OthersIdle(w)' /\ req'[w] = r
<1>1. /\ req'[w] = r /\ mine'[w] = m
      /\ \A v \in Workers \ {w} : req'[v] = Idle
  BY DEF Becomes, Has, Inv, RequestsOK, OthersIdle
<1>2. Intact(r, m) /\ UNCHANGED <<log, sheet>> => Intact(req[w], mine[w])'
  BY <1>1, StaysIntact
<1>3. OthersIdle(w)'
  BY <1>1 DEF OthersIdle
<1>4. ASSUME NEW v \in Workers, req'[v] # Idle
      PROVE  OthersIdle(v)' /\ (req'[v].at = "publish" \/ Intact(req[v], mine[v])')
  <2>1. v = w
    BY <1>1, <1>4
  <2> QED
    BY <1>1, <1>2, <1>3, <1>4, <2>1
<1> QED
  BY <1>1, <1>3, <1>4 DEF AloneOK
-----------------------------------------------------------------------------
(* Every statement of a request that is alone leaves it intact.            *)

LEMMA Unmade ==
  ASSUME LinksOK, NEW w \in Workers, req[w] = Idle
  PROVE  DOMAIN mine[w] = {}
BY DEF LinksOK, Linking, Rests

LEMMA AdmittedAlone ==
  ASSUME OneAtATime, NEW w \in Workers, NEW o, Admitted(w, o)
  PROVE  OthersIdle(w) /\ req[w] = Idle
BY DEF OneAtATime, Admitted, OthersIdle

LEMMA LoadLogAlone ==
  ASSUME OneAtATime, Sound, NEW w \in Workers, NEW o \in LogOps, NEW l \in Logs,
         LoadLog(w, o, l)
  PROVE  AloneOK' /\ OthersIdle(w) /\ OthersIdle(w)' /\ req'[w].at = "merge"
<1>1. PICK e \in Results(o, log[l]) :
        Begin(w, o, l, "merge", e, IF o = "approve_log" THEN {l} ELSE {})
  BY DEF LoadLog
<1> DEFINE r == Begun(o, l, "merge", e, IF o = "approve_log" THEN {l} ELSE {})
           m == mine[w]
<1>2. Exists(l) /\ UNCHANGED <<log, sheet, mine>>
  BY DEF LoadLog
<1>3. /\ OthersIdle(w) /\ req[w] = Idle /\ Becomes(w, r) /\ Has(w, m)
  BY <1>1, <1>2, AdmittedAlone DEF Begin, Becomes, Begun, Has
<1>4. DOMAIN m = {}
  BY <1>3, Unmade DEF Sound
<1>5. /\ r.op = o /\ r.at = "merge" /\ r.id = l /\ r.root = l /\ r.value = e
      /\ DOMAIN r.todo = {} /\ r.news = IF o = "approve_log" THEN {l} ELSE {}
  BY DEF Begun, Empty
<1> HIDE DEF r, m
<1>6. Touched(r, m) = {l} /\ Made(r, m, l) = e
  BY <1>4, <1>5 DEF Touched, Made
<1>7. Batch(r, m, {})
  BY <1>5, <1>6 DEF Batch
<1>8. Intact(r, m)
  BY <1>2, <1>5, <1>6, <1>7 DEF Intact, MakesLog
<1> QED
  BY <1>2, <1>3, <1>5, <1>8, AloneGoesOn DEF Sound

LEMMA InsertLogAlone ==
  ASSUME OneAtATime, Sound, NEW w \in Workers, NEW o \in {"create", "start"}, NEW l \in Logs,
         NEW row, NewLog(row), InsertLog(w, o, l, row)
  PROVE  AloneOK' /\ OthersIdle(w) /\ OthersIdle(w)' /\ req'[w].at = "next"
<1> DEFINE r == Begun(o, l, "next", None, {})
           m == Only(l, row)
<1>1. ~Exists(l) /\ UNCHANGED <<log, sheet>> /\ Has(w, m)
  BY DEF InsertLog, Has
<1>2. OthersIdle(w) /\ req[w] = Idle /\ Becomes(w, r)
  BY AdmittedAlone DEF InsertLog, Begin, Becomes, Begun
<1>3. /\ r.op = o /\ r.at = "next" /\ r.id = l /\ r.root = l
      /\ DOMAIN r.todo = {} /\ r.news = {}
  BY DEF Begun, Empty
<1>4. DOMAIN m = {l} /\ m[l] = row
  BY DEF Only
<1> HIDE DEF r, m
<1>5. Touched(r, m) = {l} /\ Made(r, m, l) = row
  BY <1>3, <1>4 DEF Touched, Made
<1>6. Batch(r, m, {})
  BY <1>3, <1>5 DEF Batch
<1>7. Intact(r, m)
  BY <1>1, <1>3, <1>5, <1>6 DEF Intact, InsertsLog
<1> QED
  BY <1>1, <1>2, <1>3, <1>7, AloneGoesOn DEF Sound

LEMMA LoadSheetAlone ==
  ASSUME OneAtATime, Sound, NEW w \in Workers, NEW o \in SheetOps, NEW t \in Sheets,
         LoadSheet(w, o, t)
  PROVE  AloneOK' /\ OthersIdle(w) /\ OthersIdle(w)' /\ req'[w].at = "merge"
<1> DEFINE e == Moved(sheet[t], Verdict(o))
           r == Begun(o, t, "merge", e, {})
           m == mine[w]
<1>1. /\ sheet[t] # None /\ CanMove(sheet[t].status, Verdict(o))
      /\ UNCHANGED <<log, sheet, mine>> /\ Has(w, m)
  BY DEF LoadSheet, Has
<1>2. OthersIdle(w) /\ req[w] = Idle /\ Becomes(w, r)
  BY AdmittedAlone DEF LoadSheet, Begin, Becomes, Begun
<1>3. DOMAIN m = {}
  BY <1>2, Unmade DEF Sound
<1>4. /\ r.op = o /\ r.at = "merge" /\ r.id = t /\ r.root = t /\ r.value = e
      /\ DOMAIN r.todo = {} /\ r.news = {}
  BY DEF Begun, Empty
<1> HIDE DEF r, m
<1>5. Touched(r, m) = {t} /\ Made(r, m, t) = e
  BY <1>3, <1>4 DEF Touched, Made
<1>6. Reached(r) = {} /\ Batch(r, m, {})
  BY <1>4, <1>5 DEF Batch, Reached, Unlisted
<1>7. Intact(r, m)
  BY <1>1, <1>4, <1>5, <1>6 DEF Intact, SettlesLogs
<1> QED
  BY <1>1, <1>2, <1>4, <1>7, AloneGoesOn DEF Sound

LEMMA LookupAlone ==
  ASSUME OneAtATime, Sound, NEW w \in Workers, NEW t \in Sheets, NEW u \in Users,
         NEW k \in Weeks, Lookup(w, t, u, k[1], k[2])
  PROVE  AloneOK' /\ OthersIdle(w) /\ OthersIdle(w)' /\ req'[w].at = "collect"
<1> DEFINE found == SheetsOf(u, k[1])
           e == IF found = {} THEN NewSheet(u, k[1], k[2]) ELSE Moved(sheet[t], "submitted")
           r == [op |-> "submit", root |-> t, at |-> "collect", id |-> t,
                 value |-> e, todo |-> Empty, to |-> k[2], news |-> {}]
           m == mine[w]
<1>1. Finds(t, u, k[1]) /\ UNCHANGED <<log, sheet, mine>> /\ Has(w, m)
  BY DEF Lookup, Finds, Has
<1>2. OthersIdle(w) /\ req[w] = Idle /\ Becomes(w, r)
  BY AdmittedAlone DEF Lookup, Becomes
<1>3. e = Submittable(t, u, k[1], k[2])
  BY <1>1 DEF Finds, Submittable, SheetsOf
<1>4. DOMAIN m = {}
  BY <1>2, Unmade DEF Sound
<1> HIDE DEF e
<1>5. /\ r.op = "submit" /\ r.at = "collect" /\ r.id = t /\ r.root = t /\ r.value = e
      /\ r.to = k[2] /\ r.news = {}
  OBVIOUS
<1> HIDE DEF r, m
<1>6. Intact(r, m)
  BY <1>1, <1>3, <1>4, <1>5 DEF Intact, Collects
<1> QED
  BY <1>1, <1>2, <1>5, <1>6, AloneGoesOn DEF Sound

LEMMA ArriveAlone ==
  ASSUME OneAtATime, Sound, NEW w \in Workers, Arrive(w)
  PROVE  /\ AloneOK' /\ OthersIdle(w) /\ OthersIdle(w)' /\ req'[w].at # "publish"
         /\ req[w] = Idle /\ UNCHANGED <<log, sheet, seen, lost>>
<1>1. ASSUME NEW o \in LogOps, NEW l \in Logs, LoadLog(w, o, l)
      PROVE  /\ AloneOK' /\ OthersIdle(w) /\ OthersIdle(w)' /\ req'[w].at # "publish"
             /\ req[w] = Idle /\ UNCHANGED <<log, sheet, seen, lost>>
  BY <1>1, LoadLogAlone DEF LoadLog, Begin, Admitted
<1>2. ASSUME NEW o \in SheetOps, NEW t \in Sheets, LoadSheet(w, o, t)
      PROVE  /\ AloneOK' /\ OthersIdle(w) /\ OthersIdle(w)' /\ req'[w].at # "publish"
             /\ req[w] = Idle /\ UNCHANGED <<log, sheet, seen, lost>>
  BY <1>2, LoadSheetAlone DEF LoadSheet, Begin, Admitted
<1>3. ASSUME NEW o \in {"create", "start"}, NEW l \in Logs, NEW row, NewLog(row),
             InsertLog(w, o, l, row)
      PROVE  /\ AloneOK' /\ OthersIdle(w) /\ OthersIdle(w)' /\ req'[w].at # "publish"
             /\ req[w] = Idle /\ UNCHANGED <<log, sheet, seen, lost>>
  BY <1>3, InsertLogAlone DEF InsertLog, Begin, Admitted
<1>4. ASSUME NEW l \in Logs, NEW u \in Users, NEW d \in Days, CreateTimeLog(w, l, u, d)
      PROVE  \E row : NewLog(row) /\ InsertLog(w, "create", l, row)
  BY <1>4 DEF CreateTimeLog, NewLog
<1>5. ASSUME NEW l \in Logs, NEW u \in Users, NEW d \in Days, StartTimer(w, l, u, d)
      PROVE  \E row : NewLog(row) /\ InsertLog(w, "start", l, row)
  BY <1>5 DEF StartTimer, NewLog
<1>6. ASSUME NEW t \in Sheets, NEW u \in Users, NEW k \in Weeks, Lookup(w, t, u, k[1], k[2])
      PROVE  /\ AloneOK' /\ OthersIdle(w) /\ OthersIdle(w)' /\ req'[w].at # "publish"
             /\ req[w] = Idle /\ UNCHANGED <<log, sheet, seen, lost>>
  BY <1>6, LookupAlone DEF Lookup, Admitted
<1> QED
  BY <1>1, <1>2, <1>3, <1>4, <1>5, <1>6 DEF Arrive

(* A request that is alone is at one of its statements.                    *)
LEMMA Running ==
  ASSUME Sound, NEW w \in Workers, NEW place, At(w, place)
  PROVE  /\ req[w] # Idle /\ OthersIdle(w) /\ req[w].at = place
         /\ Shaped(req[w]) /\ Copied(req[w])
         /\ place # "publish" => Intact(req[w], mine[w])
BY Busy DEF Sound, Inv, AloneOK, At

(* Merging and writing a row does not change what becomes of it.           *)
LEMMA KeepsMaking ==
  ASSUME NEW r, NEW m, NEW q, NEW n, Intact(r, m), r.at \in {"merge", "write"},
         q.op = r.op, q.root = r.root, q.todo = r.todo, q.news = r.news,
         q.at # "collect", Touched(q, n) = Touched(r, m),
         \A x \in Touched(r, m) : Made(q, n, x) = Made(r, m, x),
         r.op \in SheetOps /\ r.root \in Touched(r, m) => (Unlisted(q) <=> Unlisted(r))
  PROVE  Intact(q, n)
<1>1. ASSUME NEW B, Batch(r, m, B)
      PROVE  /\ Batch(q, n, B) /\ r.root \in Touched(r, m)
             /\ Made(q, n, r.root) = Made(r, m, r.root)
  BY <1>1 DEF Batch
<1>2. MakesLog(r, m) => MakesLog(q, n)
  BY <1>1 DEF MakesLog
<1>3. LinksLogs(r, m) => LinksLogs(q, n)
  BY <1>1 DEF LinksLogs
<1>4. SettlesLogs(r, m) => SettlesLogs(q, n)
  BY <1>1 DEF SettlesLogs, Reached
<1> QED
  BY <1>2, <1>3, <1>4 DEF Intact, InsertsLog, Collects

LEMMA MergeAlone ==
  ASSUME Sound, NEW w \in Workers, Merge(w)
  PROVE  AloneOK' /\ OthersIdle(w) /\ OthersIdle(w)' /\ req'[w].at = "write"
<1>1. /\ OthersIdle(w) /\ req[w].at = "merge" /\ Shaped(req[w]) /\ Copied(req[w])
      /\ Intact(req[w], mine[w]) /\ SheetCopy(req[w])
  BY Running, Links DEF Sound, Merge
<1> DEFINE r == req[w]
           m == mine[w]
           id == req[w].id
           patch == Dirty(r.value, Row(id))
           q == [r EXCEPT !.at = "write", !.value = patch]
<1>2. Becomes(w, q) /\ Has(w, m) /\ UNCHANGED <<log, sheet>>
  BY DEF Merge, Becomes, Has, Sound, Inv, RequestsOK
<1>3. Over(patch, Row(id)) = r.value
  <2>1. CASE id \in Logs
    <3>1. r.value \in TimeLog /\ Row(id) \in TimeLog
      BY <1>1, <2>1, RowTypes DEF Copied, Sound
    <3> QED
      BY <3>1, RedoneLog
  <2>2. CASE id \in Sheets
    <3>1. r.value \in SheetRow /\ Row(id) \in SheetRow
      BY <1>1, <2>2, RowTypes DEF SheetCopy, Sound
    <3> QED
      BY <3>1, RedoneSheet
  <2> QED
    BY <1>1, <2>1, <2>2 DEF Shaped
<1> HIDE DEF patch
<1>4. /\ q.op = r.op /\ q.root = r.root /\ q.id = id /\ q.todo = r.todo /\ q.news = r.news
      /\ q.at = "write" /\ q.value = patch
  BY <1>1 DEF Shaped, Fields
<1> HIDE DEF q
<1>5. Touched(q, m) = Touched(r, m) /\ \A x \in Touched(r, m) : Made(q, m, x) = Made(r, m, x)
  BY <1>1, <1>3, <1>4 DEF Touched, Made
<1>6. r.op \in SheetOps /\ r.root \in Touched(r, m) => (Unlisted(q) <=> Unlisted(r))
  <2>1. r.op \in SheetOps => SettlesLogs(r, m)
    BY <1>1 DEF Intact, MakesLog, InsertsLog, Collects, LinksLogs, SheetOps, LogOps
  <2>2. r.op \in SheetOps => Touched(r, m) = {r.root}
    BY <1>1, <2>1 DEF SettlesLogs, Reached, Unlisted, Batch
  <2>3. r.op \in SheetOps => id = r.root
    BY <1>1, <2>2 DEF Touched
  <2> QED
    BY <1>1, <1>4, <2>3 DEF Unlisted
<1>7. Intact(q, m)
  BY <1>1, <1>4, <1>5, <1>6, KeepsMaking
<1> QED
  BY <1>1, <1>2, <1>4, <1>7, AloneGoesOn DEF Sound

LEMMA WriteAlone ==
  ASSUME Sound, NEW w \in Workers, Write(w)
  PROVE  AloneOK' /\ OthersIdle(w) /\ OthersIdle(w)' /\ req'[w].at # "publish"
<1>1. /\ OthersIdle(w) /\ req[w].at = "write" /\ Shaped(req[w]) /\ Intact(req[w], mine[w])
  BY Running DEF Write
<1> DEFINE r == req[w]
           m == mine[w]
           id == req[w].id
           row == Over(r.value, Row(id))
           at == IF r.op \in SheetOps /\ id = r.root THEN "list" ELSE "next"
           q == [r EXCEPT !.at = at, !.value = None]
           n == Over(Only(id, row), m)
<1>2. Becomes(w, q) /\ Has(w, n) /\ UNCHANGED <<log, sheet>>
  BY DEF Write, Becomes, Has, Sound, Inv, RequestsOK
<1>3. /\ q.op = r.op /\ q.root = r.root /\ q.id = id /\ q.todo = r.todo /\ q.news = r.news
      /\ q.at = at
  BY <1>1 DEF Shaped, Fields
<1> HIDE DEF row
<1>4. /\ DOMAIN n = {id} \cup DOMAIN m /\ n[id] = row
      /\ \A x \in DOMAIN m \ {id} : n[x] = m[x]
  BY DEF Over, Only
<1> HIDE DEF q, n
<1>5. Touched(q, n) = Touched(r, m) /\ \A x \in Touched(r, m) : Made(q, n, x) = Made(r, m, x)
  BY <1>1, <1>3, <1>4 DEF Touched, Made, row
<1>6. r.op \in SheetOps /\ r.root \in Touched(r, m) => (Unlisted(q) <=> Unlisted(r))
  BY <1>1, <1>3 DEF Unlisted
<1>7. Intact(q, n)
  BY <1>1, <1>3, <1>5, <1>6, KeepsMaking
<1> QED
  BY <1>1, <1>2, <1>3, <1>7, AloneGoesOn DEF Sound

LEMMA ListLinkedAlone ==
  ASSUME Sound, NEW w \in Workers, ListLinked(w)
  PROVE  AloneOK' /\ OthersIdle(w) /\ OthersIdle(w)' /\ req'[w].at = "next"
<1>1. /\ OthersIdle(w) /\ req[w].at = "list" /\ Shaped(req[w]) /\ Intact(req[w], mine[w])
  <2>1. At(w, "list")
    BY DEF ListLinked
  <2> QED
    BY <2>1, Running
<1> DEFINE r == req[w]
           m == mine[w]
           L == Linked(r.root)
           todo == [l \in L |-> log[l]]
           owes == IF r.op = "approve_sheet" THEN L ELSE {}
           q == [r EXCEPT !.at = "next", !.todo = todo, !.news = owes]
<1>2. Becomes(w, q) /\ Has(w, m) /\ UNCHANGED <<log, sheet>>
  BY DEF ListLinked, Listed, Becomes, Has, Sound, Inv, RequestsOK
<1>3. /\ q.op = r.op /\ q.root = r.root /\ q.id = r.id
      /\ q.at = "next" /\ q.todo = todo /\ q.news = owes
  BY <1>1 DEF Shaped, Fields
<1>4. DOMAIN todo = L /\ \A l \in L : todo[l] = log[l]
  OBVIOUS
<1> HIDE DEF q, todo
<1>5. SettlesLogs(r, m)
  <2>1. r.op \in SheetOps
    BY <1>1 DEF Shaped
  <2> QED
    BY <1>1, <2>1 DEF Intact, MakesLog, InsertsLog, Collects, LinksLogs, SheetOps, LogOps
<1>6. DOMAIN m = {r.root}
  BY <1>1, <1>5 DEF SettlesLogs, Reached, Unlisted, Batch, Touched
<1>7. /\ Touched(q, m) = {q.root} /\ Made(q, m, q.root) = Made(r, m, r.root)
      /\ Reached(q) = L
  BY <1>1, <1>3, <1>6 DEF Touched, Made, Reached, Unlisted
<1>8. Batch(q, m, L)
  BY <1>3, <1>4, <1>7 DEF Batch
<1>9. Intact(q, m)
  <2>1. SettlesLogs(q, m)
    BY <1>3, <1>5, <1>7, <1>8 DEF SettlesLogs
  <2> QED
    BY <2>1 DEF Intact
<1> QED
  BY <1>1, <1>2, <1>3, <1>9, AloneGoesOn DEF Sound

LEMMA CollectAlone ==
  ASSUME Sound, NEW w \in Workers, Collect(w)
  PROVE  AloneOK' /\ OthersIdle(w) /\ OthersIdle(w)' /\ req'[w].at # "publish"
<1>1. /\ OthersIdle(w) /\ req[w].at = "collect" /\ Shaped(req[w]) /\ Intact(req[w], mine[w])
  BY Running DEF Collect
<1> DEFINE r == req[w]
           m == mine[w]
           t == req[w].root
           isNew == sheet[t] = None
<1>2. Collects(r, m)
  <2>1. r.op = "submit"
    BY <1>1 DEF Shaped
  <2> QED
    BY <1>1, <2>1 DEF Intact, MakesLog, InsertsLog, LinksLogs, SettlesLogs, SheetOps, LogOps
<1>3. PICK u \in Users, k \in Weeks :
        Finds(t, u, k[1]) /\ r.value = Submittable(t, u, k[1], k[2]) /\ r.to = k[2]
  BY <1>2 DEF Collects
<1>4. r.value.user = u /\ r.value.start = k[1]
  <2>1. CASE isNew
    BY <1>3, <2>1 DEF Submittable, NewSheet
  <2>2. CASE ~isNew
    <3>1. sheet[t] \in SheetRow /\ sheet[t].user = u /\ sheet[t].start = k[1]
      BY <1>2, <1>3, <2>2, RowTypes DEF Collects, Finds, SheetsOf, Sound
    <3> QED
      BY <1>3, <2>2, <3>1 DEF Submittable, Moved, SheetRow
  <2> QED
    BY <2>1, <2>2
<1>5. PICK P \in Page(InRange(r.value.user, r.value.start, r.to)) :
        LET row == [r.value EXCEPT !.total = SumHours(P)] IN
        /\ req' = [req EXCEPT ![w].at = IF isNew THEN "next" ELSE "merge",
                              ![w].value = IF isNew THEN None ELSE row,
                              ![w].todo = [l \in P |-> log[l]]]
        /\ mine' = IF isNew THEN [mine EXCEPT ![w] = Only(t, row)] ELSE mine
  BY DEF Collect
<1>6. P \in Page(InRange(u, k[1], k[2]))
  BY <1>3, <1>4, <1>5
<1> DEFINE row == Totalled(r.value, P)
           at == IF isNew THEN "next" ELSE "merge"
           value == IF isNew THEN None ELSE row
           todo == [l \in P |-> log[l]]
           q == [r EXCEPT !.at = at, !.value = value, !.todo = todo]
           n == IF isNew THEN Only(t, row) ELSE m
<1>7. Becomes(w, q) /\ Has(w, n) /\ UNCHANGED <<log, sheet>>
  BY <1>5 DEF Becomes, Has, Sound, Inv, RequestsOK, Collect, Totalled
<1> HIDE DEF row
<1>8. /\ q.op = r.op /\ q.root = t /\ q.id = t /\ q.at = at /\ q.value = value
      /\ q.todo = todo /\ q.news = r.news
  BY <1>1, <1>2 DEF Shaped, Fields, Collects
<1>9. /\ isNew => DOMAIN n = {t} /\ n[t] = row
      /\ ~isNew => DOMAIN n = {}
  BY <1>2 DEF Only, Collects
<1>10. DOMAIN todo = P /\ \A l \in P : todo[l] = log[l]
  OBVIOUS
<1> HIDE DEF q, n, todo
<1>11. Touched(q, n) = {t} /\ Made(q, n, t) = row
  BY <1>8, <1>9 DEF Touched, Made
<1>12. Batch(q, n, P)
  BY <1>8, <1>10, <1>11 DEF Batch
<1>13. LinksLogs(q, n)
  BY <1>2, <1>3, <1>6, <1>8, <1>11, <1>12 DEF LinksLogs, Collects, row
<1>14. Intact(q, n) /\ q.at # "publish"
  BY <1>8, <1>13 DEF Intact
<1> QED
  BY <1>1, <1>7, <1>14, AloneGoesOn DEF Sound

LEMMA MergeNextAlone ==
  ASSUME Sound, NEW w \in Workers, MergeNext(w)
  PROVE  AloneOK' /\ OthersIdle(w) /\ OthersIdle(w)' /\ req'[w].at = "write"
<1>1. /\ OthersIdle(w) /\ req[w].at = "next" /\ Shaped(req[w]) /\ Copied(req[w])
      /\ Intact(req[w], mine[w])
  BY Running DEF MergeNext
<1>2. PICK l \in DOMAIN req[w].todo : \E e \in Settled(w, req[w].todo[l]) :
        req' = [req EXCEPT ![w].at = "write", ![w].id = l, ![w].value = Dirty(e, log[l]),
                           ![w].todo = [k \in DOMAIN @ \ {l} |-> @[k]]]
  BY DEF MergeNext
<1>3. PICK e \in Settled(w, req[w].todo[l]) :
        req' = [req EXCEPT ![w].at = "write", ![w].id = l, ![w].value = Dirty(e, log[l]),
                           ![w].todo = [k \in DOMAIN @ \ {l} |-> @[k]]]
  BY <1>2
<1> DEFINE r == req[w]
           m == mine[w]
           patch == Dirty(e, log[l])
           rest == [k \in DOMAIN r.todo \ {l} |-> r.todo[k]]
           q == [r EXCEPT !.at = "write", !.id = l, !.value = patch, !.todo = rest]
<1>4. Becomes(w, q) /\ Has(w, m) /\ UNCHANGED <<log, sheet>>
  BY <1>1, <1>3 DEF MergeNext, Becomes, Has, Sound, Inv, RequestsOK
<1>5. l \in Logs /\ Exists(l) /\ r.todo[l] \in TimeLog /\ l \notin Sheets
  BY <1>1, <1>2, IdsAssumption DEF Copied
<1>6. LinksLogs(r, m) \/ SettlesLogs(r, m)
  BY <1>1, <1>2 DEF Intact, MakesLog, InsertsLog, Collects, Batch
<1>7. r.root \in Sheets /\ r.root # l
  BY <1>5, <1>6 DEF LinksLogs, SettlesLogs
<1>8. Over(patch, Row(l)) = e
  <2>1. e \in TimeLog
    BY <1>3, <1>5, <1>7, SettledType
  <2>2. Row(l) = log[l] /\ log[l] \in TimeLog
    BY <1>5, RowTypes DEF Sound
  <2> QED
    BY <2>1, <2>2, RedoneLog
<1>9. DOMAIN rest = DOMAIN r.todo \ {l} /\ \A k \in DOMAIN rest : rest[k] = r.todo[k]
  OBVIOUS
<1> HIDE DEF patch, rest
<1>10. /\ q.op = r.op /\ q.root = r.root /\ q.id = l /\ q.at = "write" /\ q.value = patch
       /\ q.todo = rest /\ q.news = r.news
  BY <1>1 DEF Shaped, Fields
<1> HIDE DEF q
<1>11. ASSUME NEW B, Batch(r, m, B)
       PROVE  Batch(q, m, B) /\ Made(q, m, r.root) = Made(r, m, r.root)
  <2>1. Touched(r, m) = DOMAIN m /\ Touched(q, m) = DOMAIN m \cup {l}
    BY <1>1, <1>10 DEF Touched
  <2>2. /\ Made(q, m, l) = e
        /\ \A x : x # l => Made(q, m, x) = Made(r, m, x)
    BY <1>1, <1>8, <1>10 DEF Made
  <2>3. l \in B /\ r.todo[l] = log[l]
    BY <1>2, <1>11 DEF Batch
  <2>4. e \in Outcome(q.op, q.root, log[l])
    BY <1>3, <1>10, <2>3, OutcomeIsSettled
  <2>5. Touched(q, m) = {q.root} \cup (B \ DOMAIN q.todo)
    BY <1>9, <1>10, <1>11, <2>1, <2>3 DEF Batch
  <2>6. \A x \in B \ DOMAIN q.todo : Made(q, m, x) \in Outcome(q.op, q.root, log[x])
    BY <1>9, <1>10, <1>11, <2>2, <2>4 DEF Batch
  <2>7. DOMAIN q.todo \subseteq B /\ \A k \in DOMAIN q.todo : q.todo[k] = log[k]
    BY <1>9, <1>10, <1>11 DEF Batch
  <2> QED
    BY <1>7, <2>2, <2>5, <2>6, <2>7 DEF Batch
<1>12. Reached(q) = Reached(r)
  BY <1>1, <1>7, <1>10 DEF Reached, Unlisted
<1>13. LinksLogs(r, m) => LinksLogs(q, m)
  BY <1>10, <1>11 DEF LinksLogs
<1>14. SettlesLogs(r, m) => SettlesLogs(q, m)
  BY <1>10, <1>11, <1>12 DEF SettlesLogs
<1>15. Intact(q, m)
  BY <1>6, <1>13, <1>14 DEF Intact
<1> QED
  BY <1>1, <1>4, <1>10, <1>15, AloneGoesOn DEF Sound
-----------------------------------------------------------------------------
(* The tables as TimesheetWorkflow has them.                               *)
Part(row) ==
  IF row = None THEN None
  ELSE [user |-> row.user, start |-> row.start, end |-> row.end, status |-> row.status]
TotalOf(row) == IF row = None THEN 0 ELSE row.total
Parts == [t \in Sheets |-> Part(sheet[t])]
Totals == [t \in Sheets |-> TotalOf(sheet[t])]

LEMMA SameMethods ==
  /\ \A r : /\ W!CanPause(r) = CanPause(r) /\ W!CanResume(r) = CanResume(r)
            /\ W!CanStop(r) = CanStop(r) /\ W!Resumed(r) = Resumed(r)
            /\ W!Segments(r) = Segments(r)
  /\ \A s : W!RoundedHours(s) = RoundedHours(s)
  /\ \A r, e, h : W!Paused(r, e, h) = Paused(r, e, h) /\ W!Stopped(r, e, h) = Stopped(r, e, h)
  /\ \A r, h : W!HoursUpdated(r, h) = HoursUpdated(r, h)
  /\ W!ValidHours = ValidHours /\ \A r : W!EditedHours(r) = EditedHours(r)
BY DEF W!CanPause, CanPause, W!CanResume, CanResume, W!CanStop, CanStop, W!Resumed, Resumed,
       W!Segments, Segments, W!RoundedHours, RoundedHours, W!Paused, Paused, W!Stopped, Stopped,
       W!HoursUpdated, HoursUpdated, W!ValidHours, ValidHours, W!EditedHours, EditedHours

LEMMA SameDecisions ==
  /\ \A r : /\ W!CanApproveLog(r) = CanApproveLog(r) /\ W!CanRejectLog(r) = CanRejectLog(r)
            /\ W!ApprovedLog(r) = ApprovedLog(r) /\ W!RejectedLog(r) = RejectedLog(r)
  /\ \A r, t : W!SubmittedLog(r, t) = SubmittedLog(r, t)
  /\ \A s, o : W!CanMove(s, o) = CanMove(s, o)
  /\ \A s, o : W!Moved(s, o) = Moved(s, o)
  /\ \A u, d, h : W!ManualLog(u, d, h) = ManualLog(u, d, h)
  /\ \A u, d : W!TimerLog(u, d) = TimerLog(u, d)
BY DEF W!CanApproveLog, CanApproveLog, W!CanRejectLog, CanRejectLog, W!ApprovedLog, ApprovedLog,
       W!RejectedLog, RejectedLog, W!SubmittedLog, SubmittedLog, W!CanMove, CanMove,
       W!ValidTransitions, ValidTransitions, W!Moved, Moved, W!ManualLog, ManualLog,
       W!TimerLog, TimerLog

LEMMA SameHours == \A S : W!SumHours(S) = SumHours(S)
BY DEF W!SumHours, SumHours, W!SumFunction, SumFunction, W!SumFunctionOnSet, SumFunctionOnSet,
       W!FoldFunctionOnSet, FoldFunctionOnSet, W!MapThenFoldSet, MapThenFoldSet

LEMMA SameReads ==
  /\ \A l : W!Exists(l) = Exists(l)
  /\ \A t : W!Linked(t) = Linked(t)
  /\ \A u, d : W!HoursOn(u, d) = HoursOn(u, d)
  /\ \A u, from, to : W!InRange(u, from, to) = InRange(u, from, to)
  /\ \A S : W!Page(S) = Page(S)
<1>1. /\ \A l : W!Exists(l) = Exists(l)
      /\ \A t : W!Linked(t) = Linked(t)
      /\ \A u, from, to : W!InRange(u, from, to) = InRange(u, from, to)
      /\ \A S : W!Page(S) = Page(S)
  BY DEF W!Exists, Exists, W!Linked, Linked, W!InRange, InRange,
         W!Page, Page, W!Cardinality, Cardinality
<1>2. \A u, d : W!HoursOn(u, d) = HoursOn(u, d)
  BY <1>1, SameHours DEF W!HoursOn, HoursOn
<1> QED
  BY <1>1, <1>2

LEMMA PartOfRow ==
  ASSUME NEW row \in SheetRow
  PROVE  /\ row # None /\ Part(row) # None /\ TotalOf(row) = row.total
         /\ Part(row) = [user |-> row.user, start |-> row.start, end |-> row.end,
                         status |-> row.status]
<1>1. row # None /\ TotalOf(row) = row.total
  BY SheetRowAssumption DEF TotalOf
<1>2. Part(row) = [user |-> row.user, start |-> row.start, end |-> row.end, status |-> row.status]
  BY <1>1 DEF Part
<1>3. Part(row) \in Timesheet
  BY <1>2 DEF Timesheet, SheetRow
<1> QED
  BY <1>1, <1>2, <1>3, RowAssumption

LEMMA PartOfMoved ==
  ASSUME NEW row \in SheetRow, NEW o \in SheetStatus
  PROVE  /\ Moved(row, o) \in SheetRow
         /\ Part(Moved(row, o)) = Moved(Part(row), o)
         /\ TotalOf(Moved(row, o)) = row.total
<1> DEFINE e == Moved(row, o)
<1>1. /\ e \in SheetRow /\ e.user = row.user /\ e.start = row.start /\ e.end = row.end
      /\ e.status = o /\ e.total = row.total
  BY DEF Moved, SheetRow
<1> HIDE DEF e
<1>2. /\ Part(e) = [user |-> row.user, start |-> row.start, end |-> row.end, status |-> o]
      /\ TotalOf(e) = row.total
  BY <1>1, PartOfRow
<1>3. Moved(Part(row), o)
        = [user |-> row.user, start |-> row.start, end |-> row.end, status |-> o]
  BY PartOfRow DEF Moved
<1> QED
  BY <1>1, <1>2, <1>3 DEF e

LEMMA PartOfTotalled ==
  ASSUME NEW row \in SheetRow, NEW P, SumHours(P) \in Nat
  PROVE  /\ Totalled(row, P) \in SheetRow
         /\ Part(Totalled(row, P)) = Part(row)
         /\ TotalOf(Totalled(row, P)) = SumHours(P)
<1> DEFINE e == Totalled(row, P)
<1>1. /\ e \in SheetRow /\ e.user = row.user /\ e.start = row.start /\ e.end = row.end
      /\ e.status = row.status /\ e.total = SumHours(P)
  BY DEF Totalled, SheetRow
<1> HIDE DEF e
<1>2. Part(e) = Part(row) /\ TotalOf(e) = SumHours(P)
  BY <1>1, PartOfRow
<1> QED
  BY <1>1, <1>2 DEF e

(* The tables of TimesheetWorkflow, in its own names.                      *)
LEMMA SameSheets ==
  ASSUME LinksOK
  PROVE  /\ \A t \in Sheets : Parts[t] = None <=> sheet[t] = None
         /\ \A t \in Sheets : sheet[t] # None =>
              /\ Parts[t].user = sheet[t].user /\ Parts[t].start = sheet[t].start
              /\ Parts[t].status = sheet[t].status
         /\ \A u, d : W!SheetsOf(u, d) = SheetsOf(u, d)
<1>1. ASSUME NEW t \in Sheets, sheet[t] # None
      PROVE  /\ Parts[t] # None
             /\ Parts[t].user = sheet[t].user /\ Parts[t].start = sheet[t].start
             /\ Parts[t].status = sheet[t].status
  BY <1>1, PartOfRow DEF LinksOK, Parts
<1>2. \A t \in Sheets : sheet[t] = None => Parts[t] = None
  BY DEF Parts, Part
<1>3. \A u, d : W!SheetsOf(u, d)
        = {t \in Sheets : Parts[t] # None /\ Parts[t].user = u /\ Parts[t].start = d}
  BY DEF W!SheetsOf, Parts, Part
<1> HIDE DEF Parts
<1>4. \A u, d : W!SheetsOf(u, d) = SheetsOf(u, d)
  BY <1>1, <1>2, <1>3 DEF SheetsOf
<1> QED
  BY <1>1, <1>2, <1>4
-----------------------------------------------------------------------------
(* Its actions, on the tables of this module.                              *)

LEMMA ActsOnLog ==
  ASSUME NEW l \in Logs, NEW o \in LogOps, Exists(l), NEW e \in Results(o, log[l]),
         log' = [log EXCEPT ![l] = e], UNCHANGED <<sheet, seen, lost>>,
         Owed' = IF o = "approve_log" THEN Owed \cup {l} ELSE Owed
  PROVE  W!LogStep(l)
<1>1. W!Exists(l)
  BY SameReads
<1>2. o # "approve_log" => W!Rewrite(l, e)
  BY DEF W!Rewrite
<1>3. CASE o = "pause"
  <2>1. CanPause(log[l])
    BY <1>3 DEF Results
  <2>2. PICK s \in Segments(log[l]) :
          \E h \in RoundedHours(log[l].seconds + s) : e = Paused(log[l], s, h)
    BY <1>3, <2>1 DEF Results
  <2>3. W!PauseTimer(l)
    BY <1>1, <1>2, <1>3, <2>1, <2>2, SameMethods DEF W!PauseTimer
  <2> QED
    BY <2>3 DEF W!LogStep
<1>4. CASE o = "stop"
  <2>1. CanStop(log[l])
    BY <1>4 DEF Results
  <2>2. PICK s \in Segments(log[l]) :
          \E h \in RoundedHours(log[l].seconds + s) : e = Stopped(log[l], s, h)
    BY <1>4, <2>1 DEF Results
  <2>3. W!StopTimer(l)
    BY <1>1, <1>2, <1>4, <2>1, <2>2, SameMethods DEF W!StopTimer
  <2> QED
    BY <2>3 DEF W!LogStep
<1>5. CASE o = "resume"
  <2>1. CanResume(log[l]) /\ e = Resumed(log[l])
    BY <1>5 DEF Results
  <2>2. W!ResumeTimer(l)
    BY <1>1, <1>2, <1>5, <2>1, SameMethods DEF W!ResumeTimer
  <2> QED
    BY <2>2 DEF W!LogStep
<1>6. CASE o = "update"
  <2>1. PICK h \in EditedHours(log[l]) : e = HoursUpdated(log[l], h)
    BY <1>6 DEF Results
  <2>2. W!UpdateTimeLog(l)
    BY <1>1, <1>2, <1>6, <2>1, SameMethods DEF W!UpdateTimeLog
  <2> QED
    BY <2>2 DEF W!LogStep
<1>7. CASE o = "approve_log"
  <2>1. CanApproveLog(log[l]) /\ e = ApprovedLog(log[l])
    BY <1>7 DEF Results
  <2>2. W!ManagerApprove(l)
    BY <1>1, <1>7, <2>1, SameDecisions DEF W!ManagerApprove
  <2> QED
    BY <2>2 DEF W!LogStep
<1>8. CASE o = "reject_log"
  <2>1. CanRejectLog(log[l]) /\ e = RejectedLog(log[l])
    BY <1>8 DEF Results
  <2>2. W!ManagerReject(l)
    BY <1>1, <1>2, <1>8, <2>1, SameDecisions DEF W!ManagerReject
  <2> QED
    BY <2>2 DEF W!LogStep
<1> QED
  BY <1>3, <1>4, <1>5, <1>6, <1>7, <1>8 DEF LogOps

LEMMA RecordsLog ==
  ASSUME NEW l \in Logs, ~Exists(l), NEW row, NewLog(row), log' = [log EXCEPT ![l] = row],
         UNCHANGED <<sheet, seen, lost>>, Owed' = Owed
  PROVE  W!LogStep(l)
<1>1. PICK u \in Users, d \in Days :
        \/ row = TimerLog(u, d)
        \/ \E h \in ValidHours : HoursOn(u, d) + h <= DayCap /\ row = ManualLog(u, d, h)
  BY DEF NewLog
<1>2. W!Insert(l, row)
  BY SameReads DEF W!Insert
<1>3. row = TimerLog(u, d) => W!StartTimer(l, u, d)
  BY <1>2, SameDecisions DEF W!StartTimer
<1>4. ASSUME NEW h \in ValidHours, HoursOn(u, d) + h <= DayCap, row = ManualLog(u, d, h)
      PROVE  W!CreateTimeLog(l, u, d)
  BY <1>2, <1>4, SameReads, SameMethods, SameDecisions DEF W!CreateTimeLog
<1> QED
  BY <1>1, <1>3, <1>4 DEF W!LogStep

LEMMA MovesSheet ==
  ASSUME LinksOK, NEW t \in Sheets, NEW row, sheet' = [sheet EXCEPT ![t] = row]
  PROVE  Parts' = [Parts EXCEPT ![t] = Part(row)] /\ Totals' = [Totals EXCEPT ![t] = TotalOf(row)]
BY DEF LinksOK, Parts, Totals

LEMMA SubmitsSheet ==
  ASSUME Inv, LinksOK, NEW t \in Sheets, NEW u \in Users, NEW k \in Weeks, Finds(t, u, k[1]),
         NEW P \in Page(InRange(u, k[1], k[2])),
         sheet' = [sheet EXCEPT ![t] = Totalled(Submittable(t, u, k[1], k[2]), P)],
         log' = [l \in Logs |-> IF l \in P THEN SubmittedLog(log[l], t) ELSE log[l]],
         UNCHANGED <<seen, lost>>, Owed' = Owed
  PROVE  W!SheetStep(t)
<1> DEFINE base == Submittable(t, u, k[1], k[2])
<1>1. k[1] \in Days /\ k[2] \in Days
  BY WeeksAssumption
<1>2. /\ base \in SheetRow
      /\ Part(base) = W!SubmittedSheet(t, u, k[1], k[2])
  <2>1. CASE sheet[t] = None
    <3>1. base = NewSheet(u, k[1], k[2]) /\ Parts[t] = None
      BY <2>1 DEF Submittable, Parts, Part
    <3>2. base \in SheetRow
      BY <1>1, <3>1 DEF NewSheet, SheetRow, SheetStatus
    <3>3. Part(base) = [user |-> u, start |-> k[1], end |-> k[2], status |-> "submitted"]
      BY <3>1, <3>2, PartOfRow DEF NewSheet
    <3> QED
      BY <2>1, <3>2, <3>3 DEF W!SubmittedSheet
  <2>2. CASE sheet[t] # None
    <3>1. base = Moved(sheet[t], "submitted") /\ sheet[t] \in SheetRow
      BY <2>2, RowTypes DEF Submittable
    <3>2. "submitted" \in SheetStatus
      BY DEF SheetStatus
    <3>3. base \in SheetRow /\ Part(base) = Moved(Part(sheet[t]), "submitted")
      BY <3>1, <3>2, PartOfMoved
    <3>4. Parts[t] = Part(sheet[t]) /\ Parts[t] # None
      BY <3>1, PartOfRow DEF Parts
    <3>5. W!SubmittedSheet(t, u, k[1], k[2]) = W!Moved(Parts[t], "submitted")
      BY <3>4 DEF W!SubmittedSheet, Parts, Part
    <3> QED
      BY <3>3, <3>4, <3>5, SameDecisions
  <2> QED
    BY <2>1, <2>2
<1>3. SumHours(P) \in Nat
  <2>1. P \in SUBSET Logs /\ \A l \in P : Exists(l)
    BY DEF Page, InRange
  <2> QED
    BY <2>1, HoursType
<1> HIDE DEF base
<1>4. /\ Part(Totalled(base, P)) = W!SubmittedSheet(t, u, k[1], k[2])
      /\ TotalOf(Totalled(base, P)) = W!SumHours(P)
  BY <1>2, <1>3, PartOfTotalled, SameHours
<1>5. /\ Parts' = [Parts EXCEPT ![t] = W!SubmittedSheet(t, u, k[1], k[2])]
      /\ Totals' = [Totals EXCEPT ![t] = W!SumHours(P)]
  BY <1>4, MovesSheet DEF base
<1>6. /\ \A s, q \in W!SheetsOf(u, k[1]) : s = q
      /\ \A s \in W!SheetsOf(u, k[1]) : W!CanSubmit(Parts[s])
      /\ IF W!SheetsOf(u, k[1]) = {} THEN Parts[t] = None ELSE t \in W!SheetsOf(u, k[1])
  BY SameSheets DEF Finds, CanSubmit, W!CanSubmit, SheetsOf
<1>7. P \in W!Page(W!InRange(u, k[1], k[2]))
  BY SameReads
<1>8. log' = [l \in Logs |-> IF l \in P THEN W!SubmittedLog(log[l], t) ELSE log[l]]
  BY SameDecisions
<1>9. W!SubmitTimesheet(t, u, k[1], k[2])
  BY <1>5, <1>6, <1>7, <1>8 DEF W!SubmitTimesheet, W!news, Parts, Part, Totals, TotalOf
<1> QED
  BY <1>9 DEF W!SheetStep

LEMMA DecidesSheet ==
  ASSUME Inv, LinksOK, NEW t \in Sheets, NEW o \in SheetOps, sheet[t] # None,
         CanMove(sheet[t].status, Verdict(o)),
         sheet' = [sheet EXCEPT ![t] = Moved(sheet[t], Verdict(o))],
         DOMAIN log' = Logs, log' = [l \in Logs |-> log'[l]],
         \A l \in Logs \ Linked(t) : log'[l] = log[l],
         \A l \in Linked(t) : log'[l] \in Outcome(o, t, log[l]),
         UNCHANGED <<seen, lost>>,
         Owed' = IF o = "approve_sheet" THEN Owed \cup Linked(t) ELSE Owed
  PROVE  W!SheetStep(t)
<1>1. sheet[t] \in SheetRow /\ Verdict(o) \in SheetStatus
  BY RowTypes DEF Verdict, SheetStatus
<1>2. /\ Part(Moved(sheet[t], Verdict(o))) = Moved(Part(sheet[t]), Verdict(o))
      /\ TotalOf(Moved(sheet[t], Verdict(o))) = sheet[t].total
  BY <1>1, PartOfMoved
<1>3. /\ Parts[t] = Part(sheet[t]) /\ Parts[t] # None /\ Parts[t].status = sheet[t].status
      /\ Totals[t] = sheet[t].total
  BY <1>1, PartOfRow DEF Parts, Totals
<1>4. Parts' = [Parts EXCEPT ![t] = W!Moved(Parts[t], Verdict(o))] /\ Totals' = Totals
  <2>1. /\ Parts' = [Parts EXCEPT ![t] = Moved(Parts[t], Verdict(o))]
        /\ Totals' = [Totals EXCEPT ![t] = Totals[t]]
    <3> DEFINE row == Moved(sheet[t], Verdict(o))
    <3>1. sheet' = [sheet EXCEPT ![t] = row]
      OBVIOUS
    <3>2. Part(row) = Moved(Parts[t], Verdict(o)) /\ TotalOf(row) = Totals[t]
      BY <1>2, <1>3
    <3> HIDE DEF row
    <3>3. /\ Parts' = [Parts EXCEPT ![t] = Part(row)]
          /\ Totals' = [Totals EXCEPT ![t] = TotalOf(row)]
      BY <3>1, MovesSheet
    <3> QED
      BY <3>2, <3>3
  <2>2. Totals' = Totals
    BY <2>1 DEF Totals
  <2> QED
    BY <2>1, <2>2, SameDecisions
<1>5. W!CanMove(Parts[t].status, Verdict(o)) /\ Linked(t) = W!Linked(t)
  BY <1>3, SameDecisions, SameReads
<1>6. CASE o = "approve_sheet"
  <2>1. \A l \in Linked(t) : CanApproveLog(log[l]) /\ log'[l] = ApprovedLog(log[l])
    BY <1>6 DEF Outcome
  <2>2. log' = [l \in Logs |-> IF l \in Linked(t) THEN ApprovedLog(log[l]) ELSE log[l]]
    BY <2>1
  <2>3. /\ \A l \in W!Linked(t) : W!CanApproveLog(log[l])
        /\ log' = [l \in Logs |-> IF l \in W!Linked(t) THEN W!ApprovedLog(log[l]) ELSE log[l]]
        /\ Owed' = Owed \cup W!Linked(t)
    BY <1>5, <1>6, <2>1, <2>2, SameDecisions
  <2>4. W!ApproveTimesheet(t)
    BY <1>3, <1>4, <1>5, <1>6, <2>3
    DEF W!ApproveTimesheet, Verdict, Parts, Part, Totals, TotalOf
  <2> QED
    BY <2>4 DEF W!SheetStep
<1>7. CASE o = "reject_sheet"
  <2>1. \A l \in Linked(t) : CanRejectLog(log[l]) /\ log'[l] = RejectedLog(log[l])
    BY <1>7 DEF Outcome
  <2>2. log' = [l \in Logs |-> IF l \in Linked(t) THEN RejectedLog(log[l]) ELSE log[l]]
    BY <2>1
  <2>3. /\ \A l \in W!Linked(t) : W!CanRejectLog(log[l])
        /\ log' = [l \in Logs |-> IF l \in W!Linked(t) THEN W!RejectedLog(log[l]) ELSE log[l]]
        /\ Owed' = Owed
    BY <1>5, <1>7, <2>1, <2>2, SameDecisions
  <2>4. W!RejectTimesheet(t)
    BY <1>3, <1>4, <1>5, <1>7, <2>3
    DEF W!RejectTimesheet, Verdict, Parts, Part, Totals, TotalOf
  <2> QED
    BY <2>4 DEF W!SheetStep
<1> QED
  BY <1>6, <1>7 DEF SheetOps
-----------------------------------------------------------------------------
(* The commit is the transaction; every other statement changes nothing.   *)

LEMMA OwedByOne ==
  ASSUME NEW w \in Workers, OthersIdle(w)
  PROVE  Owed = IF At(w, "publish") THEN req[w].news ELSE {}
<1>1. \A v \in Workers : At(v, "publish") => v = w
  BY DEF OthersIdle, At
<1>2. CASE At(w, "publish")
  <2>1. {v \in Workers : At(v, "publish")} = {w}
    BY <1>1, <1>2
  <2>2. Owed = UNION {req[v].news : v \in {w}}
    BY <2>1 DEF Owed
  <2>3. UNION {req[v].news : v \in {w}} = req[w].news
    OBVIOUS
  <2> QED
    BY <1>2, <2>2, <2>3
<1>3. CASE ~At(w, "publish")
  <2>1. {v \in Workers : At(v, "publish")} = {}
    BY <1>1, <1>3
  <2> QED
    BY <1>3, <2>1 DEF Owed
<1> QED
  BY <1>2, <1>3

LEMMA OwedByOneNext ==
  ASSUME NEW w \in Workers, OthersIdle(w)'
  PROVE  Owed' = IF req'[w] # Idle /\ req'[w].at = "publish" THEN req'[w].news ELSE {}
<1>1. \A v \in Workers : At(v, "publish")' => v = w
  BY DEF OthersIdle, At
<1>2. CASE At(w, "publish")'
  <2>1. {v \in Workers : At(v, "publish")'} = {w}
    BY <1>1, <1>2
  <2>2. Owed' = UNION {req'[v].news : v \in {w}}
    BY <2>1 DEF Owed
  <2>3. UNION {req'[v].news : v \in {w}} = req'[w].news
    OBVIOUS
  <2> QED
    BY <1>2, <2>2, <2>3 DEF At
<1>3. CASE ~At(w, "publish")'
  <2>1. {v \in Workers : At(v, "publish")'} = {}
    BY <1>1, <1>3
  <2> QED
    BY <1>3, <2>1 DEF Owed, At
<1> QED
  BY <1>2, <1>3

LEMMA Stutters ==
  ASSUME UNCHANGED <<log, sheet, seen, lost>>, Owed' = Owed
  PROVE  UNCHANGED W!vars
BY DEF W!vars

LEMMA QuietStutters ==
  ASSUME NEW w \in Workers, OthersIdle(w), OthersIdle(w)', ~At(w, "publish"),
         req'[w] = Idle \/ req'[w].at # "publish", UNCHANGED <<log, sheet, seen, lost>>
  PROVE  UNCHANGED W!vars
BY OwedByOne, OwedByOneNext, Stutters

LEMMA CommitAlone ==
  ASSUME Sound, NEW w \in Workers, Commit(w)
  PROVE  AloneOK' /\ W!Next
<1> DEFINE r == req[w]
           m == mine[w]
           q == IF r.news = {} THEN Idle ELSE [r EXCEPT !.at = "publish"]
<1>1. /\ OthersIdle(w) /\ r.at = "next" /\ r # Idle /\ Shaped(r) /\ Intact(r, m)
      /\ DOMAIN r.todo = {} /\ DOMAIN m \subseteq Logs \cup Sheets
  <2>1. At(w, "next") /\ r.todo = Empty
    BY DEF Commit
  <2> QED
    BY <2>1, Running, Links DEF Sound, Empty, RowsBacked
<1>2. Becomes(w, q) /\ Has(w, Empty) /\ UNCHANGED <<seen, lost>>
  BY DEF Commit, Becomes, Has, Sound, Inv, RequestsOK
<1>3. /\ r.news = {} => q = Idle
      /\ r.news # {} => q.at = "publish" /\ q.news = r.news /\ DOMAIN q = Fields
  BY <1>1 DEF Shaped, Fields
<1> HIDE DEF q
<1>4. AloneOK' /\ OthersIdle(w)' /\ req'[w] = q
  BY <1>1, <1>2, <1>3, AloneGoesOn DEF Sound
<1>5. Owed = {} /\ Owed' = r.news
  <2>1. Owed = {}
    BY <1>1, OwedByOne DEF At
  <2>2. r.news # {} => q # Idle
    BY <1>3 DEF Fields, Idle
  <2> QED
    BY <1>3, <1>4, <2>1, <2>2, OwedByOneNext
<1>6. /\ Touched(r, m) = DOMAIN m
      /\ \A x : Made(r, m, x) = m[x]
  BY <1>1 DEF Touched, Made
<1>7. ASSUME NEW B, Batch(r, m, B)
      PROVE  DOMAIN m = {r.root} \cup B /\ \A l \in B : m[l] \in Outcome(r.op, r.root, log[l])
  BY <1>1, <1>6, <1>7 DEF Batch
<1>8. /\ log' = [l \in Logs |-> IF l \in DOMAIN m THEN m[l] ELSE log[l]]
      /\ sheet' = [t \in Sheets |-> IF t \in DOMAIN m THEN m[t] ELSE sheet[t]]
  BY DEF Commit
<1>9. DOMAIN log = Logs /\ log = [l \in Logs |-> log[l]]
      /\ DOMAIN sheet = Sheets /\ sheet = [t \in Sheets |-> sheet[t]]
  BY DEF Sound, Inv, LogsOK, LinksOK
<1>10. r.root \in Logs /\ DOMAIN m = {r.root} =>
         log' = [log EXCEPT ![r.root] = m[r.root]] /\ sheet' = sheet
  BY <1>8, <1>9, IdsAssumption
<1>11. r.root \in Sheets /\ r.root \in DOMAIN m /\ DOMAIN m \cap Sheets = {r.root} =>
         sheet' = [sheet EXCEPT ![r.root] = m[r.root]]
  BY <1>8, <1>9
<1> HIDE DEF r, m
<1>12. CASE MakesLog(r, m)
  <2>1. DOMAIN m = {r.root}
    BY <1>7, <1>12 DEF MakesLog
  <2>2. W!LogStep(r.root)
    BY <1>2, <1>5, <1>6, <1>10, <1>12, <2>1, ActsOnLog DEF MakesLog
  <2> QED
    BY <1>4, <1>12, <2>2 DEF MakesLog, W!Next
<1>13. CASE InsertsLog(r, m)
  <2>1. DOMAIN m = {r.root}
    BY <1>7, <1>13 DEF InsertsLog
  <2>2. W!LogStep(r.root)
    BY <1>2, <1>5, <1>6, <1>10, <1>13, <2>1, RecordsLog DEF InsertsLog
  <2> QED
    BY <1>4, <1>13, <2>2 DEF InsertsLog, W!Next
<1>14. CASE Collects(r, m)
  BY <1>1, <1>14 DEF Collects
<1>15. CASE LinksLogs(r, m)
  <2>1. PICK u \in Users, k \in Weeks : \E P \in Page(InRange(u, k[1], k[2])) :
          /\ Finds(r.root, u, k[1]) /\ Batch(r, m, P)
          /\ Made(r, m, r.root) = Totalled(Submittable(r.root, u, k[1], k[2]), P)
    BY <1>15 DEF LinksLogs
  <2>2. PICK P \in Page(InRange(u, k[1], k[2])) :
          /\ Finds(r.root, u, k[1]) /\ Batch(r, m, P)
          /\ Made(r, m, r.root) = Totalled(Submittable(r.root, u, k[1], k[2]), P)
    BY <2>1
  <2>3. P \subseteq Logs
    BY DEF Page, InRange
  <2>4. r.root \in Sheets /\ r.op = "submit" /\ r.news = {}
    BY <1>15 DEF LinksLogs
  <2>5. DOMAIN m = {r.root} \cup P /\ \A l \in P : m[l] = SubmittedLog(log[l], r.root)
    BY <1>7, <2>2, <2>4 DEF Outcome
  <2>6. sheet' = [sheet EXCEPT ![r.root] = Totalled(Submittable(r.root, u, k[1], k[2]), P)]
    BY <1>6, <1>11, <2>2, <2>3, <2>4, <2>5, IdsAssumption
  <2>7. log' = [l \in Logs |-> IF l \in P THEN SubmittedLog(log[l], r.root) ELSE log[l]]
    BY <1>8, <2>4, <2>5, IdsAssumption
  <2>8. PICK t \in Sheets : t = r.root
    BY <2>4
  <2>9. W!SheetStep(t)
    BY <1>2, <1>5, <2>2, <2>4, <2>6, <2>7, <2>8, SubmitsSheet DEF Sound
  <2> QED
    BY <1>4, <2>9 DEF W!Next
<1>16. CASE SettlesLogs(r, m)
  <2>1. Reached(r) = Linked(r.root) /\ Linked(r.root) \subseteq Logs
    BY <1>1 DEF Reached, Unlisted, Linked
  <2>2. /\ r.op \in SheetOps /\ r.root \in Sheets /\ sheet[r.root] # None
        /\ CanMove(sheet[r.root].status, Verdict(r.op))
        /\ m[r.root] = Moved(sheet[r.root], Verdict(r.op))
        /\ Batch(r, m, Linked(r.root))
        /\ r.news = IF r.op = "approve_sheet" THEN Linked(r.root) ELSE {}
    BY <1>6, <1>16, <2>1 DEF SettlesLogs
  <2>3. /\ DOMAIN m = {r.root} \cup Linked(r.root)
        /\ \A l \in Linked(r.root) : m[l] \in Outcome(r.op, r.root, log[l])
    BY <1>7, <2>2
  <2>4. sheet' = [sheet EXCEPT ![r.root] = Moved(sheet[r.root], Verdict(r.op))]
    BY <1>11, <2>1, <2>2, <2>3, IdsAssumption
  <2>5. /\ DOMAIN log' = Logs /\ log' = [l \in Logs |-> log'[l]]
        /\ \A l \in Logs \ Linked(r.root) : log'[l] = log[l]
        /\ \A l \in Linked(r.root) : log'[l] \in Outcome(r.op, r.root, log[l])
    BY <1>8, <2>1, <2>2, <2>3, IdsAssumption
  <2>6. PICK t \in Sheets : t = r.root
    BY <2>2
  <2>7. W!SheetStep(t)
    BY <1>2, <1>5, <2>2, <2>4, <2>5, <2>6, DecidesSheet DEF Sound
  <2> QED
    BY <1>4, <2>7 DEF W!Next
<1> QED
  BY <1>1, <1>12, <1>13, <1>14, <1>15, <1>16 DEF Intact

LEMMA PublishAlone ==
  ASSUME Sound, NEW w \in Workers, PublishApproval(w) \/ PublishFails(w)
  PROVE  AloneOK' /\ W!Next
<1>1. /\ At(w, "publish") /\ OthersIdle(w) /\ req[w].at = "publish" /\ Shaped(req[w])
  BY Running DEF PublishApproval, PublishFails
<1>2. PICK l \in req[w].news :
        /\ Announced(w, l) /\ UNCHANGED <<log, sheet, mine>>
        /\ \/ seen' = seen \cup {l} /\ lost' = lost
           \/ lost' = lost \cup {l} /\ seen' = seen
  BY DEF PublishApproval, PublishFails
<1> DEFINE left == req[w].news \ {l}
           r == IF left = {} THEN Idle ELSE [req[w] EXCEPT !.news = left]
<1>3. Becomes(w, r) /\ Has(w, mine[w])
  BY <1>2 DEF Announced, Becomes, Has, Sound, Inv, RequestsOK
<1>4. /\ left = {} => r = Idle
      /\ left # {} => r.at = "publish" /\ r.news = left /\ DOMAIN r = Fields
  BY <1>1 DEF Shaped, Fields
<1> HIDE DEF r
<1>5. AloneOK' /\ OthersIdle(w)' /\ req'[w] = r
  BY <1>1, <1>3, <1>4, AloneGoesOn DEF Sound
<1>6. Owed = req[w].news /\ Owed' = Owed \ {l}
  <2>1. left # {} => r # Idle
    BY <1>4 DEF Fields, Idle
  <2> QED
    BY <1>1, <1>4, <1>5, <2>1, OwedByOne, OwedByOneNext
<1>7. W!PublishApproval(l) \/ W!PublishFails(l)
  BY <1>2, <1>6 DEF W!PublishApproval, W!PublishFails
<1>8. l \in Logs
  BY <1>1 DEF Shaped
<1> QED
  BY <1>5, <1>7, <1>8 DEF W!Next, W!PublishStep

LEMMA RollbackAlone ==
  ASSUME Sound, NEW w \in Workers, req[w] # Idle, ~At(w, "publish"), Rollback(w)
  PROVE  AloneOK' /\ UNCHANGED W!vars
<1>1. OthersIdle(w) /\ Becomes(w, Idle) /\ Has(w, Empty) /\ UNCHANGED <<log, sheet, seen, lost>>
  BY DEF Rollback, Becomes, Has, Sound, AloneOK
<1>2. AloneOK' /\ OthersIdle(w)' /\ req'[w] = Idle
  BY <1>1, AloneGoesOn DEF Sound
<1> QED
  BY <1>1, <1>2, QuietStutters

LEMMA StepAlone ==
  ASSUME Sound, NEW w \in Workers, Step(w)
  PROVE  AloneOK' /\ (W!Next \/ UNCHANGED W!vars)
<1>1. CASE Collect(w)
  <2>1. ~At(w, "publish") /\ UNCHANGED <<log, sheet, seen, lost>>
    BY <1>1 DEF Collect, At
  <2> QED
    BY <1>1, <2>1, CollectAlone, QuietStutters
<1>2. CASE Merge(w)
  <2>1. ~At(w, "publish") /\ UNCHANGED <<log, sheet, seen, lost>>
    BY <1>2 DEF Merge, At
  <2> QED
    BY <1>2, <2>1, MergeAlone, QuietStutters
<1>3. CASE Write(w)
  <2>1. ~At(w, "publish") /\ UNCHANGED <<log, sheet, seen, lost>>
    BY <1>3 DEF Write, At
  <2> QED
    BY <1>3, <2>1, WriteAlone, QuietStutters
<1>4. CASE ListLinked(w)
  <2>1. ~At(w, "publish") /\ UNCHANGED <<log, sheet, seen, lost>>
    BY <1>4 DEF ListLinked, At
  <2> QED
    BY <1>4, <2>1, ListLinkedAlone, QuietStutters
<1>5. CASE MergeNext(w)
  <2>1. ~At(w, "publish") /\ UNCHANGED <<log, sheet, seen, lost>>
    BY <1>5 DEF MergeNext, At
  <2> QED
    BY <1>5, <2>1, MergeNextAlone, QuietStutters
<1>6. CASE CascadeRaises(w)
  BY <1>6, RollbackAlone DEF CascadeRaises, At
<1> QED
  BY <1>1, <1>2, <1>3, <1>4, <1>5, <1>6, CommitAlone, PublishAlone DEF Step

LEMMA ServerCrashAlone ==
  ASSUME Sound, ServerCrash
  PROVE  AloneOK' /\ (W!Next \/ UNCHANGED W!vars)
<1>1. \A w \in Workers : req'[w] = Idle
  BY DEF ServerCrash
<1>2. AloneOK'
  BY <1>1 DEF AloneOK
<1>3. Owed' = {}
  <2>1. {w \in Workers : At(w, "publish")'} = {}
    BY <1>1 DEF At
  <2> QED
    BY <2>1 DEF Owed
<1>4. UNCHANGED <<log, sheet, seen>> /\ lost' = lost \cup Owed
  BY DEF ServerCrash
<1>5. CASE Owed = {}
  BY <1>2, <1>3, <1>4, <1>5, Stutters
<1>6. CASE Owed # {}
  <2>1. W!ServerCrash
    BY <1>3, <1>4, <1>6 DEF W!ServerCrash
  <2> QED
    BY <1>2, <2>1 DEF W!Next
<1> QED
  BY <1>5, <1>6

LEMMA NextAlone ==
  ASSUME OneAtATime
  PROVE  Sound /\ [Next]_vars => AloneOK' /\ [W!Next]_(W!vars)
<1> SUFFICES ASSUME Sound, [Next]_vars PROVE AloneOK' /\ (W!Next \/ UNCHANGED W!vars)
  OBVIOUS
<1>1. ASSUME NEW w \in Workers, Arrive(w) PROVE AloneOK' /\ UNCHANGED W!vars
  <2>1. ~At(w, "publish")
    BY <1>1, ArriveAlone DEF At
  <2> QED
    BY <1>1, <2>1, ArriveAlone, QuietStutters
<1>2. ASSUME NEW w \in Workers, DeadlockVictim(w) PROVE AloneOK' /\ UNCHANGED W!vars
  <2>1. req[w] # Idle /\ ~At(w, "publish")
    BY <1>2 DEF DeadlockVictim, OnCycle, Blocks, At
  <2> QED
    BY <1>2, <2>1, RollbackAlone DEF DeadlockVictim
<1>3. CASE UNCHANGED vars
  <2>1. Owed' = Owed
    BY <1>3 DEF vars, Owed, At
  <2>2. \A w \in Workers : Intact(req[w], mine[w]) => Intact(req[w], mine[w])'
    BY <1>3, StaysIntact DEF vars
  <2>3. AloneOK'
    BY <1>3, <2>2 DEF vars, Sound, AloneOK, OthersIdle
  <2> QED
    BY <1>3, <2>1, <2>3, Stutters DEF vars
<1> QED
  BY <1>1, <1>2, <1>3, StepAlone, ServerCrashAlone DEF Next

(* Where requests come one at a time, the statements they are made of do   *)
(* what TimesheetWorkflow says their transactions do: a commit is the      *)
(* transaction, a publication or a crash is its own step, and every other  *)
(* statement, rollbacks included, changes nothing that it knows            *)
(* (`async with self._uow` ... `commit()` in every use case).              *)
THEOREM SequentialHolds ==
  ASSUME OneAtATime
  PROVE  Spec => Sequential
<1>1. Init => W!Init
  BY DEF Init, W!Init, Owed, At
<1>2. Sound /\ [Next]_vars => AloneOK' /\ [W!Next]_(W!vars)
  BY NextAlone
<1>3. Sound /\ [Next]_vars => Sound'
  BY <1>2, NextInv, NextLinks DEF Sound
<1>4. Init => Sound
  BY InitInv, InitLinks, InitAlone DEF Sound
<1> QED
  BY <1>1, <1>2, <1>3, <1>4, PTL DEF Spec, Sequential, W!Spec
-----------------------------------------------------------------------------
(* Row locks.                                                              *)

Recording == {"create", "start", "submit"}

(* The clients that this is about.                                         *)
RecordingAlone == Ops \cap Recording \subseteq Solo

(* The locks of a request on one log, taken by its only UPDATE.            *)
LogLock(r, m) ==
  /\ r.op \in LogOps /\ r.at \in {"merge", "write", "next", "publish"}
  /\ r.id \in Logs /\ DOMAIN r.todo = {}
  /\ r.at # "next" => DOMAIN m = {}
  /\ r.at = "merge" => r.value.sheet = log[r.id].sheet
  /\ r.at = "write" /\ "sheet" \in DOMAIN r.value => r.value.sheet = log[r.id].sheet
  /\ \A l \in DOMAIN m \cap Logs : Exists(l) /\ m[l].sheet = log[l].sheet

(* Those of a cascade: its timesheet first, then logs linked to it.        *)
BeforeCascade(r) == r.at \in {"merge", "publish"} \/ (r.at = "write" /\ r.id = r.root)
LinkedTo(t, l) == Exists(l) /\ log[l].sheet = t
CascadeLock(r, m) ==
  /\ r.op \in SheetOps /\ r.at # "collect"
  /\ r.at = "merge" => r.id = r.root
  /\ BeforeCascade(r) => DOMAIN m = {}
  /\ ~BeforeCascade(r) => r.root \in DOMAIN m
  /\ r.at = "write" /\ r.id # r.root =>
       /\ r.id \in Logs /\ LinkedTo(r.root, r.id)
       /\ "sheet" \in DOMAIN r.value => r.value.sheet = r.root
  /\ \A l \in DOMAIN r.todo : l \in Logs /\ LinkedTo(r.root, l) /\ r.todo[l].sheet = r.root
  /\ \A l \in DOMAIN m \cap Logs : LinkedTo(r.root, l) /\ m[l].sheet = r.root

Alone(r) == r.op \in Recording
Locks(r, m) ==
  \/ r = Idle /\ DOMAIN m = {}
  \/ r # Idle /\ Alone(r) /\ r.op \in Solo /\ r.at # "publish" /\ r.news = {}
  \/ r # Idle /\ ~Alone(r) /\ (LogLock(r, m) \/ CascadeLock(r, m))

LocksOK ==
  /\ \A w \in Workers : Locks(req[w], mine[w])
  /\ \A w \in Workers : req[w] # Idle /\ Alone(req[w]) => OthersIdle(w)
  /\ \A v, w \in Workers : v # w => DOMAIN mine[v] \cap DOMAIN mine[w] = {}

LEMMA OpsApart ==
  /\ LogOps \cap SheetOps = {} /\ LogOps \cap Recording = {} /\ SheetOps \cap Recording = {}
  /\ Operations = LogOps \cup SheetOps \cup Recording
  /\ Idle.op \notin Operations
BY DEF LogOps, SheetOps, Recording, Operations, Idle

(* A cycle needs two cascades that wait for logs of one timesheet, which   *)
(* both of them have locked.                                               *)
LEMMA NoCycle == Inv /\ LocksOK => NeverDeadlocked
<1> SUFFICES ASSUME Inv, LocksOK, NEW w \in Workers, OnCycle(w) PROVE FALSE
  BY DEF NeverDeadlocked
<1>1. PICK C \in SUBSET Workers :
        /\ w \in C
        /\ \A x \in C : (\E v \in C : Blocks(v, x)) /\ (\E v \in C : Blocks(x, v))
  BY DEF OnCycle
<1>2. ASSUME NEW x \in C
      PROVE  /\ At(x, "write") /\ CascadeLock(req[x], mine[x])
             /\ req[x].id # req[x].root /\ req[x].root \in DOMAIN mine[x]
  <2>1. PICK v \in C : Blocks(x, v)
    BY <1>1
  <2>2. PICK u \in C : Blocks(u, x)
    BY <1>1
  <2>3. /\ x # v /\ req[v] # Idle /\ DOMAIN mine[x] # {}
        /\ At(x, "write") /\ req[x] # Idle /\ req[x].at = "write"
    BY <2>1, <2>2 DEF Blocks, At
  <2>4. ~Alone(req[x])
    BY <2>3 DEF LocksOK, OthersIdle
  <2>5. LogLock(req[x], mine[x]) \/ CascadeLock(req[x], mine[x])
    BY <2>3, <2>4 DEF LocksOK, Locks
  <2>6. CascadeLock(req[x], mine[x])
    BY <2>3, <2>5 DEF LogLock
  <2> QED
    BY <2>3, <2>6 DEF CascadeLock, BeforeCascade
<1>3. PICK v \in C : Blocks(v, w)
  BY <1>1
<1>4. v # w /\ v \in Workers /\ req[w].id \in DOMAIN mine[v]
  BY <1>1, <1>3 DEF Blocks
<1>5. req[w].id \in Logs /\ log[req[w].id].sheet = req[w].root
  BY <1>1, <1>2 DEF CascadeLock, LinkedTo, At
<1>6. log[req[w].id].sheet = req[v].root
  BY <1>2, <1>4, <1>5 DEF CascadeLock, LinkedTo
<1>7. req[w].root \in DOMAIN mine[w] \cap DOMAIN mine[v]
  BY <1>1, <1>2, <1>5, <1>6
<1> QED
  BY <1>4, <1>7 DEF LocksOK
-----------------------------------------------------------------------------
(* The locks of a request stay in order while links are kept.              *)
LEMMA OthersLock ==
  ASSUME NEW v \in Workers, Locks(req[v], mine[v]), Fits(req[v]),
         req'[v] = req[v], mine'[v] = mine[v],
         \A l \in Logs : Exists(l) => Exists(l)' /\ log'[l].sheet = log[l].sheet
  PROVE  Locks(req[v], mine[v])'
<1>1. CASE req[v] = Idle
  BY <1>1, IdleFits, OpsApart DEF Locks, Alone, LogLock, CascadeLock
<1>2. CASE req[v] # Idle /\ Alone(req[v])
  BY <1>2 DEF Locks, Alone
<1>3. CASE req[v] # Idle /\ ~Alone(req[v]) /\ LogLock(req[v], mine[v])
  <2>1. Copied(req[v])
    BY <1>3 DEF Fits
  <2>2. LogLock(req[v], mine[v])'
    BY <1>3, <2>1 DEF LogLock, Copied
  <2> QED
    BY <1>3, <2>2 DEF Locks, Alone
<1>4. CASE req[v] # Idle /\ ~Alone(req[v]) /\ CascadeLock(req[v], mine[v])
  <2>1. CascadeLock(req[v], mine[v])'
    BY <1>4 DEF CascadeLock, BeforeCascade, LinkedTo
  <2> QED
    BY <1>4, <2>1 DEF Locks, Alone
<1> QED
  BY <1>1, <1>2, <1>3, <1>4 DEF Locks

(* A step that commits nothing: it locks rows that nobody else has locked, *)
(* and begins alone, or beside none that is.                               *)
LEMMA LockMoves ==
  ASSUME Inv, LocksOK, NEW w \in Workers, NEW r, NEW m, Becomes(w, r), Has(w, m), log' = log,
         Locks(r, m), \A v \in Workers \ {w} : DOMAIN mine[v] \cap DOMAIN m = {},
         r # Idle /\ Alone(r) => OthersIdle(w),
         r # Idle => req[w] # Idle \/ \A v \in Workers \ {w} : req[v] # Idle => ~Alone(req[v])
  PROVE  LocksOK'
<1>1. /\ req'[w] = r /\ mine'[w] = m
      /\ \A v \in Workers \ {w} : req'[v] = req[v] /\ mine'[v] = mine[v]
  BY DEF Becomes, Has, Inv, RequestsOK
<1>2. \A l \in Logs : Exists(l) <=> Exists(l)'
  BY DEF Exists
<1>3. ASSUME NEW v \in Workers \ {w} PROVE Locks(req[v], mine[v])'
  BY <1>1, <1>2, OthersLock DEF LocksOK, Inv, RequestsOK
<1>4. Locks(req[w], mine[w])'
  BY <1>1, <1>2 DEF Locks, Alone, LogLock, CascadeLock, BeforeCascade, LinkedTo
<1>5. ASSUME NEW v \in Workers, req'[v] # Idle, Alone(req'[v]), NEW u \in Workers \ {v}
      PROVE  req'[u] = Idle
  <2>1. CASE v = w
    BY <1>1, <1>5, <2>1 DEF OthersIdle
  <2>2. CASE v # w
    <3>1. req[v] # Idle /\ Alone(req[v])
      BY <1>1, <1>5, <2>2 DEF Alone
    <3>2. req[u] = Idle /\ req[w] = Idle
      BY <1>5, <2>2, <3>1 DEF LocksOK, OthersIdle
    <3>3. r = Idle
      BY <2>2, <3>1, <3>2
    <3> QED
      BY <1>1, <1>5, <3>2, <3>3
  <2> QED
    BY <2>1, <2>2
<1>6. ASSUME NEW v \in Workers, NEW u \in Workers, v # u
      PROVE  DOMAIN mine'[v] \cap DOMAIN mine'[u] = {}
  <2>1. CASE v = w
    BY <1>1, <1>6, <2>1
  <2>2. CASE u = w
    BY <1>1, <1>6, <2>2
  <2>3. CASE v # w /\ u # w
    BY <1>1, <1>6, <2>3 DEF LocksOK
  <2> QED
    BY <2>1, <2>2, <2>3
<1> QED
  BY <1>3, <1>4, <1>5, <1>6 DEF LocksOK, OthersIdle, Alone
-----------------------------------------------------------------------------
(* Requests arrive.                                                        *)

LEMMA InitLocks == Init => LocksOK
<1> SUFFICES ASSUME Init PROVE LocksOK
  OBVIOUS
<1>1. \A w \in Workers : req[w] = Idle /\ DOMAIN mine[w] = {}
  BY DEF Init, Empty
<1> QED
  BY <1>1 DEF LocksOK, Locks

(* Who is admitted to work alone is alone, and nobody is let in beside it. *)
LEMMA AdmittedApart ==
  ASSUME RecordingAlone, LocksOK, NEW w \in Workers, NEW o, Admitted(w, o)
  PROVE  /\ req[w] = Idle /\ DOMAIN mine[w] = {}
         /\ o \in Recording => o \in Solo /\ OthersIdle(w)
         /\ \A v \in Workers \ {w} : req[v] # Idle => ~Alone(req[v])
<1>1. req[w] = Idle /\ DOMAIN mine[w] = {}
  BY OpsApart DEF Admitted, LocksOK, Locks
<1>2. o \in Recording => o \in Solo /\ OthersIdle(w)
  BY DEF Admitted, RecordingAlone, OthersIdle
<1>3. \A v \in Workers \ {w} : req[v] # Idle => ~Alone(req[v])
  BY DEF Admitted, LocksOK, Locks
<1> QED
  BY <1>1, <1>2, <1>3

LEMMA BeginLocks ==
  ASSUME RecordingAlone, Inv, LocksOK, NEW w \in Workers, NEW o, Admitted(w, o), NEW r,
         Becomes(w, r), UNCHANGED <<log, mine>>, r.op = o, Locks(r, mine[w])
  PROVE  LocksOK'
BY AdmittedApart, LockMoves DEF Alone, Has, LocksOK

LEMMA LoadLogLocks ==
  ASSUME RecordingAlone, Inv, LocksOK, NEW w \in Workers, NEW o \in LogOps, NEW l \in Logs,
         LoadLog(w, o, l)
  PROVE  LocksOK'
<1>1. PICK e \in Results(o, log[l]) :
        Begin(w, o, l, "merge", e, IF o = "approve_log" THEN {l} ELSE {})
  BY DEF LoadLog
<1> DEFINE owes == IF o = "approve_log" THEN {l} ELSE {}
           r == Begun(o, l, "merge", e, owes)
<1>2. Exists(l) /\ UNCHANGED <<log, mine>>
  BY DEF LoadLog
<1>3. e.sheet = log[l].sheet
  BY <1>2, ApprovedIsAccounted, ResultsType
<1>4. Admitted(w, o) /\ Becomes(w, r)
  BY <1>1 DEF Begin, Becomes, Begun
<1> HIDE DEF owes
<1>5. DOMAIN mine[w] = {}
  BY <1>4, AdmittedApart
<1>6. LogLock(r, mine[w])
  BY <1>3, <1>5 DEF LogLock, Begun, Empty
<1>7. r.op = o
  BY DEF Begun
<1> HIDE DEF r
<1>8. Locks(r, mine[w])
  BY <1>6, <1>7, OpsApart DEF Locks, Alone, Idle
<1> QED
  BY <1>2, <1>4, <1>7, <1>8, BeginLocks

LEMMA LoadSheetLocks ==
  ASSUME RecordingAlone, Inv, LocksOK, NEW w \in Workers, NEW o \in SheetOps,
         NEW t \in Sheets, LoadSheet(w, o, t)
  PROVE  LocksOK'
<1> DEFINE r == Begun(o, t, "merge", Moved(sheet[t], Verdict(o)), {})
<1>1. Admitted(w, o) /\ Becomes(w, r) /\ UNCHANGED <<log, mine>>
  BY DEF LoadSheet, Begin, Becomes, Begun
<1>2. DOMAIN mine[w] = {}
  BY <1>1, AdmittedApart
<1>3. CascadeLock(r, mine[w])
  BY <1>2 DEF CascadeLock, BeforeCascade, Begun, Empty
<1>4. r.op = o
  BY DEF Begun
<1> HIDE DEF r
<1>5. Locks(r, mine[w])
  BY <1>3, <1>4, OpsApart DEF Locks, Alone, Idle
<1> QED
  BY <1>1, <1>4, <1>5, BeginLocks

LEMMA LookupLocks ==
  ASSUME RecordingAlone, Inv, LocksOK, NEW w \in Workers, NEW t \in Sheets, NEW u, NEW from,
         NEW to, Lookup(w, t, u, from, to)
  PROVE  LocksOK'
<1>1. PICK value : Becomes(w, [op |-> "submit", root |-> t, at |-> "collect", id |-> t,
                               value |-> value, todo |-> Empty, to |-> to, news |-> {}])
  BY DEF Lookup, Becomes
<1> DEFINE r == [op |-> "submit", root |-> t, at |-> "collect", id |-> t,
                 value |-> value, todo |-> Empty, to |-> to, news |-> {}]
<1>2. Admitted(w, "submit") /\ UNCHANGED <<log, mine>>
  BY DEF Lookup
<1>3. r.op = "submit" /\ r.at = "collect" /\ r.news = {}
  OBVIOUS
<1> HIDE DEF r
<1>4. Locks(r, mine[w])
  BY <1>2, <1>3, AdmittedApart DEF Locks, Alone, Recording, Idle
<1>5. Becomes(w, r)
  BY <1>1 DEF r
<1> QED
  BY <1>2, <1>3, <1>4, <1>5, BeginLocks

LEMMA InsertLogLocks ==
  ASSUME RecordingAlone, Inv, LocksOK, NEW w \in Workers, NEW o \in {"create", "start"},
         NEW l \in Logs, NEW row, InsertLog(w, o, l, row)
  PROVE  LocksOK'
<1> DEFINE r == Begun(o, l, "next", None, {})
<1>1. /\ Admitted(w, o) /\ Becomes(w, r) /\ Has(w, Only(l, row)) /\ log' = log
  BY DEF InsertLog, Begin, Becomes, Begun, Has
<1>2. r.op = o /\ r.at = "next" /\ r.news = {}
  BY DEF Begun
<1> HIDE DEF r
<1>3. OthersIdle(w) /\ o \in Recording /\ o \in Solo
  BY <1>1, AdmittedApart DEF Recording
<1>4. Locks(r, Only(l, row))
  BY <1>2, <1>3 DEF Locks, Alone, Recording, Idle
<1>5. \A v \in Workers \ {w} : DOMAIN mine[v] = {} /\ req[v] = Idle
  BY <1>3, OpsApart DEF OthersIdle, LocksOK, Locks
<1> QED
  BY <1>1, <1>3, <1>4, <1>5, LockMoves

LEMMA ArriveLocks ==
  ASSUME RecordingAlone, Inv, LocksOK, NEW w \in Workers, Arrive(w)
  PROVE  LocksOK'
BY LoadLogLocks, LoadSheetLocks, LookupLocks, InsertLogLocks DEF Arrive, CreateTimeLog, StartTimer
-----------------------------------------------------------------------------
(* Statements.  A request that works alone has no one to disturb.          *)

LEMMA AloneLocks ==
  ASSUME Inv, LocksOK, NEW w \in Workers, req[w] # Idle, Alone(req[w]), NEW r, NEW m,
         Becomes(w, r), Has(w, m), log' = log,
         r.op = req[w].op, r.at # "publish", r.news = req[w].news
  PROVE  LocksOK'
<1>1. \A v \in Workers \ {w} : DOMAIN mine[v] = {} /\ req[v] = Idle
  BY OpsApart DEF OthersIdle, LocksOK, Locks
<1>2. Locks(r, m)
  BY OpsApart DEF LocksOK, Locks, Alone, Idle
<1> QED
  BY <1>1, <1>2, LockMoves DEF OthersIdle

(* Others lock only what they already have, or what is free.               *)
LEMMA OneOfManyLocks ==
  ASSUME Inv, LocksOK, NEW w \in Workers, req[w] # Idle, ~Alone(req[w]), NEW r, NEW m,
         Becomes(w, r), Has(w, m), log' = log, r # Idle, r.op = req[w].op,
         LogLock(r, m) \/ CascadeLock(r, m),
         \A v \in Workers \ {w} : DOMAIN mine[v] \cap DOMAIN m = {}
  PROVE  LocksOK'
<1>1. Locks(r, m) /\ ~Alone(r)
  BY DEF Locks, Alone
<1> QED
  BY <1>1, LockMoves

LEMMA RollbackLocks ==
  ASSUME Inv, LocksOK, NEW w \in Workers, Rollback(w)
  PROVE  LocksOK'
<1>1. Becomes(w, Idle) /\ Has(w, Empty) /\ log' = log
  BY DEF Rollback, Becomes, Has
<1>2. Locks(Idle, Empty) /\ DOMAIN Empty = {}
  BY DEF Locks, Empty
<1> QED
  BY <1>1, <1>2, LockMoves

LEMMA DirtySheet ==
  ASSUME NEW e, NEW row
  PROVE  "sheet" \in DOMAIN Dirty(e, row) => Dirty(e, row).sheet = e.sheet
BY DirtyColumns

LEMMA PatchedSheet ==
  ASSUME NEW row \in TimeLog, NEW p
  PROVE  Over(p, row).sheet = IF "sheet" \in DOMAIN p THEN p.sheet ELSE row.sheet
BY LogColumns DEF Over, Columns

LEMMA SettledSheet ==
  ASSUME NEW w \in Workers, NEW r \in TimeLog, NEW e \in Settled(w, r), req[w].op \in SheetOps
  PROVE  e.sheet = r.sheet
<1>1. CASE req[w].op = "approve_sheet"
  BY <1>1, Decided DEF Settled
<1>2. CASE req[w].op = "reject_sheet"
  BY <1>2, Decided DEF Settled
<1> QED
  BY <1>1, <1>2 DEF SheetOps

LEMMA CollectLocks ==
  ASSUME Inv, LocksOK, NEW w \in Workers, Collect(w)
  PROVE  LocksOK'
<1>1. Shaped(req[w]) /\ req[w] # Idle /\ req[w].at = "collect"
  BY Busy DEF Inv, Collect
<1>2. Alone(req[w])
  BY <1>1 DEF Shaped, Alone, Recording
<1>3. PICK P \in Page(InRange(req[w].value.user, req[w].value.start, req[w].to)) :
        LET t == req[w].root
            row == [req[w].value EXCEPT !.total = SumHours(P)]
            isNew == sheet[t] = None
        IN
        /\ req' = [req EXCEPT ![w].at = IF isNew THEN "next" ELSE "merge",
                              ![w].value = IF isNew THEN None ELSE row,
                              ![w].todo = [l \in P |-> log[l]]]
        /\ mine' = IF isNew THEN [mine EXCEPT ![w] = Only(t, row)] ELSE mine
  BY DEF Collect
<1> DEFINE isNew == sheet[req[w].root] = None
           row == [req[w].value EXCEPT !.total = SumHours(P)]
           at == IF isNew THEN "next" ELSE "merge"
           value == IF isNew THEN None ELSE row
           todo == [l \in P |-> log[l]]
           r == [req[w] EXCEPT !.at = at, !.value = value, !.todo = todo]
           m == IF isNew THEN Only(req[w].root, row) ELSE mine[w]
<1>4. Becomes(w, r) /\ Has(w, m) /\ log' = log
  BY <1>3 DEF Becomes, Has, Inv, RequestsOK, Collect
<1> HIDE DEF value, row, todo
<1>5. r.op = req[w].op /\ r.at # "publish" /\ r.news = req[w].news
  BY <1>1 DEF Shaped, Fields
<1> HIDE DEF r, m
<1> QED
  BY <1>1, <1>2, <1>4, <1>5, AloneLocks

LEMMA MergeLocks ==
  ASSUME Inv, LocksOK, NEW w \in Workers, Merge(w)
  PROVE  LocksOK'
<1>1. /\ Shaped(req[w]) /\ Copied(req[w]) /\ req[w] # Idle /\ req[w].at = "merge"
      /\ Locks(req[w], mine[w])
  BY Busy DEF Inv, Merge, LocksOK
<1> DEFINE patch == Dirty(req[w].value, Row(req[w].id))
           r == [req[w] EXCEPT !.at = "write", !.value = patch]
<1>2. Becomes(w, r) /\ Has(w, mine[w]) /\ log' = log
  BY DEF Merge, Becomes, Has, Inv, RequestsOK
<1>3. "sheet" \in DOMAIN patch => patch.sheet = req[w].value.sheet
  BY DirtySheet
<1> HIDE DEF patch
<1>4. /\ r.op = req[w].op /\ r.root = req[w].root /\ r.id = req[w].id /\ r.news = req[w].news
      /\ r.at = "write" /\ r.todo = req[w].todo /\ r.value = patch /\ r # Idle
  BY <1>1, OpsApart DEF Shaped, Fields
<1> HIDE DEF r
<1>5. CASE Alone(req[w])
  BY <1>1, <1>2, <1>4, <1>5, AloneLocks
<1>6. CASE ~Alone(req[w])
  <2>1. ASSUME LogLock(req[w], mine[w]) PROVE LogLock(r, mine[w])
    BY <1>1, <1>3, <1>4, <2>1 DEF LogLock
  <2>2. ASSUME CascadeLock(req[w], mine[w]) PROVE CascadeLock(r, mine[w])
    BY <1>1, <1>4, <2>2 DEF CascadeLock, BeforeCascade
  <2>3. LogLock(r, mine[w]) \/ CascadeLock(r, mine[w])
    BY <1>1, <1>6, <2>1, <2>2 DEF Locks
  <2>4. \A v \in Workers \ {w} : DOMAIN mine[v] \cap DOMAIN mine[w] = {}
    BY DEF LocksOK
  <2> QED
    BY <1>1, <1>2, <1>4, <1>6, <2>3, <2>4, OneOfManyLocks
<1> QED
  BY <1>5, <1>6

LEMMA WriteLocks ==
  ASSUME Inv, LocksOK, NEW w \in Workers, Write(w)
  PROVE  LocksOK'
<1>1. /\ Shaped(req[w]) /\ Copied(req[w]) /\ req[w] # Idle /\ req[w].at = "write"
      /\ Locks(req[w], mine[w])
  BY Busy DEF Inv, Write, LocksOK
<1> DEFINE id == req[w].id
           row == Over(req[w].value, Row(id))
           m == Over(Only(id, row), mine[w])
           root == req[w].op \in SheetOps /\ id = req[w].root
           at == IF root THEN "list" ELSE "next"
           r == [req[w] EXCEPT !.at = at, !.value = None]
<1>2. Becomes(w, r) /\ Has(w, m) /\ log' = log
  BY DEF Write, Becomes, Has, Inv, RequestsOK
<1>3. /\ r.op = req[w].op /\ r.root = req[w].root /\ r.id = id /\ r.news = req[w].news
      /\ r.at = at /\ r.todo = req[w].todo /\ r # Idle
  BY <1>1, OpsApart DEF Shaped, Fields
<1>4. id \in Logs =>
        /\ Exists(id)
        /\ row.sheet = IF "sheet" \in DOMAIN req[w].value THEN req[w].value.sheet ELSE log[id].sheet
  <2> SUFFICES ASSUME id \in Logs
               PROVE  /\ Exists(id)
                      /\ row.sheet = IF "sheet" \in DOMAIN req[w].value
                                     THEN req[w].value.sheet ELSE log[id].sheet
    OBVIOUS
  <2>1. Row(id) = log[id] /\ Exists(id)
    BY <1>1 DEF Row, Copied
  <2>2. log[id] \in TimeLog
    BY <2>1, ApprovedIsAccounted
  <2> QED
    BY <2>1, <2>2, PatchedSheet
<1> HIDE DEF row
<1>5. /\ DOMAIN m = {id} \cup DOMAIN mine[w] /\ m[id] = row
      /\ \A k \in DOMAIN mine[w] \ {id} : m[k] = mine[w][k]
  BY DEF Over, Only
<1> HIDE DEF m, r
<1>6. CASE Alone(req[w])
  BY <1>1, <1>2, <1>3, <1>6, AloneLocks
<1>7. CASE ~Alone(req[w])
  <2>1. ASSUME LogLock(req[w], mine[w]) PROVE LogLock(r, m)
    <3>1. r.at = "next" /\ req[w].op \in LogOps
      BY <1>3, <2>1, OpsApart DEF LogLock
    <3> QED
      BY <1>1, <1>3, <1>4, <1>5, <2>1, <3>1 DEF LogLock
  <2>2. ASSUME CascadeLock(req[w], mine[w]) PROVE CascadeLock(r, m)
    <3>1. req[w].op \in SheetOps /\ req[w].root \in Sheets /\ req[w].root \notin Logs
      BY <1>1, <2>2, IdsAssumption DEF CascadeLock, Shaped
    <3>2. req[w].root \in DOMAIN m
      BY <1>1, <1>5, <2>2 DEF CascadeLock, BeforeCascade
    <3>3. \A l \in DOMAIN m \cap Logs : LinkedTo(req[w].root, l) /\ m[l].sheet = req[w].root
      <4> SUFFICES ASSUME NEW l \in DOMAIN m \cap Logs
                   PROVE  LinkedTo(req[w].root, l) /\ m[l].sheet = req[w].root
        OBVIOUS
      <4>1. CASE l = id
        <5>1. id # req[w].root /\ id \in Logs
          BY <3>1, <4>1
        <5>2. /\ LinkedTo(req[w].root, id)
              /\ "sheet" \in DOMAIN req[w].value => req[w].value.sheet = req[w].root
          BY <1>1, <2>2, <5>1 DEF CascadeLock
        <5> QED
          BY <1>4, <1>5, <4>1, <5>1, <5>2 DEF LinkedTo
      <4>2. CASE l # id
        BY <1>5, <2>2, <4>2 DEF CascadeLock
      <4> QED
        BY <4>1, <4>2
    <3> QED
      BY <1>1, <1>3, <2>2, <3>2, <3>3 DEF CascadeLock, BeforeCascade
  <2>3. LogLock(r, m) \/ CascadeLock(r, m)
    BY <1>1, <1>7, <2>1, <2>2 DEF Locks
  <2>4. \A v \in Workers \ {w} : DOMAIN mine[v] \cap DOMAIN m = {}
    <3> SUFFICES ASSUME NEW v \in Workers \ {w} PROVE DOMAIN mine[v] \cap DOMAIN m = {}
      OBVIOUS
    <3>1. id \notin DOMAIN mine[v]
      BY DEF Write, Blocks
    <3>2. DOMAIN mine[v] \cap DOMAIN mine[w] = {}
      BY DEF LocksOK
    <3> QED
      BY <1>5, <3>1, <3>2
  <2> QED
    BY <1>1, <1>2, <1>3, <1>7, <2>3, <2>4, OneOfManyLocks
<1> QED
  BY <1>6, <1>7

LEMMA ListLinkedLocks ==
  ASSUME Inv, LocksOK, NEW w \in Workers, ListLinked(w)
  PROVE  LocksOK'
<1>1. /\ Shaped(req[w]) /\ req[w] # Idle /\ req[w].at = "list" /\ Locks(req[w], mine[w])
  BY Busy DEF Inv, ListLinked, LocksOK
<1>2. req[w].op \in SheetOps /\ ~Alone(req[w])
  BY <1>1, OpsApart DEF Shaped, Alone
<1>3. CascadeLock(req[w], mine[w])
  BY <1>1, <1>2, OpsApart DEF Locks, LogLock
<1> DEFINE L == Listed(req[w].root)
           todo == [l \in L |-> log[l]]
           owes == IF req[w].op = "approve_sheet" THEN L ELSE {}
           r == [req[w] EXCEPT !.at = "next", !.todo = todo, !.news = owes]
<1>4. Becomes(w, r) /\ Has(w, mine[w]) /\ log' = log
  BY DEF ListLinked, Becomes, Has, Inv, RequestsOK
<1>5. \A l \in L : l \in Logs /\ LinkedTo(req[w].root, l)
  BY DEF Listed, Linked, LinkedTo
<1> HIDE DEF L
<1>6. \A l \in DOMAIN todo : /\ l \in Logs /\ LinkedTo(req[w].root, l)
                            /\ todo[l].sheet = req[w].root
  BY <1>5 DEF LinkedTo
<1> HIDE DEF todo, owes
<1>7. /\ r.op = req[w].op /\ r.root = req[w].root /\ r.id = req[w].id
      /\ r.at = "next" /\ r.todo = todo /\ r # Idle
  BY <1>1, OpsApart DEF Shaped, Fields
<1> HIDE DEF r
<1>8. CascadeLock(r, mine[w])
  BY <1>1, <1>3, <1>6, <1>7 DEF CascadeLock, BeforeCascade
<1>9. \A v \in Workers \ {w} : DOMAIN mine[v] \cap DOMAIN mine[w] = {}
  BY DEF LocksOK
<1> QED
  BY <1>1, <1>2, <1>4, <1>7, <1>8, <1>9, OneOfManyLocks

LEMMA MergeNextLocks ==
  ASSUME Inv, LocksOK, NEW w \in Workers, MergeNext(w)
  PROVE  LocksOK'
<1>1. /\ Shaped(req[w]) /\ Copied(req[w]) /\ req[w] # Idle /\ req[w].at = "next"
      /\ Locks(req[w], mine[w])
  BY Busy DEF Inv, MergeNext, LocksOK
<1>2. PICK l \in DOMAIN req[w].todo : \E e \in Settled(w, req[w].todo[l]) :
        req' = [req EXCEPT ![w].at = "write", ![w].id = l, ![w].value = Dirty(e, log[l]),
                           ![w].todo = [k \in DOMAIN @ \ {l} |-> @[k]]]
  BY DEF MergeNext
<1>3. PICK e \in Settled(w, req[w].todo[l]) :
        req' = [req EXCEPT ![w].at = "write", ![w].id = l, ![w].value = Dirty(e, log[l]),
                           ![w].todo = [k \in DOMAIN @ \ {l} |-> @[k]]]
  BY <1>2
<1> DEFINE patch == Dirty(e, log[l])
           rest == [k \in DOMAIN req[w].todo \ {l} |-> req[w].todo[k]]
           r == [req[w] EXCEPT !.at = "write", !.id = l, !.value = patch, !.todo = rest]
<1>4. Becomes(w, r) /\ Has(w, mine[w]) /\ log' = log
  BY <1>1, <1>3 DEF MergeNext, Becomes, Has, Inv, RequestsOK
<1>5. "sheet" \in DOMAIN patch => patch.sheet = e.sheet
  BY DirtySheet
<1>6. /\ DOMAIN rest \subseteq DOMAIN req[w].todo
      /\ \A k \in DOMAIN rest : rest[k] = req[w].todo[k]
  OBVIOUS
<1> HIDE DEF patch, rest
<1>7. /\ r.op = req[w].op /\ r.root = req[w].root /\ r.id = l /\ r.news = req[w].news
      /\ r.at = "write" /\ r.todo = rest /\ r.value = patch /\ r # Idle
  BY <1>1, OpsApart DEF Shaped, Fields
<1> HIDE DEF r
<1>8. CASE Alone(req[w])
  BY <1>1, <1>4, <1>7, <1>8, AloneLocks
<1>9. CASE ~Alone(req[w])
  <2>1. CascadeLock(req[w], mine[w])
    BY <1>1, <1>2, <1>9 DEF Locks, LogLock
  <2>2. /\ l \in Logs /\ LinkedTo(req[w].root, l) /\ req[w].todo[l].sheet = req[w].root
        /\ req[w].todo[l] \in TimeLog /\ req[w].op \in SheetOps
    BY <1>1, <2>1 DEF CascadeLock, Copied
  <2>3. e.sheet = req[w].root
    BY <2>2, SettledSheet
  <2>4. l # req[w].root
    BY <1>1, <2>2, IdsAssumption DEF Shaped
  <2>5. CascadeLock(r, mine[w])
    BY <1>1, <1>5, <1>6, <1>7, <2>1, <2>2, <2>3, <2>4 DEF CascadeLock, BeforeCascade
  <2>6. \A v \in Workers \ {w} : DOMAIN mine[v] \cap DOMAIN mine[w] = {}
    BY DEF LocksOK
  <2> QED
    BY <1>1, <1>4, <1>7, <1>9, <2>5, <2>6, OneOfManyLocks
<1> QED
  BY <1>8, <1>9
-----------------------------------------------------------------------------
(* A commit of one among many changes no link.                             *)

LEMMA CommitLocks ==
  ASSUME Inv, LocksOK, NEW w \in Workers, Commit(w)
  PROVE  LocksOK'
<1>1. /\ Shaped(req[w]) /\ req[w] # Idle /\ req[w].at = "next" /\ req[w].todo = Empty
      /\ Holds(req[w], mine[w]) /\ Locks(req[w], mine[w])
  BY Busy DEF Inv, RequestsOK, Commit, LocksOK
<1> DEFINE r == IF req[w].news = {} THEN Idle ELSE [req[w] EXCEPT !.at = "publish"]
<1>2. /\ req'[w] = r /\ mine'[w] = Empty
      /\ \A v \in Workers \ {w} : req'[v] = req[v] /\ mine'[v] = mine[v]
  BY DEF Commit, Inv, RequestsOK
<1>3. req[w].news # {} =>
        /\ r.op = req[w].op /\ r.root = req[w].root /\ r.id = req[w].id
        /\ r.at = "publish" /\ r.todo = req[w].todo /\ r # Idle
  BY <1>1, OpsApart DEF Shaped, Fields
<1>4. req[w].news = {} => r = Idle
  OBVIOUS
<1> HIDE DEF r
<1>5. DOMAIN mine'[w] = {}
  BY <1>2 DEF Empty
<1>6. Alone(req[w]) => r = Idle /\ OthersIdle(w)
  BY <1>1, <1>4 DEF Locks, LocksOK
<1>7. Locks(req[w], mine[w])'
  <2>1. CASE r = Idle
    BY <1>2, <1>5, <2>1 DEF Locks
  <2>2. CASE r # Idle
    <3>1. ~Alone(req[w]) /\ ~Alone(r)
      BY <1>3, <1>4, <1>6, <2>2 DEF Alone
    <3>2. (LogLock(req[w], mine[w]) \/ CascadeLock(req[w], mine[w])) /\ DOMAIN r.todo = {}
      BY <1>1, <1>3, <1>4, <2>2, <3>1 DEF Locks, Empty
    <3>3. (LogLock(req[w], mine[w]) \/ CascadeLock(req[w], mine[w]))'
      BY <1>1, <1>2, <1>3, <1>4, <1>5, <2>2, <3>2 DEF LogLock, CascadeLock, BeforeCascade
    <3> QED
      BY <1>2, <2>2, <3>1, <3>3 DEF Locks, Alone
  <2> QED
    BY <2>1, <2>2
<1>8. ASSUME NEW v \in Workers \ {w} PROVE Locks(req[v], mine[v])'
  <2>1. CASE Alone(req[w])
    <3>1. req'[v] = Idle /\ mine'[v] = mine[v] /\ DOMAIN mine[v] = {}
      BY <1>2, <1>6, <2>1, OpsApart DEF OthersIdle, LocksOK, Locks
    <3> QED
      BY <3>1 DEF Locks
  <2>2. CASE ~Alone(req[w])
    <3>1. \A l \in DOMAIN mine[w] \cap Logs : /\ Exists(l) /\ mine[w][l].sheet = log[l].sheet
                                             /\ mine[w][l] # None
      BY <1>1, <2>2, RowAssumption DEF Locks, LogLock, CascadeLock, LinkedTo, Holds
    <3>2. \A l \in Logs : Exists(l) => Exists(l)' /\ log'[l].sheet = log[l].sheet
      BY <3>1 DEF Commit, Exists
    <3> QED
      BY <1>2, <3>2, OthersLock DEF Inv, RequestsOK, LocksOK
  <2> QED
    BY <2>1, <2>2
<1>9. ASSUME NEW v \in Workers, req'[v] # Idle, Alone(req'[v]), NEW u \in Workers \ {v}
      PROVE  req'[u] = Idle
  <2>1. req[v] # Idle /\ Alone(req[v]) /\ v # w
    BY <1>1, <1>2, <1>3, <1>4, <1>6, <1>9 DEF Alone
  <2> QED
    BY <1>1, <1>2, <1>9, <2>1 DEF LocksOK, OthersIdle
<1>10. ASSUME NEW v \in Workers, NEW u \in Workers, v # u
       PROVE  DOMAIN mine'[v] \cap DOMAIN mine'[u] = {}
  BY <1>2, <1>5, <1>10 DEF LocksOK
<1> QED
  BY <1>7, <1>8, <1>9, <1>10 DEF LocksOK, OthersIdle, Alone

LEMMA PublishLocks ==
  ASSUME Inv, LocksOK, NEW w \in Workers, PublishApproval(w) \/ PublishFails(w)
  PROVE  LocksOK'
<1>1. /\ Shaped(req[w]) /\ req[w] # Idle /\ req[w].at = "publish" /\ Locks(req[w], mine[w])
  BY Busy DEF Inv, PublishApproval, PublishFails, LocksOK
<1>2. PICK l \in req[w].news : Announced(w, l) /\ UNCHANGED <<log, mine>>
  BY DEF PublishApproval, PublishFails
<1> DEFINE left == req[w].news \ {l}
           r == IF left = {} THEN Idle ELSE [req[w] EXCEPT !.news = left]
<1>3. Becomes(w, r) /\ Has(w, mine[w])
  BY <1>2 DEF Announced, Becomes, Has, Inv, RequestsOK
<1>4. left # {} =>
        /\ r.op = req[w].op /\ r.root = req[w].root /\ r.id = req[w].id
        /\ r.at = "publish" /\ r.todo = req[w].todo /\ r # Idle
  BY <1>1, OpsApart DEF Shaped, Fields
<1>5. left = {} => r = Idle
  OBVIOUS
<1> HIDE DEF left, r
<1>6. ~Alone(req[w]) /\ (LogLock(req[w], mine[w]) \/ CascadeLock(req[w], mine[w]))
  BY <1>1 DEF Locks
<1>7. DOMAIN mine[w] = {}
  BY <1>1, <1>6 DEF LogLock, CascadeLock, BeforeCascade
<1>8. \A v \in Workers \ {w} : DOMAIN mine[v] \cap DOMAIN mine[w] = {}
  BY <1>7
<1>9. CASE r = Idle
  <2>1. Locks(r, mine[w])
    BY <1>7, <1>9 DEF Locks
  <2> QED
    BY <1>2, <1>3, <1>8, <1>9, <2>1, LockMoves
<1>10. CASE r # Idle
  <2>1. ASSUME LogLock(req[w], mine[w]) PROVE LogLock(r, mine[w])
    BY <1>1, <1>4, <1>5, <1>10, <2>1 DEF LogLock
  <2>2. ASSUME CascadeLock(req[w], mine[w]) PROVE CascadeLock(r, mine[w])
    BY <1>1, <1>4, <1>5, <1>10, <2>2 DEF CascadeLock, BeforeCascade
  <2> QED
    BY <1>1, <1>2, <1>3, <1>4, <1>5, <1>6, <1>8, <1>10, <2>1, <2>2, OneOfManyLocks
<1> QED
  BY <1>9, <1>10

LEMMA NextLocks == RecordingAlone /\ Inv /\ LocksOK /\ [Next]_vars => LocksOK'
<1> SUFFICES ASSUME RecordingAlone, Inv, LocksOK, [Next]_vars PROVE LocksOK'
  OBVIOUS
<1>1. ASSUME NEW w \in Workers, Step(w) PROVE LocksOK'
  BY <1>1, CollectLocks, MergeLocks, WriteLocks, ListLinkedLocks, MergeNextLocks, RollbackLocks,
     CommitLocks, PublishLocks DEF Step, CascadeRaises
<1>2. ASSUME NEW w \in Workers, DeadlockVictim(w) PROVE LocksOK'
  BY <1>2, RollbackLocks DEF DeadlockVictim
<1>3. CASE ServerCrash
  <2>1. \A w \in Workers : req'[w] = Idle /\ DOMAIN mine'[w] = {}
    BY <1>3 DEF ServerCrash, Empty
  <2> QED
    BY <2>1 DEF LocksOK, Locks
<1>4. CASE UNCHANGED vars
  <2>1. \A w \in Workers : Locks(req[w], mine[w])'
    BY <1>4, OthersLock DEF vars, Inv, RequestsOK, LocksOK, Exists
  <2> QED
    BY <1>4, <2>1 DEF vars, LocksOK, OthersIdle, Alone
<1> QED
  BY <1>1, <1>2, <1>3, <1>4, ArriveLocks DEF Next

(* Where recording and submitting run alone, no two requests ever wait for *)
(* each other in a circle: a cascade locks its timesheet before its logs,  *)
(* and a decision on one log, or an edit, locks nothing else               *)
(* (approve_timesheet.py, reject_timesheet.py).                            *)
THEOREM NeverDeadlockedHolds ==
  ASSUME RecordingAlone
  PROVE  Spec => []NeverDeadlocked
<1>1. Init => LocksOK
  BY InitLocks
<1>2. Inv /\ LocksOK /\ [Next]_vars => LocksOK'
  BY NextLocks
<1>3. Inv /\ LocksOK => NeverDeadlocked
  BY NoCycle
<1> QED
  BY <1>1, <1>2, <1>3, Invariance, PTL DEF Spec
-----------------------------------------------------------------------------
(* Decided timesheets.                                                     *)

LogDecisions == {"approve_log", "reject_log"}

(* The clients that this is about.                                         *)
OnlyDecisions == RecordingAlone /\ Ops \subseteq LogDecisions \cup SheetOps \cup Recording

Verdicts == {"approved", "rejected"}
BeyondList(r) == r.at = "next" \/ (r.at = "write" /\ r.id # r.root)

(* A decision leaves the logs it writes decided.                           *)
Deciding(r, m) ==
  /\ r.at = "merge" /\ r.id \in Logs => r.value.approval \in Verdicts
  /\ r.at = "write" /\ r.id \in Logs =>
       IF "approval" \in DOMAIN r.value THEN r.value.approval \in Verdicts
                                        ELSE log[r.id].approval \in Verdicts
  /\ \A l \in DOMAIN m \cap Logs : m[l].approval \in Verdicts

DecidesLog(r, m) ==
  r.op \in LogDecisions /\ Deciding(r, m) /\ DOMAIN m \cap Sheets = {}

(* A cascade saves its timesheet, and from then on every linked log is to  *)
(* be decided, being decided or decided.  One that rejects an approved     *)
(* timesheet listed decided logs and can decide none of them.              *)
Saving(r, m) ==
  /\ DOMAIN m \cap Sheets \subseteq {r.root}
  /\ "status" \in DOMAIN sheet[r.root]
  /\ r.at = "merge" => r.value.status = Verdict(r.op)
  /\ r.at = "write" /\ r.id = r.root /\ "status" \in DOMAIN r.value
       => r.value.status = Verdict(r.op)
  /\ ~BeforeCascade(r) =>
       /\ "status" \in DOMAIN m[r.root]
       /\ r.op = "approve_sheet" /\ sheet[r.root].status = "approved"
            => m[r.root].status = "approved"
Covering(r, m) ==
  /\ r.at = "next" => Linked(r.root) \subseteq DOMAIN r.todo \cup DOMAIN m
  /\ r.at = "write" /\ r.id # r.root
       => Linked(r.root) \subseteq DOMAIN r.todo \cup DOMAIN m \cup {r.id}
TooLate(r) ==
  r.op = "reject_sheet" /\ sheet[r.root].status = "approved" /\ BeyondList(r) =>
    /\ r.at = "next" /\ Linked(r.root) \subseteq DOMAIN r.todo
    /\ \A l \in DOMAIN r.todo : r.todo[l].approval \in Verdicts
Cascades(r, m) ==
  r.op \in SheetOps /\ Deciding(r, m) /\ Saving(r, m) /\ Covering(r, m) /\ TooLate(r)

(* What works alone touches no decided timesheet and none of its logs.     *)
Inserts(r, m) ==
  /\ r.op \in {"create", "start"} /\ r.at = "next" /\ DOMAIN r.todo = {}
  /\ DOMAIN m \cap Sheets = {}
  /\ \A l \in DOMAIN m \cap Logs : m[l].sheet = None
Submits(r, m) ==
  /\ r.op = "submit"
  /\ sheet[r.root] = None \/ sheet[r.root].status \in {"draft", "rejected"}
  /\ DOMAIN m \cap Sheets \subseteq {r.root}
  /\ \A l \in DOMAIN m \cap Logs : m[l].sheet = r.root
  /\ r.at \in {"collect", "merge"} =>
       r.id = r.root /\ "status" \in DOMAIN r.value /\ r.value.status = "submitted"
  /\ r.at = "merge" \/ (r.at = "write" /\ r.id = r.root) => sheet[r.root] # None
  /\ r.at = "write" /\ r.id = r.root
       => "status" \in DOMAIN r.value /\ r.value.status = "submitted"
  /\ r.at = "write" /\ r.id # r.root
       => /\ r.id \in Logs
          /\ IF "sheet" \in DOMAIN r.value THEN r.value.sheet = r.root
                                           ELSE log[r.id].sheet = r.root
  /\ BeyondList(r) => /\ r.root \in DOMAIN m
                      /\ "status" \in DOMAIN m[r.root] /\ m[r.root].status = "submitted"

Stands(r, m) ==
  \/ r = Idle \/ DecidesLog(r, m) \/ Cascades(r, m) \/ Inserts(r, m) \/ Submits(r, m)

SheetsOK == DOMAIN sheet = Sheets /\ \A t \in Sheets : sheet[t] = None \/ "status" \in DOMAIN sheet[t]

LogsSettled ==
  \A t \in Sheets : "status" \in DOMAIN sheet[t] /\ sheet[t].status \in Verdicts =>
    \A l \in Linked(t) : log[l].approval \in Verdicts

(* With Inv and LocksOK, inductive.                                        *)
Standing ==
  SheetsOK /\ LogsSettled /\ \A w \in Workers : Stands(req[w], mine[w])

(* Which of its parts speaks of a request, by its use case.                *)
LEMMA Kinds ==
  ASSUME NEW r, NEW m, Stands(r, m), r # Idle
  PROVE  /\ r.op \in LogDecisions => DecidesLog(r, m)
         /\ r.op \in SheetOps => Cascades(r, m)
         /\ r.op \in {"create", "start"} => Inserts(r, m)
         /\ r.op = "submit" => Submits(r, m)
         /\ ~Alone(r) <=> r.op \in LogDecisions \cup SheetOps
         /\ Alone(r) <=> r.op \in {"create", "start", "submit"}
BY DEF Stands, DecidesLog, Cascades, Inserts, Submits, LogDecisions, SheetOps, Alone, Recording

LEMMA StandsStill ==
  ASSUME UNCHANGED <<log, sheet>>, NEW q, NEW n, Stands(q, n), NEW v \in Workers,
         req'[v] = q, mine'[v] = n
  PROVE  Stands(req[v], mine[v])'
<1>1. \A t : Linked(t)' = Linked(t)
  BY DEF Linked, Exists
<1>2. CASE q = Idle
  BY <1>2 DEF Stands
<1>3. CASE DecidesLog(q, n)
  BY <1>3 DEF Stands, DecidesLog, Deciding
<1>4. CASE Cascades(q, n)
  <2>1. Deciding(req[v], mine[v])' /\ Saving(req[v], mine[v])'
    BY <1>4 DEF Cascades, Deciding, Saving, BeforeCascade
  <2>2. Covering(req[v], mine[v])' /\ TooLate(req[v])'
    BY <1>1, <1>4 DEF Cascades, Covering, TooLate, BeyondList
  <2> QED
    BY <1>4, <2>1, <2>2 DEF Stands, Cascades
<1>5. CASE Inserts(q, n)
  BY <1>5 DEF Stands, Inserts
<1>6. CASE Submits(q, n)
  BY <1>6 DEF Stands, Submits, BeyondList
<1> QED
  BY <1>2, <1>3, <1>4, <1>5, <1>6 DEF Stands

LEMMA StandMoves ==
  ASSUME Inv, Standing, NEW w \in Workers, NEW r, NEW m, Becomes(w, r), Has(w, m),
         UNCHANGED <<log, sheet>>, Stands(r, m)
  PROVE  Standing'
<1>1. /\ req'[w] = r /\ mine'[w] = m
      /\ \A v \in Workers \ {w} : req'[v] = req[v] /\ mine'[v] = mine[v]
  BY DEF Becomes, Has, Inv, RequestsOK
<1>2. \A v \in Workers : Stands(req[v], mine[v])'
  BY <1>1, StandsStill DEF Standing
<1>3. SheetsOK' /\ LogsSettled'
  BY DEF Standing, SheetsOK, LogsSettled, Linked, Exists
<1> QED
  BY <1>2, <1>3 DEF Standing
-----------------------------------------------------------------------------
(* Requests arrive.                                                        *)

LEMMA InitStands == Init => Standing
<1> SUFFICES ASSUME Init PROVE Standing
  OBVIOUS
<1>1. \A w \in Workers : Stands(req[w], mine[w])
  BY DEF Init, Stands
<1>2. SheetsOK /\ LogsSettled
  BY DEF Init, SheetsOK, LogsSettled, Linked, Exists
<1> QED
  BY <1>1, <1>2 DEF Standing

LEMMA LoadLogStands ==
  ASSUME OnlyDecisions, Inv, LocksOK, Standing, NEW w \in Workers, NEW o \in LogOps,
         NEW l \in Logs, LoadLog(w, o, l)
  PROVE  Standing'
<1>1. PICK e \in Results(o, log[l]) :
        Begin(w, o, l, "merge", e, IF o = "approve_log" THEN {l} ELSE {})
  BY DEF LoadLog
<1> DEFINE owes == IF o = "approve_log" THEN {l} ELSE {}
           r == Begun(o, l, "merge", e, owes)
<1>2. Exists(l) /\ UNCHANGED <<log, sheet, mine>>
  BY DEF LoadLog
<1>3. Admitted(w, o) /\ Becomes(w, r)
  BY <1>1 DEF Begin, Becomes, Begun
<1>4. o \in LogDecisions
  BY <1>3, OpsApart DEF Admitted, OnlyDecisions
<1>5. log[l] \in TimeLog
  BY <1>2, ApprovedIsAccounted
<1>6. e.approval \in Verdicts
  <2>1. CASE o = "approve_log"
    BY <1>5, <2>1, Decided DEF Results, Verdicts
  <2>2. CASE o = "reject_log"
    BY <1>5, <2>2, Decided DEF Results, Verdicts
  <2> QED
    BY <1>4, <2>1, <2>2 DEF LogDecisions
<1> HIDE DEF owes
<1>7. DOMAIN mine[w] = {}
  BY <1>3, AdmittedApart DEF OnlyDecisions
<1>8. DecidesLog(r, mine[w])
  BY <1>4, <1>6, <1>7 DEF DecidesLog, Deciding, Begun
<1> HIDE DEF r
<1>9. Stands(r, mine[w]) /\ Has(w, mine[w])
  BY <1>2, <1>8 DEF Stands, Has
<1> QED
  BY <1>2, <1>3, <1>9, StandMoves

LEMMA LoadSheetStands ==
  ASSUME OnlyDecisions, Inv, LocksOK, Standing, NEW w \in Workers, NEW o \in SheetOps,
         NEW t \in Sheets, LoadSheet(w, o, t)
  PROVE  Standing'
<1> DEFINE e == Moved(sheet[t], Verdict(o))
           r == Begun(o, t, "merge", e, {})
<1>1. Admitted(w, o) /\ Becomes(w, r) /\ UNCHANGED <<log, sheet, mine>> /\ sheet[t] # None
  BY DEF LoadSheet, Begin, Becomes, Begun
<1>2. DOMAIN mine[w] = {}
  BY <1>1, AdmittedApart DEF OnlyDecisions
<1>3. "status" \in DOMAIN sheet[t]
  BY <1>1 DEF Standing, SheetsOK
<1>4. e.status = Verdict(o)
  BY <1>3 DEF Moved
<1>5. t \notin Logs
  BY IdsAssumption
<1> HIDE DEF e
<1>6. /\ r.op = o /\ r.root = t /\ r.at = "merge" /\ r.id = t /\ r.value = e
  BY DEF Begun
<1> HIDE DEF r
<1>7. Cascades(r, mine[w])
  BY <1>2, <1>3, <1>4, <1>5, <1>6
  DEF Cascades, Deciding, Saving, Covering, TooLate, BeyondList, BeforeCascade
<1>8. Stands(r, mine[w]) /\ Has(w, mine[w])
  BY <1>1, <1>7 DEF Stands, Has
<1> QED
  BY <1>1, <1>8, StandMoves

LEMMA LookupStands ==
  ASSUME OnlyDecisions, Inv, LocksOK, Standing, NEW w \in Workers, NEW t \in Sheets, NEW u,
         NEW from, NEW to, Lookup(w, t, u, from, to)
  PROVE  Standing'
<1> DEFINE found == SheetsOf(u, from)
           e == IF found = {} THEN NewSheet(u, from, to) ELSE Moved(sheet[t], "submitted")
           r == [op |-> "submit", root |-> t, at |-> "collect", id |-> t,
                 value |-> e, todo |-> Empty, to |-> to, news |-> {}]
<1>1. Admitted(w, "submit") /\ Becomes(w, r) /\ UNCHANGED <<log, sheet, mine>>
  BY DEF Lookup, Becomes
<1>2. IF found = {} THEN sheet[t] = None
                    ELSE sheet[t] # None /\ CanSubmit(sheet[t])
  BY DEF Lookup, SheetsOf
<1>3. "status" \in DOMAIN e /\ e.status = "submitted"
  BY <1>2 DEF NewSheet, Moved, Standing, SheetsOK
<1>4. sheet[t] = None \/ sheet[t].status \in {"draft", "rejected"}
  BY <1>2 DEF CanSubmit
<1>5. DOMAIN mine[w] = {}
  BY <1>1, AdmittedApart DEF OnlyDecisions
<1> HIDE DEF e
<1>6. r.op = "submit" /\ r.root = t /\ r.at = "collect" /\ r.id = t /\ r.value = e
  OBVIOUS
<1> HIDE DEF r
<1>7. Submits(r, mine[w])
  BY <1>3, <1>4, <1>5, <1>6 DEF Submits, BeyondList
<1>8. Stands(r, mine[w]) /\ Has(w, mine[w])
  BY <1>1, <1>7 DEF Stands, Has
<1> QED
  BY <1>1, <1>8, StandMoves

LEMMA InsertLogStands ==
  ASSUME OnlyDecisions, Inv, LocksOK, Standing, NEW w \in Workers,
         NEW o \in {"create", "start"}, NEW l \in Logs, NEW row, row.sheet = None,
         InsertLog(w, o, l, row)
  PROVE  Standing'
<1> DEFINE r == Begun(o, l, "next", None, {})
<1>1. /\ Becomes(w, r) /\ Has(w, Only(l, row)) /\ UNCHANGED <<log, sheet>>
  BY DEF InsertLog, Begin, Becomes, Begun, Has
<1>2. DOMAIN Only(l, row) = {l} /\ Only(l, row)[l] = row
  BY DEF Only
<1>3. l \notin Sheets
  BY IdsAssumption
<1>4. r.op = o /\ r.at = "next" /\ DOMAIN r.todo = {}
  BY DEF Begun, Empty
<1> HIDE DEF r
<1>5. Inserts(r, Only(l, row))
  BY <1>2, <1>3, <1>4 DEF Inserts
<1> QED
  BY <1>1, <1>5, StandMoves DEF Stands

LEMMA ArriveStands ==
  ASSUME OnlyDecisions, Inv, LocksOK, Standing, NEW w \in Workers, Arrive(w)
  PROVE  Standing'
<1>1. ASSUME NEW l \in Logs, NEW u \in Users, NEW d \in Days,
             CreateTimeLog(w, l, u, d) \/ StartTimer(w, l, u, d)
      PROVE  Standing'
  <2>1. \A h : ManualLog(u, d, h).sheet = None
    BY DEF ManualLog
  <2>2. TimerLog(u, d).sheet = None
    BY DEF TimerLog
  <2> QED
    BY <1>1, <2>1, <2>2, InsertLogStands DEF CreateTimeLog, StartTimer
<1> QED
  BY <1>1, LoadLogStands, LoadSheetStands, LookupStands DEF Arrive
-----------------------------------------------------------------------------
(* The statements of a request before its commit.                          *)

(* Where a request stands, when it has something to do.                    *)
LEMMA StandsAt ==
  ASSUME Inv, LocksOK, Standing, NEW w \in Workers, NEW place, At(w, place)
  PROVE  /\ Shaped(req[w]) /\ Copied(req[w]) /\ req[w] # Idle /\ req[w].at = place
         /\ Locks(req[w], mine[w]) /\ Stands(req[w], mine[w])
         /\ req[w].op \in SheetOps => CascadeLock(req[w], mine[w])
         /\ req[w].op \in LogDecisions => LogLock(req[w], mine[w])
<1>1. /\ Shaped(req[w]) /\ Copied(req[w]) /\ req[w] # Idle /\ req[w].at = place
      /\ Locks(req[w], mine[w]) /\ Stands(req[w], mine[w])
  BY Busy DEF Inv, LocksOK, Standing
<1>2. req[w].op \in SheetOps => CascadeLock(req[w], mine[w])
  BY <1>1, OpsApart DEF Locks, Alone, LogLock
<1>3. req[w].op \in LogDecisions => LogLock(req[w], mine[w])
  <2>1. req[w].op \in LogDecisions => req[w].op \in LogOps
    BY DEF LogDecisions, LogOps
  <2> QED
    BY <1>1, <2>1, OpsApart DEF Locks, Alone, CascadeLock
<1> QED
  BY <1>1, <1>2, <1>3

LEMMA CollectStands ==
  ASSUME Inv, LocksOK, Standing, NEW w \in Workers, Collect(w)
  PROVE  Standing'
<1>1. Shaped(req[w]) /\ req[w] # Idle /\ req[w].at = "collect" /\ Stands(req[w], mine[w])
  BY StandsAt DEF Collect
<1>2. req[w].op = "submit" /\ req[w].root \in Sheets
  BY <1>1 DEF Shaped
<1>3. Submits(req[w], mine[w])
  BY <1>1, <1>2, Kinds
<1>4. PICK P \in Page(InRange(req[w].value.user, req[w].value.start, req[w].to)) :
        LET t == req[w].root
            row == [req[w].value EXCEPT !.total = SumHours(P)]
            isNew == sheet[t] = None
        IN
        /\ req' = [req EXCEPT ![w].at = IF isNew THEN "next" ELSE "merge",
                              ![w].value = IF isNew THEN None ELSE row,
                              ![w].todo = [l \in P |-> log[l]]]
        /\ mine' = IF isNew THEN [mine EXCEPT ![w] = Only(t, row)] ELSE mine
  BY DEF Collect
<1> DEFINE isNew == sheet[req[w].root] = None
           row == [req[w].value EXCEPT !.total = SumHours(P)]
           at == IF isNew THEN "next" ELSE "merge"
           value == IF isNew THEN None ELSE row
           todo == [l \in P |-> log[l]]
           r == [req[w] EXCEPT !.at = at, !.value = value, !.todo = todo]
           m == IF isNew THEN Only(req[w].root, row) ELSE mine[w]
<1>5. Becomes(w, r) /\ Has(w, m) /\ UNCHANGED <<log, sheet>>
  BY <1>4 DEF Becomes, Has, Inv, RequestsOK, Collect
<1>6. "status" \in DOMAIN row /\ row.status = "submitted"
  BY <1>1, <1>3 DEF Submits
<1> HIDE DEF row, todo
<1>7. /\ r.op = "submit" /\ r.root = req[w].root /\ r.id = req[w].id
      /\ r.at = at /\ r.value = value
  BY <1>1, <1>2 DEF Shaped, Fields
<1> HIDE DEF r
<1>8. req[w].id = req[w].root /\ req[w].root \notin Logs
  BY <1>1, <1>2, <1>3, IdsAssumption DEF Submits
<1>9. DOMAIN Only(req[w].root, row) = {req[w].root} /\ Only(req[w].root, row)[req[w].root] = row
  BY DEF Only
<1>10. CASE isNew
  BY <1>3, <1>5, <1>6, <1>7, <1>8, <1>9, <1>10, StandMoves DEF Stands, Submits, BeyondList
<1>11. CASE ~isNew
  BY <1>3, <1>5, <1>6, <1>7, <1>8, <1>11, StandMoves DEF Stands, Submits, BeyondList
<1> QED
  BY <1>10, <1>11

LEMMA MergeStands ==
  ASSUME Inv, LocksOK, Standing, NEW w \in Workers, Merge(w)
  PROVE  Standing'
<1>1. /\ Shaped(req[w]) /\ Copied(req[w]) /\ req[w] # Idle /\ req[w].at = "merge"
      /\ Stands(req[w], mine[w])
      /\ req[w].op \in SheetOps => CascadeLock(req[w], mine[w])
  BY StandsAt DEF Merge
<1> DEFINE id == req[w].id
           patch == Dirty(req[w].value, Row(id))
           r == [req[w] EXCEPT !.at = "write", !.value = patch]
<1>2. Becomes(w, r) /\ Has(w, mine[w]) /\ UNCHANGED <<log, sheet>>
  BY DEF Merge, Becomes, Has, Inv, RequestsOK
<1>3. /\ DOMAIN patch = {d \in DOMAIN req[w].value : req[w].value[d] # Row(id)[d]}
      /\ \A c \in DOMAIN patch : patch[c] = req[w].value[c]
  BY DirtyColumns
<1> HIDE DEF patch
<1>4. /\ r.op = req[w].op /\ r.root = req[w].root /\ r.id = id /\ r.news = req[w].news
      /\ r.at = "write" /\ r.todo = req[w].todo /\ r.value = patch
  BY <1>1 DEF Shaped, Fields
<1> HIDE DEF r
<1>5. ASSUME Deciding(req[w], mine[w]) PROVE Deciding(r, mine[w])
  <2>1. ASSUME id \in Logs
        PROVE  IF "approval" \in DOMAIN patch THEN patch.approval \in Verdicts
                                              ELSE log[id].approval \in Verdicts
    <3>1. req[w].value.approval \in Verdicts /\ "approval" \in DOMAIN req[w].value
      BY <1>1, <1>5, <2>1, LogColumns DEF Deciding, Copied, Columns
    <3>2. Row(id) = log[id]
      BY <2>1 DEF Row
    <3> QED
      BY <1>3, <3>1, <3>2
  <2> QED
    BY <1>4, <1>5, <2>1 DEF Deciding
<1>6. CASE DecidesLog(req[w], mine[w])
  BY <1>2, <1>4, <1>5, <1>6, StandMoves DEF Stands, DecidesLog
<1>7. CASE Cascades(req[w], mine[w])
  <2>1. req[w].id = req[w].root
    BY <1>1, <1>7 DEF Cascades, CascadeLock
  <2>2. "status" \in DOMAIN patch => patch.status = Verdict(req[w].op)
    BY <1>1, <1>3, <1>7 DEF Cascades, Saving
  <2>3. BeforeCascade(r)
    BY <1>4, <2>1 DEF BeforeCascade
  <2>4. Saving(r, mine[w])
    BY <1>4, <1>7, <2>2, <2>3 DEF Cascades, Saving
  <2>5. Covering(r, mine[w]) /\ TooLate(r)
    BY <1>4, <2>1 DEF Covering, TooLate, BeyondList
  <2> QED
    BY <1>2, <1>4, <1>5, <1>7, <2>4, <2>5, StandMoves DEF Stands, Cascades
<1>8. CASE Inserts(req[w], mine[w])
  BY <1>1, <1>8 DEF Inserts
<1>9. CASE Submits(req[w], mine[w])
  <2>1. /\ id = req[w].root /\ sheet[req[w].root] # None
        /\ sheet[req[w].root].status \in {"draft", "rejected"}
        /\ "status" \in DOMAIN req[w].value /\ req[w].value.status = "submitted"
    BY <1>1, <1>9 DEF Submits
  <2>2. Row(id) = sheet[id]
    BY <1>1, <1>9, <2>1, IdsAssumption DEF Row, Shaped, Submits
  <2>3. "status" \in DOMAIN patch /\ patch.status = "submitted"
    BY <1>3, <2>1, <2>2
  <2> QED
    BY <1>2, <1>4, <1>9, <2>1, <2>3, StandMoves DEF Stands, Submits, BeyondList
<1> QED
  BY <1>1, <1>6, <1>7, <1>8, <1>9 DEF Stands

LEMMA WriteStands ==
  ASSUME Inv, LocksOK, Standing, NEW w \in Workers, Write(w)
  PROVE  Standing'
<1>1. /\ Shaped(req[w]) /\ Copied(req[w]) /\ req[w] # Idle /\ req[w].at = "write"
      /\ Stands(req[w], mine[w])
      /\ req[w].op \in SheetOps => CascadeLock(req[w], mine[w])
      /\ req[w].op \in LogDecisions => LogLock(req[w], mine[w])
  BY StandsAt DEF Write
<1> DEFINE id == req[w].id
           p == req[w].value
           row == Over(p, Row(id))
           m == Over(Only(id, row), mine[w])
           root == req[w].op \in SheetOps /\ id = req[w].root
           at == IF root THEN "list" ELSE "next"
           r == [req[w] EXCEPT !.at = at, !.value = None]
<1>2. Becomes(w, r) /\ Has(w, m) /\ UNCHANGED <<log, sheet>>
  BY DEF Write, Becomes, Has, Inv, RequestsOK
<1>3. /\ r.op = req[w].op /\ r.root = req[w].root /\ r.id = id
      /\ r.at = at /\ r.todo = req[w].todo
  BY <1>1 DEF Shaped, Fields
<1>4. id \in Logs =>
        /\ row.sheet = IF "sheet" \in DOMAIN p THEN p.sheet ELSE log[id].sheet
        /\ row.approval = IF "approval" \in DOMAIN p THEN p.approval ELSE log[id].approval
  <2> SUFFICES ASSUME id \in Logs
               PROVE  /\ row.sheet = IF "sheet" \in DOMAIN p THEN p.sheet ELSE log[id].sheet
                      /\ row.approval = IF "approval" \in DOMAIN p
                                        THEN p.approval ELSE log[id].approval
    OBVIOUS
  <2>1. Row(id) = log[id] /\ Exists(id)
    BY <1>1 DEF Row, Copied
  <2>2. log[id] \in TimeLog
    BY <2>1, ApprovedIsAccounted
  <2> QED
    BY <2>1, <2>2, PatchedSheet, PatchedApproval
<1>5. id \in Sheets /\ ("status" \in DOMAIN p \/ "status" \in DOMAIN sheet[id]) =>
        /\ "status" \in DOMAIN row
        /\ row.status = IF "status" \in DOMAIN p THEN p.status ELSE sheet[id].status
  BY IdsAssumption DEF Over, Row
<1> HIDE DEF row
<1>6. /\ DOMAIN m = {id} \cup DOMAIN mine[w] /\ m[id] = row
      /\ \A k \in DOMAIN mine[w] \ {id} : m[k] = mine[w][k]
  BY DEF Over, Only
<1> HIDE DEF m, r, p
<1>7. ASSUME Deciding(req[w], mine[w]) PROVE Deciding(r, m)
  <2>1. id \in Logs => row.approval \in Verdicts
    BY <1>1, <1>4, <1>7 DEF Deciding, p
  <2>2. \A l \in DOMAIN m \cap Logs : m[l].approval \in Verdicts
    BY <1>6, <1>7, <2>1 DEF Deciding
  <2> QED
    BY <1>3, <2>2 DEF Deciding
<1>8. CASE DecidesLog(req[w], mine[w])
  <2>1. id \in Logs
    BY <1>1, <1>8 DEF LogLock, DecidesLog
  <2>2. DOMAIN m \cap Sheets = {}
    BY <1>6, <1>8, <2>1, IdsAssumption DEF DecidesLog
  <2> QED
    BY <1>2, <1>3, <1>7, <1>8, <2>2, StandMoves DEF Stands, DecidesLog
<1>9. CASE Cascades(req[w], mine[w])
  <2>1. /\ req[w].op \in SheetOps /\ req[w].root \in Sheets /\ CascadeLock(req[w], mine[w])
        /\ Saving(req[w], mine[w]) /\ Covering(req[w], mine[w]) /\ TooLate(req[w])
    BY <1>1, <1>9 DEF Cascades, Shaped
  <2>2. CASE id = req[w].root
    <3>1. r.at = "list" /\ BeforeCascade(req[w])
      BY <1>1, <1>3, <2>1, <2>2 DEF BeforeCascade
    <3>2. DOMAIN m = {id}
      BY <1>6, <2>1, <3>1 DEF CascadeLock
    <3>3. "status" \in DOMAIN sheet[id] /\ ("status" \in DOMAIN p => p.status = Verdict(r.op))
      BY <1>1, <1>3, <2>1, <2>2 DEF Saving, p
    <3>4. /\ "status" \in DOMAIN row
          /\ r.op = "approve_sheet" /\ sheet[id].status = "approved" => row.status = "approved"
      BY <1>5, <2>1, <2>2, <3>3 DEF Verdict
    <3>5. Saving(r, m)
      BY <1>3, <1>6, <2>2, <3>1, <3>2, <3>3, <3>4 DEF Saving
    <3>6. Covering(r, m) /\ TooLate(r)
      BY <3>1 DEF Covering, TooLate, BeyondList
    <3> QED
      BY <1>2, <1>3, <1>7, <1>9, <3>5, <3>6, StandMoves DEF Stands, Cascades
  <2>3. CASE id # req[w].root
    <3>1. /\ r.at = "next" /\ ~BeforeCascade(req[w]) /\ ~BeforeCascade(r)
          /\ id \in Logs /\ id \notin Sheets
      BY <1>1, <1>3, <2>1, <2>3, IdsAssumption DEF BeforeCascade, CascadeLock
    <3>2. m[req[w].root] = mine[w][req[w].root]
      BY <1>6, <2>1, <2>3, <3>1 DEF CascadeLock
    <3>3. Saving(r, m)
      BY <1>3, <1>6, <2>1, <3>1, <3>2 DEF Saving
    <3>4. Covering(r, m)
      BY <1>1, <1>3, <1>6, <2>1, <2>3, <3>1 DEF Covering
    <3>5. TooLate(r)
      BY <1>1, <1>3, <2>1, <2>3 DEF TooLate, BeyondList
    <3> QED
      BY <1>2, <1>3, <1>7, <1>9, <3>3, <3>4, <3>5, StandMoves DEF Stands, Cascades
  <2> QED
    BY <2>2, <2>3
<1>10. CASE Inserts(req[w], mine[w])
  BY <1>1, <1>10 DEF Inserts
<1>11. CASE Submits(req[w], mine[w])
  <2>1. req[w].op = "submit" /\ req[w].root \in Sheets /\ r.at = "next" /\ BeyondList(r)
    BY <1>1, <1>3, <1>11, OpsApart DEF Submits, Shaped, SheetOps, BeyondList
  <2>2. CASE id = req[w].root
    <3>1. "status" \in DOMAIN row /\ row.status = "submitted"
      BY <1>1, <1>5, <1>11, <2>1, <2>2 DEF Submits, p
    <3>2. id \notin Logs
      BY <2>1, <2>2, IdsAssumption
    <3>3. Submits(r, m)
      BY <1>3, <1>6, <1>11, <2>1, <2>2, <3>1, <3>2 DEF Submits
    <3> QED
      BY <1>2, <3>3, StandMoves DEF Stands
  <2>3. CASE id # req[w].root
    <3>1. id \in Logs /\ id \notin Sheets /\ row.sheet = req[w].root
      BY <1>1, <1>4, <1>11, <2>3, IdsAssumption DEF Submits, p
    <3>2. BeyondList(req[w])
      BY <1>1, <2>3 DEF BeyondList
    <3>3. Submits(r, m)
      BY <1>3, <1>6, <1>11, <2>1, <2>3, <3>1, <3>2 DEF Submits
    <3> QED
      BY <1>2, <3>3, StandMoves DEF Stands
  <2> QED
    BY <2>2, <2>3
<1> QED
  BY <1>1, <1>8, <1>9, <1>10, <1>11 DEF Stands

LEMMA ListLinkedStands ==
  ASSUME Inv, LocksOK, Standing, NEW w \in Workers, ListLinked(w)
  PROVE  Standing'
<1>1. /\ Shaped(req[w]) /\ req[w] # Idle /\ req[w].at = "list" /\ req[w].op \in SheetOps
      /\ Stands(req[w], mine[w])
  BY StandsAt DEF ListLinked, Shaped
<1>2. Cascades(req[w], mine[w]) /\ req[w].root \in Sheets
  BY <1>1, Kinds DEF Shaped
<1> DEFINE L == Listed(req[w].root)
           todo == [l \in L |-> log[l]]
           owes == IF req[w].op = "approve_sheet" THEN L ELSE {}
           r == [req[w] EXCEPT !.at = "next", !.todo = todo, !.news = owes]
<1>3. Becomes(w, r) /\ Has(w, mine[w]) /\ UNCHANGED <<log, sheet>>
  BY DEF ListLinked, Becomes, Has, Inv, RequestsOK
<1>4. L = Linked(req[w].root) /\ DOMAIN todo = L
  BY DEF Listed
<1>5. sheet[req[w].root].status = "approved" => \A l \in L : todo[l].approval \in Verdicts
  BY <1>2, <1>4 DEF Standing, LogsSettled, Cascades, Saving, Verdicts
<1> HIDE DEF L, todo, owes
<1>6. /\ r.op = req[w].op /\ r.root = req[w].root /\ r.id = req[w].id
      /\ r.at = "next" /\ r.todo = todo
  BY <1>1 DEF Shaped, Fields
<1> HIDE DEF r
<1>7. ~BeforeCascade(req[w]) /\ ~BeforeCascade(r)
  BY <1>1, <1>6 DEF BeforeCascade
<1>8. Saving(r, mine[w])
  BY <1>2, <1>6, <1>7 DEF Cascades, Saving
<1>9. Covering(r, mine[w]) /\ TooLate(r) /\ Deciding(r, mine[w])
  BY <1>2, <1>4, <1>5, <1>6 DEF Cascades, Covering, TooLate, Deciding
<1> QED
  BY <1>1, <1>3, <1>6, <1>8, <1>9, StandMoves DEF Stands, Cascades

LEMMA MergeNextStands ==
  ASSUME Inv, LocksOK, Standing, NEW w \in Workers, MergeNext(w)
  PROVE  Standing'
<1>1. /\ Shaped(req[w]) /\ Copied(req[w]) /\ req[w] # Idle /\ req[w].at = "next"
      /\ Stands(req[w], mine[w])
      /\ req[w].op \in SheetOps => CascadeLock(req[w], mine[w])
      /\ req[w].op \in LogDecisions => LogLock(req[w], mine[w])
  BY StandsAt DEF MergeNext
<1>2. PICK l \in DOMAIN req[w].todo : \E e \in Settled(w, req[w].todo[l]) :
        req' = [req EXCEPT ![w].at = "write", ![w].id = l, ![w].value = Dirty(e, log[l]),
                           ![w].todo = [k \in DOMAIN @ \ {l} |-> @[k]]]
  BY DEF MergeNext
<1>3. PICK e \in Settled(w, req[w].todo[l]) :
        req' = [req EXCEPT ![w].at = "write", ![w].id = l, ![w].value = Dirty(e, log[l]),
                           ![w].todo = [k \in DOMAIN @ \ {l} |-> @[k]]]
  BY <1>2
<1> DEFINE copy == req[w].todo[l]
           patch == Dirty(e, log[l])
           rest == [k \in DOMAIN req[w].todo \ {l} |-> req[w].todo[k]]
           r == [req[w] EXCEPT !.at = "write", !.id = l, !.value = patch, !.todo = rest]
<1>4. Becomes(w, r) /\ Has(w, mine[w]) /\ UNCHANGED <<log, sheet>>
  BY <1>1, <1>3 DEF MergeNext, Becomes, Has, Inv, RequestsOK
<1>5. /\ DOMAIN patch = {d \in DOMAIN e : e[d] # log[l][d]}
      /\ \A c \in DOMAIN patch : patch[c] = e[c]
  BY DirtyColumns
<1>6. /\ DOMAIN rest = DOMAIN req[w].todo \ {l}
      /\ \A k \in DOMAIN rest : rest[k] = req[w].todo[k]
  OBVIOUS
<1> HIDE DEF patch, rest
<1>7. /\ r.op = req[w].op /\ r.root = req[w].root /\ r.id = l
      /\ r.at = "write" /\ r.todo = rest /\ r.value = patch
  BY <1>1 DEF Shaped, Fields
<1> HIDE DEF r
<1>8. l \in Logs /\ Exists(l) /\ copy \in TimeLog
  BY <1>1 DEF Copied
<1>9. CASE DecidesLog(req[w], mine[w])
  BY <1>1, <1>9 DEF DecidesLog, LogLock
<1>10. CASE Cascades(req[w], mine[w])
  <2>1. /\ req[w].op \in SheetOps /\ req[w].root \in Sheets /\ l # req[w].root
        /\ ~BeforeCascade(req[w]) /\ ~BeforeCascade(r)
    BY <1>1, <1>7, <1>8, <1>10, IdsAssumption DEF Cascades, Shaped, BeforeCascade
  <2>2. e \in TimeLog /\ e.approval \in Verdicts
    <3>1. CASE req[w].op = "approve_sheet"
      BY <1>8, <3>1, Decided DEF Settled, Verdicts
    <3>2. CASE req[w].op = "reject_sheet"
      BY <1>8, <3>2, Decided DEF Settled, Verdicts
    <3> QED
      BY <2>1, <3>1, <3>2 DEF SheetOps
  <2>3. IF "approval" \in DOMAIN patch THEN patch.approval \in Verdicts
                                       ELSE log[l].approval \in Verdicts
    BY <1>5, <2>2, LogColumns DEF Columns
  <2>4. Deciding(r, mine[w])
    BY <1>7, <1>10, <2>3 DEF Cascades, Deciding
  <2>5. Saving(r, mine[w])
    BY <1>1, <1>7, <1>10, <2>1 DEF Cascades, Saving
  <2>6. Covering(r, mine[w])
    BY <1>1, <1>6, <1>7, <1>10, <2>1 DEF Cascades, Covering
  <2>7. TooLate(r)
    <3>1. req[w].op = "reject_sheet" => copy.approval \notin Verdicts
      BY DEF Settled, CanRejectLog, Verdicts
    <3> QED
      BY <1>1, <1>7, <1>10, <3>1 DEF Cascades, TooLate, BeyondList
  <2> QED
    BY <1>4, <1>7, <2>1, <2>4, <2>5, <2>6, <2>7, StandMoves DEF Stands, Cascades
<1>11. CASE Inserts(req[w], mine[w])
  BY <1>11 DEF Inserts
<1>12. CASE Submits(req[w], mine[w])
  <2>1. req[w].op = "submit" /\ req[w].root \in Sheets /\ l # req[w].root
    BY <1>1, <1>8, <1>12, IdsAssumption DEF Submits, Shaped
  <2>2. e \in TimeLog /\ e.sheet = req[w].root
    BY <1>8, <2>1, Submitted DEF Settled
  <2>3. IF "sheet" \in DOMAIN patch THEN patch.sheet = req[w].root
                                    ELSE log[l].sheet = req[w].root
    BY <1>5, <2>2, LogColumns DEF Columns
  <2>4. Submits(r, mine[w])
    BY <1>1, <1>7, <1>8, <1>12, <2>1, <2>3 DEF Submits, BeyondList
  <2> QED
    BY <1>4, <2>4, StandMoves DEF Stands
<1> QED
  BY <1>1, <1>9, <1>10, <1>11, <1>12 DEF Stands

LEMMA RollbackStands ==
  ASSUME Inv, Standing, NEW w \in Workers, Rollback(w)
  PROVE  Standing'
<1>1. Becomes(w, Idle) /\ Has(w, Empty) /\ UNCHANGED <<log, sheet>>
  BY DEF Rollback, Becomes, Has
<1> QED
  BY <1>1, StandMoves DEF Stands

LEMMA PublishStands ==
  ASSUME Inv, LocksOK, Standing, NEW w \in Workers, PublishApproval(w) \/ PublishFails(w)
  PROVE  Standing'
<1>1. /\ Shaped(req[w]) /\ req[w] # Idle /\ req[w].at = "publish"
      /\ Stands(req[w], mine[w]) /\ Locks(req[w], mine[w])
  BY StandsAt DEF PublishApproval, PublishFails
<1>2. PICK l \in req[w].news : Announced(w, l) /\ UNCHANGED <<log, sheet, mine>>
  BY DEF PublishApproval, PublishFails
<1> DEFINE left == req[w].news \ {l}
           r == IF left = {} THEN Idle ELSE [req[w] EXCEPT !.news = left]
<1>3. Becomes(w, r) /\ Has(w, mine[w])
  BY <1>2 DEF Announced, Becomes, Has, Inv, RequestsOK
<1>4. left # {} =>
        /\ r.op = req[w].op /\ r.root = req[w].root /\ r.id = req[w].id
        /\ r.at = "publish" /\ r.todo = req[w].todo /\ r.value = req[w].value
  BY <1>1 DEF Shaped, Fields
<1>5. left = {} => r = Idle
  OBVIOUS
<1> HIDE DEF left, r
<1>6. ~Alone(req[w])
  BY <1>1 DEF Locks
<1>7. DecidesLog(req[w], mine[w]) \/ Cascades(req[w], mine[w])
  BY <1>1, <1>6, Kinds
<1>8. ASSUME left # {} PROVE Stands(r, mine[w])
  <2>1. CASE DecidesLog(req[w], mine[w])
    BY <1>1, <1>4, <1>8, <2>1 DEF Stands, DecidesLog, Deciding
  <2>2. CASE Cascades(req[w], mine[w])
    BY <1>1, <1>4, <1>8, <2>2
    DEF Stands, Cascades, Deciding, Saving, Covering, TooLate, BeyondList, BeforeCascade
  <2> QED
    BY <1>7, <2>1, <2>2
<1>9. Stands(r, mine[w])
  BY <1>5, <1>8 DEF Stands
<1> QED
  BY <1>2, <1>3, <1>9, StandMoves
-----------------------------------------------------------------------------
(* Commits.                                                                *)

(* What a commit does to the tables.                                       *)
LEMMA Committed ==
  ASSUME Standing, NEW w \in Workers, Commit(w)
  PROVE  /\ \A t \in Sheets : sheet'[t] = IF t \in DOMAIN mine[w] THEN mine[w][t] ELSE sheet[t]
         /\ \A l \in Logs : log'[l] = IF l \in DOMAIN mine[w] THEN mine[w][l] ELSE log[l]
         /\ DOMAIN sheet' = Sheets
BY DEF Commit

(* A decision keeps every link and takes no decision back.                 *)
LEMMA DecisionCommits ==
  ASSUME Inv, LocksOK, Standing, NEW w \in Workers, Commit(w),
         req[w].op \in LogDecisions \cup SheetOps
  PROVE  /\ \A t : Linked(t)' = Linked(t)
         /\ \A l \in Logs : Exists(l) =>
              log'[l].approval = log[l].approval \/ log'[l].approval \in Verdicts
<1>1. /\ req[w] # Idle /\ req[w].at = "next" /\ Stands(req[w], mine[w])
      /\ req[w].op \in SheetOps => CascadeLock(req[w], mine[w])
      /\ req[w].op \in LogDecisions => LogLock(req[w], mine[w])
  BY StandsAt DEF Commit
<1>2. \A l \in DOMAIN mine[w] \cap Logs : /\ Exists(l) /\ mine[w][l].sheet = log[l].sheet
                                         /\ mine[w][l] # None
  BY <1>1, RowAssumption DEF LogLock, CascadeLock, LinkedTo, Holds, Inv, RequestsOK
<1>3. \A l \in DOMAIN mine[w] \cap Logs : mine[w][l].approval \in Verdicts
  BY <1>1, Kinds DEF DecidesLog, Cascades, Deciding
<1>4. \A l \in Logs : (Exists(l)' <=> Exists(l)) /\ (Exists(l) => log'[l].sheet = log[l].sheet)
  BY <1>2, Committed DEF Exists
<1> QED
  BY <1>3, <1>4, Committed DEF Linked

(* Who else is deciding is not disturbed by it.                            *)
LEMMA OthersStand ==
  ASSUME Inv, LocksOK, Standing, NEW w \in Workers, Commit(w),
         req[w].op \in LogDecisions \cup SheetOps, NEW v \in Workers \ {w}
  PROVE  Stands(req[v], mine[v])'
<1>1. req'[v] = req[v] /\ mine'[v] = mine[v] /\ Stands(req[v], mine[v])
  BY DEF Commit, Standing
<1>2. CASE req[v] = Idle
  BY <1>1, <1>2 DEF Stands
<1>3. CASE req[v] # Idle
  <2>1. /\ ~Alone(req[v]) /\ Shaped(req[v]) /\ Copied(req[v]) /\ req[w] # Idle
        /\ Stands(req[w], mine[w])
    BY <1>3, Busy DEF LocksOK, OthersIdle, Inv, RequestsOK, Fits, Standing, Commit
  <2>2. ASSUME Deciding(req[v], mine[v]) PROVE Deciding(req[v], mine[v])'
    BY <1>1, <2>1, <2>2, DecisionCommits DEF Deciding, Copied
  <2>3. CASE DecidesLog(req[v], mine[v])
    BY <1>1, <2>2, <2>3 DEF Stands, DecidesLog
  <2>4. CASE Cascades(req[v], mine[v])
    <3>1. /\ req[v].op \in SheetOps /\ req[v].root \in Sheets
          /\ Saving(req[v], mine[v]) /\ Covering(req[v], mine[v]) /\ TooLate(req[v])
          /\ CascadeLock(req[v], mine[v])
      BY <1>3, <2>1, <2>4, OpsApart
      DEF Cascades, Shaped, LocksOK, Locks, LogLock
    <3>2. ~BeforeCascade(req[v]) => sheet'[req[v].root] = sheet[req[v].root]
      BY <3>1, Committed DEF CascadeLock, LocksOK
    <3>3. "status" \in DOMAIN sheet'[req[v].root]
      <4>1. CASE req[v].root \in DOMAIN mine[w]
        <5>1. Cascades(req[w], mine[w])
          BY <2>1, <3>1, <4>1, Kinds DEF DecidesLog
        <5>2. req[w].root = req[v].root /\ ~BeforeCascade(req[w])
          BY <3>1, <4>1, <5>1, OpsApart DEF Cascades, Saving, Commit, At, BeforeCascade
        <5> QED
          BY <3>1, <4>1, <5>1, <5>2, Committed DEF Cascades, Saving
      <4>2. CASE req[v].root \notin DOMAIN mine[w]
        BY <3>1, <4>2, Committed DEF Saving
      <4> QED
        BY <4>1, <4>2
    <3>4. Saving(req[v], mine[v])'
      BY <1>1, <3>1, <3>2, <3>3 DEF Saving, BeforeCascade
    <3>5. Covering(req[v], mine[v])'
      BY <1>1, <3>1, DecisionCommits DEF Covering
    <3>6. TooLate(req[v])'
      <4>1. BeyondList(req[v]) => ~BeforeCascade(req[v])
        BY DEF BeyondList, BeforeCascade
      <4> QED
        BY <1>1, <3>1, <3>2, <4>1, DecisionCommits DEF TooLate, BeyondList
    <3> QED
      BY <1>1, <2>2, <2>4, <3>4, <3>5, <3>6 DEF Stands, Cascades
  <2> QED
    BY <1>1, <1>3, <2>1, <2>3, <2>4, Kinds
<1> QED
  BY <1>2, <1>3

LEMMA DecisionCommitStands ==
  ASSUME Inv, LocksOK, Standing, NEW w \in Workers, Commit(w),
         req[w].op \in LogDecisions \cup SheetOps
  PROVE  Standing'
<1>1. /\ Shaped(req[w]) /\ req[w] # Idle /\ req[w].at = "next" /\ req[w].todo = Empty
      /\ Stands(req[w], mine[w])
  BY StandsAt DEF Commit
<1>2. DecidesLog(req[w], mine[w]) \/ Cascades(req[w], mine[w])
  BY <1>1, Kinds
<1>3. Cascades(req[w], mine[w]) =>
        Linked(req[w].root) \subseteq DOMAIN mine[w] /\ req[w].root \in Sheets
  BY <1>1 DEF Cascades, Covering, Shaped, Empty
<1>4. \A t \in Sheets \cap DOMAIN mine[w] : Cascades(req[w], mine[w]) /\ t = req[w].root
  BY <1>2 DEF DecidesLog, Cascades, Saving
<1>5. \A l \in DOMAIN mine[w] \cap Logs : mine[w][l].approval \in Verdicts
  BY <1>2 DEF DecidesLog, Cascades, Deciding
<1>6. Cascades(req[w], mine[w]) => "status" \in DOMAIN mine[w][req[w].root]
  BY <1>1 DEF Cascades, Saving, BeforeCascade
<1>7. SheetsOK'
  BY <1>4, <1>6, Committed DEF SheetsOK, Standing
<1>8. LogsSettled'
  <2> SUFFICES ASSUME NEW t \in Sheets, "status" \in DOMAIN sheet'[t],
                      sheet'[t].status \in Verdicts, NEW l \in Linked(t)
               PROVE  log'[l].approval \in Verdicts
    BY DecisionCommits DEF LogsSettled
  <2>1. l \in Logs /\ Exists(l)
    BY DEF Linked
  <2>2. CASE t \in DOMAIN mine[w]
    BY <1>3, <1>4, <1>5, <2>1, <2>2, Committed
  <2>3. CASE t \notin DOMAIN mine[w]
    BY <2>1, <2>3, Committed, DecisionCommits DEF Standing, LogsSettled
  <2> QED
    BY <2>2, <2>3
<1> DEFINE r == IF req[w].news = {} THEN Idle ELSE [req[w] EXCEPT !.at = "publish"]
<1>9. req'[w] = r /\ mine'[w] = Empty
  BY DEF Commit, Inv, RequestsOK
<1>10. req[w].news # {} => /\ r.op = req[w].op /\ r.root = req[w].root /\ r.id = req[w].id
                          /\ r.at = "publish"
  BY <1>1 DEF Shaped, Fields
<1>11. req[w].news = {} => r = Idle
  OBVIOUS
<1> HIDE DEF r
<1>12. DOMAIN mine'[w] = {}
  BY <1>9 DEF Empty
<1>13. Stands(req[w], mine[w])'
  <2>1. CASE r = Idle
    BY <1>9, <2>1 DEF Stands
  <2>2. CASE r # Idle /\ DecidesLog(req[w], mine[w])
    BY <1>9, <1>10, <1>11, <1>12, <2>2 DEF Stands, DecidesLog, Deciding
  <2>3. CASE r # Idle /\ Cascades(req[w], mine[w])
    <3>1. "status" \in DOMAIN sheet'[req[w].root]
      BY <1>3, <1>6, <2>3, Committed DEF Cascades, Saving
    <3> QED
      BY <1>9, <1>10, <1>11, <1>12, <2>3, <3>1
      DEF Stands, Cascades, Deciding, Saving, Covering, TooLate, BeyondList, BeforeCascade
  <2> QED
    BY <1>2, <2>1, <2>2, <2>3
<1> QED
  BY <1>7, <1>8, <1>13, OthersStand DEF Standing

LEMMA AloneCommitStands ==
  ASSUME Inv, LocksOK, Standing, NEW w \in Workers, Commit(w), Alone(req[w])
  PROVE  Standing'
<1>1. /\ Shaped(req[w]) /\ req[w] # Idle /\ req[w].at = "next"
      /\ Stands(req[w], mine[w]) /\ Locks(req[w], mine[w])
  BY StandsAt DEF Commit
<1>2. Inserts(req[w], mine[w]) \/ Submits(req[w], mine[w])
  BY <1>1, Kinds
<1>3. \A v \in Workers : req'[v] = Idle
  BY <1>1 DEF Locks, LocksOK, OthersIdle, Commit, Inv, RequestsOK
<1>4. \A t \in Sheets \cap DOMAIN mine[w] :
        /\ Submits(req[w], mine[w]) /\ t = req[w].root
        /\ "status" \in DOMAIN mine[w][t] /\ mine[w][t].status = "submitted"
  BY <1>1, <1>2 DEF Inserts, Submits, BeyondList
<1>5. \A l \in DOMAIN mine[w] \cap Logs, t \in Sheets :
        mine[w][l].sheet = t => t \in DOMAIN mine[w]
  BY <1>1, <1>2, NoneAssumption DEF Inserts, Submits, BeyondList
<1>6. SheetsOK'
  BY <1>4, Committed DEF SheetsOK, Standing
<1>7. LogsSettled'
  <2> SUFFICES ASSUME NEW t \in Sheets, "status" \in DOMAIN sheet'[t],
                      sheet'[t].status \in Verdicts, NEW l \in Logs,
                      log'[l] # None, log'[l].sheet = t
               PROVE  log'[l].approval \in Verdicts
    BY DEF LogsSettled, Linked, Exists
  <2>1. t \notin DOMAIN mine[w] /\ sheet'[t] = sheet[t]
    BY <1>4, Committed DEF Verdicts
  <2>2. l \notin DOMAIN mine[w] /\ log'[l] = log[l]
    BY <1>5, <2>1, Committed
  <2> QED
    BY <2>1, <2>2 DEF Standing, LogsSettled, Linked, Exists
<1> QED
  BY <1>3, <1>6, <1>7 DEF Standing, Stands

LEMMA CommitStands ==
  ASSUME Inv, LocksOK, Standing, NEW w \in Workers, Commit(w)
  PROVE  Standing'
<1>1. req[w] # Idle /\ Stands(req[w], mine[w])
  BY StandsAt DEF Commit
<1> QED
  BY <1>1, Kinds, DecisionCommitStands, AloneCommitStands

LEMMA NextStands ==
  ASSUME OnlyDecisions, Inv, LocksOK, Standing, [Next]_vars
  PROVE  Standing'
<1>1. ASSUME NEW w \in Workers, Step(w) PROVE Standing'
  BY <1>1, CollectStands, MergeStands, WriteStands, ListLinkedStands, MergeNextStands,
     RollbackStands, CommitStands, PublishStands DEF Step, CascadeRaises
<1>2. ASSUME NEW w \in Workers, DeadlockVictim(w) PROVE Standing'
  BY <1>2, RollbackStands DEF DeadlockVictim
<1>3. ASSUME UNCHANGED <<log, sheet>> PROVE SheetsOK' /\ LogsSettled'
  BY <1>3 DEF Standing, SheetsOK, LogsSettled, Linked, Exists
<1>4. CASE ServerCrash
  BY <1>3, <1>4 DEF ServerCrash, Standing, Stands
<1>5. CASE UNCHANGED vars
  <2>1. \A w \in Workers : Stands(req[w], mine[w])'
    BY <1>5, StandsStill DEF vars, Standing
  <2> QED
    BY <1>3, <1>5, <2>1 DEF vars, Standing
<1> QED
  BY <1>1, <1>2, <1>4, <1>5, ArriveStands DEF Next

(* An approved timesheet with a log in it is overwritten by no commit.     *)
LEMMA CommitKeepsApproval ==
  ASSUME Inv, LocksOK, Standing, NEW w \in Workers, Commit(w), NEW t \in Sheets,
         sheet[t] # None, sheet[t].status = "approved", Linked(t) # {}
  PROVE  sheet'[t].status = "approved"
<1>1. /\ Shaped(req[w]) /\ req[w] # Idle /\ req[w].at = "next" /\ req[w].todo = Empty
      /\ Stands(req[w], mine[w])
  BY StandsAt DEF Commit
<1>2. CASE t \notin DOMAIN mine[w]
  BY <1>2, Committed
<1>3. CASE t \in DOMAIN mine[w]
  <2>1. ~DecidesLog(req[w], mine[w]) /\ ~Inserts(req[w], mine[w])
    BY <1>3 DEF DecidesLog, Inserts
  <2>2. ~Submits(req[w], mine[w])
    BY <1>3 DEF Submits
  <2>3. Cascades(req[w], mine[w]) /\ t = req[w].root
    BY <1>1, <1>3, <2>1, <2>2 DEF Stands, Cascades, Saving
  <2>4. req[w].op # "reject_sheet"
    BY <1>1, <2>3 DEF Cascades, TooLate, BeyondList, Empty
  <2>5. mine[w][t].status = "approved"
    BY <1>1, <2>3, <2>4 DEF Cascades, Saving, BeforeCascade, SheetOps
  <2> QED
    BY <1>3, <2>5, Committed
<1> QED
  BY <1>2, <1>3

LEMMA NextKeepsApproval ==
  ASSUME Inv, LocksOK, Standing, [Next]_vars, NEW t \in Sheets,
         sheet[t] # None, sheet[t].status = "approved", Linked(t) # {}
  PROVE  sheet'[t].status = "approved"
<1>1. ASSUME NEW w \in Workers, Arrive(w) PROVE sheet' = sheet
  BY <1>1 DEF Arrive, LoadLog, LoadSheet, CreateTimeLog, StartTimer, InsertLog, Lookup
<1>2. ASSUME NEW w \in Workers, Step(w), ~Commit(w) PROVE sheet' = sheet
  BY <1>2 DEF Step, Collect, Merge, Write, ListLinked, MergeNext, CascadeRaises, Rollback,
              PublishApproval, PublishFails
<1>3. ASSUME NEW w \in Workers, DeadlockVictim(w) PROVE sheet' = sheet
  BY <1>3 DEF DeadlockVictim, Rollback
<1>4. (\E w \in Workers : Commit(w)) \/ sheet' = sheet
  BY <1>1, <1>2, <1>3 DEF Next, ServerCrash, vars
<1> QED
  BY <1>4, CommitKeepsApproval

LEMMA Standings == OnlyDecisions => (Spec => [](Inv /\ LocksOK /\ Standing))
<1> SUFFICES ASSUME OnlyDecisions PROVE Spec => [](Inv /\ LocksOK /\ Standing)
  OBVIOUS
<1>1. RecordingAlone
  BY DEF OnlyDecisions
<1>2. Init => LocksOK /\ Standing
  BY InitLocks, InitStands
<1>3. Inv /\ LocksOK /\ Standing /\ [Next]_vars => (LocksOK /\ Standing)'
  BY <1>1, NextLocks, NextStands
<1> QED
  BY <1>2, <1>3, Invariance, PTL DEF Spec

(* Where clients record and submit alone and otherwise only decide, no log *)
(* is left pending under a decided timesheet, however many decisions on    *)
(* logs and timesheets race: each cascade lists its logs under the lock of *)
(* its timesheet, and commits only when all of them are decided            *)
(* (approve_timesheet.py:34, reject_timesheet.py:36).                      *)
THEOREM NothingLeftPendingHolds ==
  ASSUME OnlyDecisions
  PROVE  Spec => []NothingLeftPending
<1>1. Standing => NothingLeftPending
  <2> SUFFICES ASSUME Standing, NEW t \in Sheets, sheet[t] # None,
                      sheet[t].status \in {"approved", "rejected"}, NEW l \in Linked(t)
               PROVE  log[l].approval \in {"approved", "rejected"}
    BY DEF NothingLeftPending
  <2> QED
    BY DEF Standing, SheetsOK, LogsSettled, Verdicts
<1> QED
  BY <1>1, Standings, PTL

(* For the same clients, an approved timesheet with a log in it stays      *)
(* approved: a rejection that loaded it while it was submitted finds its   *)
(* logs settled, and its cascade raises (reject_timesheet.py:36).          *)
THEOREM ApprovalStandsHolds ==
  ASSUME OnlyDecisions
  PROVE  Spec => ApprovalStands
<1>1. Inv /\ LocksOK /\ Standing /\ [Next]_vars =>
        [\A t \in Sheets :
           sheet[t] # None /\ sheet[t].status = "approved" /\ Linked(t) # {} =>
             sheet'[t].status = "approved"]_vars
  BY NextKeepsApproval
<1> QED
  BY <1>1, Standings, PTL DEF Spec, ApprovalStands
=============================================================================

------------------------- MODULE TimesheetRequests -------------------------
(***************************************************************************)
(* The approval workflow at the granularity of SQL statements, for several *)
(* requests in flight at once.  A request runs in the transaction of its   *)
(* own unit of work, at READ COMMITTED, and every statement it awaits lets *)
(* the other requests run:                                                 *)
(*                                                                         *)
(*   - it loads entities and works on copies, which may be stale by the    *)
(*     time they are saved;                                                *)
(*   - SQLAlchemyRepository.update merges the copy: a SELECT, then an      *)
(*     UPDATE of the columns in which the copy differs from that SELECT    *)
(*     (always some: updated_at), which waits for the row lock;            *)
(*   - it holds its locks, and nobody sees its writes, until it commits.   *)
(*                                                                         *)
(* A Merge is the SELECT, a Write the UPDATE.  An INSERT locks nothing     *)
(* that others see and is part of the statement before it.                 *)
(***************************************************************************)
EXTENDS TimeLogEntity, FiniteSets, Functions

CONSTANTS
  Logs, Weeks, PageLimit,   \* as in TimesheetWorkflow
  Workers,                  \* bound: requests in flight at once
  Ops,                      \* the use cases the clients call
  Solo                      \* those they call when no other request is in flight

LogOps == {"pause", "resume", "stop", "update", "approve_log", "reject_log"}
SheetOps == {"approve_sheet", "reject_sheet"}

ASSUME OpsAssumption ==
  Ops \subseteq LogOps \cup SheetOps \cup {"create", "start", "submit"}
ASSUME WeeksAssumption == Weeks \subseteq Days \X Days
ASSUME IdsAssumption == Logs \cap Sheets = {} /\ IsFiniteSet(Logs)   \* uuids

VARIABLES
  log,      \* committed timelogs
  sheet,    \* committed timesheets; here a row has its total_hours
  req,      \* what each worker is doing
  mine,     \* the uncommitted rows of each worker; it holds their locks
  seen,     \* logs whose TimeLogApproved was published
  lost      \* logs that had a TimeLogApproved that never was

vars == <<log, sheet, req, mine, seen, lost>>
rows == <<log, sheet>>

Empty == <<>>
Idle == [op |-> "none", news |-> {}]

Init ==
  /\ log = [l \in Logs |-> None]
  /\ sheet = [t \in Sheets |-> None]
  /\ req = [w \in Workers |-> Idle]
  /\ mine = [w \in Workers |-> Empty]
  /\ seen = {}
  /\ lost = {}

\* The columns of f over those of g, and a table of one row.
Over(f, g) == [c \in DOMAIN f \cup DOMAIN g |-> IF c \in DOMAIN f THEN f[c] ELSE g[c]]
Only(id, row) == [i \in {id} |-> row]

Row(id) == IF id \in Logs THEN log[id] ELSE sheet[id]
Exists(l) == log[l] # None
Linked(t) == {l \in Logs : Exists(l) /\ log[l].sheet = t}

At(w, place) == req[w] # Idle /\ req[w].at = place

(* Ids that some transaction has written or is to insert; uuid4 never      *)
(* gives one of them to a new row.                                         *)
Locked == UNION {DOMAIN mine[w] : w \in Workers}
Roots == {req[w].root : w \in {v \in Workers : req[v] # Idle}}
Taken == Locked \cup Roots
-----------------------------------------------------------------------------
(* Beginning: the first SELECT and the checks on what it returned.         *)

Admitted(w, o) ==
  /\ req[w] = Idle
  /\ o \in Ops
  /\ \A v \in Workers \ {w} :
       req[v] # Idle => o \notin Solo /\ req[v].op \notin Solo

Begin(w, o, root, at, value, news) ==
  /\ Admitted(w, o)
  /\ req' = [req EXCEPT ![w] =
       [op |-> o, root |-> root, at |-> at, id |-> root, value |-> value,
        todo |-> Empty, to |-> 0, news |-> news]]

(* What a method of TimeLog makes of a row; nothing if it raises.          *)
Results(o, r) ==
  CASE o = "pause" /\ CanPause(r) ->
         UNION {{Paused(r, e, h) : h \in RoundedHours(r.seconds + e)} : e \in Segments(r)}
    [] o = "stop" /\ CanStop(r) ->
         UNION {{Stopped(r, e, h) : h \in RoundedHours(r.seconds + e)} : e \in Segments(r)}
    [] o = "resume" /\ CanResume(r) -> {Resumed(r)}
    [] o = "update" -> {HoursUpdated(r, h) : h \in EditedHours(r)}
    [] o = "approve_log" /\ CanApproveLog(r) -> {ApprovedLog(r)}
    [] o = "reject_log" /\ CanRejectLog(r) -> {RejectedLog(r)}
    [] OTHER -> {}

LoadLog(w, o, l) ==
  /\ Exists(l)
  /\ \E e \in Results(o, log[l]) :
       Begin(w, o, l, "merge", e, IF o = "approve_log" THEN {l} ELSE {})
  /\ UNCHANGED <<log, sheet, mine, seen, lost>>

SumHours(S) == SumFunction([l \in S |-> log[l].hours])

HoursOn(u, d) ==
  SumHours({l \in Logs : Exists(l) /\ log[l].user = u /\ log[l].day = d})

InsertLog(w, o, l, row) ==
  /\ ~Exists(l) /\ l \notin Taken
  /\ Begin(w, o, l, "next", None, {})
  /\ mine' = [mine EXCEPT ![w] = Only(l, row)]
  /\ UNCHANGED <<log, sheet, seen, lost>>

CreateTimeLog(w, l, u, d) ==
  \E h \in ValidHours :
    /\ HoursOn(u, d) + h <= DayCap
    /\ InsertLog(w, "create", l, ManualLog(u, d, h))

StartTimer(w, l, u, d) == InsertLog(w, "start", l, TimerLog(u, d))

Verdict(o) == IF o = "approve_sheet" THEN "approved" ELSE "rejected"

\* Variant with a fault: the cascade runs before the timesheet is saved.
LogsFirst(w, o, t) ==
  /\ sheet[t] # None /\ CanMove(sheet[t].status, Verdict(o))
  /\ Begin(w, o, t, "list", None, {})
  /\ UNCHANGED <<log, sheet, mine, seen, lost>>

LoadSheet(w, o, t) ==
  /\ sheet[t] # None /\ CanMove(sheet[t].status, Verdict(o))
  /\ Begin(w, o, t, "merge", Moved(sheet[t], Verdict(o)), {})
  /\ UNCHANGED <<log, sheet, mine, seen, lost>>

CanSubmit(s) == s.status \in {"draft", "rejected"}

SheetsOf(u, from) ==
  {t \in Sheets : sheet[t] # None /\ sheet[t].user = u /\ sheet[t].start = from}

NewSheet(u, from, to) ==
  [user |-> u, start |-> from, end |-> to, status |-> "submitted", total |-> 0]

Lookup(w, t, u, from, to) ==
  LET found == SheetsOf(u, from) IN
  /\ \A s, r \in found : s = r
  /\ \A s \in found : CanSubmit(sheet[s])
  /\ IF found = {} THEN sheet[t] = None /\ t \notin Taken ELSE t \in found
  /\ Admitted(w, "submit")
  /\ req' = [req EXCEPT ![w] =
       [op |-> "submit", root |-> t, at |-> "collect", id |-> t,
        value |-> IF found = {} THEN NewSheet(u, from, to)
                                ELSE Moved(sheet[t], "submitted"),
        todo |-> Empty, to |-> to, news |-> {}]]
  /\ UNCHANGED <<log, sheet, mine, seen, lost>>
-----------------------------------------------------------------------------
(* The statements of a request.                                            *)

Page(S) ==
  {P \in SUBSET S :
     /\ Cardinality(P) = IF Cardinality(S) < PageLimit THEN Cardinality(S)
                                                       ELSE PageLimit
     /\ \A l \in P, k \in S \ P : log[l].day >= log[k].day}

InRange(u, from, to) ==
  {l \in Logs : Exists(l) /\ log[l].user = u /\ log[l].day \in from..to}

(* The SELECT of list_by_user in a submission; a new timesheet is added.   *)
Collect(w) ==
  /\ At(w, "collect")
  /\ \E P \in Page(InRange(req[w].value.user, req[w].value.start, req[w].to)) :
       LET t == req[w].root
           row == [req[w].value EXCEPT !.total = SumHours(P)]
           isNew == sheet[t] = None
       IN
       /\ req' = [req EXCEPT ![w].at = IF isNew THEN "next" ELSE "merge",
                             ![w].value = IF isNew THEN None ELSE row,
                             ![w].todo = [l \in P |-> log[l]]]
       /\ mine' = IF isNew THEN [mine EXCEPT ![w] = Only(t, row)] ELSE mine
  /\ UNCHANGED <<log, sheet, seen, lost>>

(* The columns to UPDATE: those in which the entity differs from the row.  *)
Dirty(entity, row) ==
  [c \in {d \in DOMAIN entity : entity[d] # row[d]} |-> entity[c]]

Merge(w) ==
  /\ At(w, "merge")
  /\ req' = [req EXCEPT ![w].at = "write",
                        ![w].value = Dirty(@, Row(req[w].id))]
  /\ UNCHANGED <<log, sheet, mine, seen, lost>>

Blocks(v, w) == v # w /\ At(w, "write") /\ req[w].id \in DOMAIN mine[v]

\* Variant with a fault: every update commits.
WriteThrough(w) ==
  /\ At(w, "write") /\ req[w].id \in Logs
  /\ log' = [log EXCEPT ![req[w].id] = Over(req[w].value, @)]
  /\ req' = [req EXCEPT ![w].at = "next", ![w].value = None]
  /\ UNCHANGED <<sheet, mine, seen, lost>>

(* The UPDATE: applied to the row as committed when the lock is granted.   *)
Write(w) ==
  /\ At(w, "write")
  /\ \A v \in Workers : ~Blocks(v, w)
  /\ mine' = [mine EXCEPT ![w] = Over(Only(req[w].id, Over(req[w].value, Row(req[w].id))), @)]
  /\ req' = [req EXCEPT ![w].at = IF req[w].op \in SheetOps /\ req[w].id = req[w].root
                                  THEN "list" ELSE "next",
                        ![w].value = None]
  /\ UNCHANGED <<log, sheet, seen, lost>>

\* Variant with a fault: a page of one row.
ListedOnePage(t) == {l \in Linked(t) : l = CHOOSE k \in Linked(t) : TRUE}

(* list_by_timesheet.                                                      *)
Listed(t) == Linked(t)

ListLinked(w) ==
  /\ At(w, "list")
  /\ req' = [req EXCEPT ![w].at = "next",
                        ![w].todo = [l \in Listed(req[w].root) |-> log[l]],
                        ![w].news = IF req[w].op = "approve_sheet"
                                    THEN Listed(req[w].root) ELSE {}]
  /\ UNCHANGED <<log, sheet, mine, seen, lost>>

\* Variant with a fault: decides what it lists, whatever state it is in.
SettledRegardless(w, r) ==
  {IF req[w].op = "submit" THEN SubmittedLog(r, req[w].root)
   ELSE [r EXCEPT !.approval = Verdict(req[w].op)]}

(* What the loop of a cascade or a submission makes of a loaded log.       *)
Settled(w, r) ==
  CASE req[w].op = "submit"                            -> {SubmittedLog(r, req[w].root)}
    [] req[w].op = "approve_sheet" /\ CanApproveLog(r) -> {ApprovedLog(r)}
    [] req[w].op = "reject_sheet" /\ CanRejectLog(r)   -> {RejectedLog(r)}
    [] OTHER                                           -> {}

(* The next log of the loop: its method, then the SELECT of its merge.     *)
MergeNext(w) ==
  /\ At(w, "next")
  /\ \E l \in DOMAIN req[w].todo : \E e \in Settled(w, req[w].todo[l]) :
       req' = [req EXCEPT ![w].at = "write",
                          ![w].id = l,
                          ![w].value = Dirty(e, log[l]),
                          ![w].todo = [k \in DOMAIN @ \ {l} |-> @[k]]]
  /\ UNCHANGED <<log, sheet, mine, seen, lost>>

Rollback(w) ==
  /\ req' = [req EXCEPT ![w] = Idle]
  /\ mine' = [mine EXCEPT ![w] = Empty]
  /\ UNCHANGED <<log, sheet, seen, lost>>

\* Variant with a fault: the transaction stays open.
RaisesOnly(w) ==
  /\ At(w, "next")
  /\ \E l \in DOMAIN req[w].todo : Settled(w, req[w].todo[l]) = {}
  /\ req' = [req EXCEPT ![w] = Idle]
  /\ UNCHANGED <<log, sheet, mine, seen, lost>>

(* The method of the next log raises.                                      *)
CascadeRaises(w) ==
  /\ At(w, "next")
  /\ \E l \in DOMAIN req[w].todo : Settled(w, req[w].todo[l]) = {}
  /\ Rollback(w)

Commit(w) ==
  /\ At(w, "next")
  /\ req[w].todo = Empty
  /\ log' = [l \in Logs |-> IF l \in DOMAIN mine[w] THEN mine[w][l] ELSE log[l]]
  /\ sheet' = [t \in Sheets |-> IF t \in DOMAIN mine[w] THEN mine[w][t] ELSE sheet[t]]
  /\ mine' = [mine EXCEPT ![w] = Empty]
  /\ req' = [req EXCEPT ![w] = IF @.news = {} THEN Idle
                               ELSE [@ EXCEPT !.at = "publish"]]
  /\ UNCHANGED <<seen, lost>>

\* Variant with a fault: returns from the loop after one event.
AnnouncedAll(w, l) == req' = [req EXCEPT ![w] = Idle]

Announced(w, l) ==
  LET left == req[w].news \ {l} IN
  req' = [req EXCEPT ![w] = IF left = {} THEN Idle ELSE [@ EXCEPT !.news = left]]

PublishApproval(w) ==
  /\ At(w, "publish")
  /\ \E l \in req[w].news : Announced(w, l) /\ seen' = seen \cup {l}
  /\ UNCHANGED <<log, sheet, mine, lost>>

PublishFails(w) ==
  /\ At(w, "publish")
  /\ \E l \in req[w].news : Announced(w, l) /\ lost' = lost \cup {l}
  /\ UNCHANGED <<log, sheet, mine, seen>>

(* Transactions that wait for each other in a circle: PostgreSQL aborts    *)
(* one of them, and its request fails.                                     *)
OnCycle(w) ==
  \E C \in SUBSET Workers :
    /\ w \in C
    /\ \A x \in C : (\E v \in C : Blocks(v, x)) /\ (\E v \in C : Blocks(x, v))

DeadlockVictim(w) ==
  /\ OnCycle(w)
  /\ Rollback(w)

Owed == UNION {req[w].news : w \in {v \in Workers : At(v, "publish")}}

ServerCrash ==
  /\ \E w \in Workers : req[w] # Idle
  /\ req' = [w \in Workers |-> Idle]
  /\ mine' = [w \in Workers |-> Empty]
  /\ lost' = lost \cup Owed
  /\ UNCHANGED <<log, sheet, seen>>
-----------------------------------------------------------------------------
Arrive(w) ==
  \/ \E o \in LogOps, l \in Logs : LoadLog(w, o, l)
  \/ \E o \in SheetOps, t \in Sheets : LoadSheet(w, o, t)
  \/ \E l \in Logs, u \in Users, d \in Days :
       CreateTimeLog(w, l, u, d) \/ StartTimer(w, l, u, d)
  \/ \E t \in Sheets, u \in Users, k \in Weeks : Lookup(w, t, u, k[1], k[2])

Step(w) ==
  \/ Collect(w) \/ Merge(w) \/ Write(w) \/ ListLinked(w)
  \/ MergeNext(w) \/ CascadeRaises(w) \/ Commit(w)
  \/ PublishApproval(w) \/ PublishFails(w)

Next ==
  \/ \E w \in Workers : Arrive(w) \/ Step(w) \/ DeadlockVictim(w)
  \/ ServerCrash

(* The event loop resumes every request whose statement is done, the       *)
(* database grants row locks in the order they are asked for, and breaks   *)
(* every deadlock.                                                         *)
Fairness ==
  /\ \A w \in Workers : WF_vars(Step(w)) /\ SF_vars(Write(w))
  /\ WF_vars(\E w \in Workers : DeadlockVictim(w))

Spec == Init /\ [][Next]_vars
FairSpec == Spec /\ Fairness
-----------------------------------------------------------------------------
(* Properties.                                                             *)

SheetRow == [user: Users, start: Days, end: Days, status: SheetStatus, total: Nat]
ASSUME SheetRowAssumption == None \notin SheetRow

\* Committed and uncommitted rows have the shape of their tables, and no two
\* transactions hold a lock on one row.
TypeOK ==
  /\ log \in [Logs -> TimeLog \cup {None}]
  /\ sheet \in [Sheets -> SheetRow \cup {None}]
  /\ \A w \in Workers :
       /\ DOMAIN mine[w] \subseteq Logs \cup Sheets
       /\ \A l \in DOMAIN mine[w] \cap Logs : mine[w][l] \in TimeLog
       /\ \A t \in DOMAIN mine[w] \cap Sheets : mine[w][t] \in SheetRow
       /\ \A v \in Workers \ {w} : DOMAIN mine[v] \cap DOMAIN mine[w] = {}
  /\ seen \subseteq Logs /\ lost \subseteq Logs

\* However requests overlap, a link names an existing timesheet of the log's
\* user that starts no later than the log's date.
NoDanglingLink ==
  \A l \in Logs : Exists(l) /\ log[l].sheet # None =>
    LET s == sheet[log[l].sheet] IN
    s # None /\ s.user = log[l].user /\ s.start <= log[l].day

\* However requests overlap, an approved log was announced, is to be, or its
\* announcement is known to be lost.
ApprovalsAccountedFor ==
  \A l \in Logs : Exists(l) /\ log[l].approval = "approved" =>
    l \in Owed \cup seen \cup lost

\* Every request ends: row locks are released, deadlocks are broken.
RequestsEnd == \A w \in Workers : req[w] # Idle ~> req[w] = Idle

\* Decisions that race.  A timesheet approved with a log in it stays approved
\* although a rejection may have loaded it while it was submitted: the
\* cascade of the late one reads the logs under the row lock of the
\* timesheet and finds them settled.
ApprovalStands ==
  [][\A t \in Sheets :
       sheet[t] # None /\ sheet[t].status = "approved" /\ Linked(t) # {} =>
         sheet'[t].status = "approved"]_vars

\* No log is left pending under a decided timesheet.
NothingLeftPending ==
  \A t \in Sheets : sheet[t] # None /\ sheet[t].status \in {"approved", "rejected"} =>
    \A l \in Linked(t) : log[l].approval \in {"approved", "rejected"}

\* Decisions alone never deadlock: a cascade takes the timesheet first, and
\* a decision on one log takes nothing else.
NeverDeadlocked == \A w \in Workers : ~OnCycle(w)

\* One request at a time, the statements implement the transactions.
W == INSTANCE TimesheetWorkflow WITH
       sheet <- [t \in Sheets |->
                   IF sheet[t] = None THEN None
                   ELSE [user |-> sheet[t].user, start |-> sheet[t].start,
                         end |-> sheet[t].end, status |-> sheet[t].status]],
       total <- [t \in Sheets |-> IF sheet[t] = None THEN 0 ELSE sheet[t].total],
       owed <- Owed
Sequential == W!Spec
=============================================================================

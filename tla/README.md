# Verification of the enterprise timesheet platform

TLA+ models of the platform's core logic, TLC configurations that check them on
small instances, and TLAPS proofs of the main results for every value of the
constants. `PROJECT.json` lists components, runs, findings, hazards, theorems
and, under `map`, the source lines every definition stands for. Paths below are
relative to the repository.

## The system

| Part | State | Operations | Correct when |
|---|---|---|---|
| Time log entity and use cases (`src/domain/entities/time_log.py`, `src/application/use_cases/timelogs`) | one row per log: hours, timer, approval status, link to a timesheet | create; start, pause, resume, stop a timer; edit; approve, reject one log | an approval is never forgotten and is only taken back where the code says so; a day holds at most 24 hours |
| Timesheets (`.../timesheet.py`, `.../use_cases/timesheets`) | one row per timesheet: user, week, total, status | submit, approve, reject, each with a loop over logs | one timesheet per user and week; an approved one is final; its decision reaches its logs; its total is that of its logs |
| Repositories, unit of work (`src/infrastructure/database`) | PostgreSQL; one transaction per request | load, merge-based update, commit, rollback | requests in flight together do not destroy each other's decisions; every request ends |
| Event publisher (`.../redis_event_publisher.py`) | none | publish on Redis Pub/Sub, best effort | what was committed is announced or known to be lost |
| Billing service (`services/billing-service`) | SQLite: line items, invoices | upsert, AI guardrail, manual approval, invoice generation, payment | billed items have an invoice; announcements are durable; flagged items wait for a review; full batches are billed |
| Event channel | Redis Pub/Sub: what is buffered for each connection | publish; deliver; close a connection whose buffer is full; subscribe again | a loop that was never cut off sees every event once, in order; a loop that was comes back |
| AI service (`services/ai-service`) | SQLite index of logs | analyse an announced log, publish an insight, index it | only logs with a published insight are indexed; every announced log is judged in the end |
| Reporting service (`services/reporting-service`) | SQLite: one fact per approved log, budgets | upsert a fact, enrich it, mark it paid; set a budget; ten reports | reports agree with each other; judgements mean what they say; a payment is booked once |
| Notification, search services | SQLite rows; a Meilisearch index | one row or document per event | nothing is missed by a loop that was never cut off |
| Projects, list cache (`.../use_cases/projects`, `redis_cache.py`) | rows; a cached page for 60 s | create, update, delete, list | a stale list has a cause and an end |
| Tasks, users, authentication | rows; tokens | lifecycle; register, log in | legal transitions; one account per address |
| Rate limiter, audit (`src/infrastructure/middleware`) | a counter per identity in Redis; audit rows | count, refuse; record in a task of its own | no identity is blocked for good; every change is recorded |
| Web client (`apps/web`) | page state | calls the API | - |

They interact through two channels. Requests to the backend run concurrently on
one asyncio loop and meet in the database; every `await` of a statement lets
others run, and entities are plain copies that `update()` merges back without a
version. Everything after a commit goes through Redis Pub/Sub on the channel
`events`, which keeps nothing for an absent subscriber. In the billing service a
subscriber thread, the HTTP thread pool and the event loop share one SQLite
connection, hence one transaction.

Hard, therefore: stale copies, row locks taken in different orders, cascades of
which one step fails, publication after the commit, crashes between the two,
selections used after a slow call, and legal calls in an order nobody tested.
`PROJECT.json` lists each hazard at its line.

## Modules

- **`TimeLogEntity`**: the two entities as rows and pure functions on rows.
  `CanX` is the condition under which method `x` does not raise, `X` what it
  leaves. Hours are integers, hundredths of an hour; `RoundedHours` is
  `round(seconds / 3600, 2)`, and allows either neighbour on an exact tie.
- **`TimesheetWorkflow`**: the use cases as transactions. `log`, `sheet` and
  `total` are the tables; `owed` holds the logs whose `TimeLogApproved` a
  committed request has still to publish, `seen` and `lost` what became of
  them. One action per use case. A request that raises is rolled back and
  leaves no trace, so it is the stuttering step. `Page` is `list_by_user` with
  its limit, newest dates first.
- **`TimesheetRequests`**: the same use cases statement by statement, for
  several requests at once. `req[w]` is where request `w` stands, `mine[w]` its
  uncommitted rows, which are the locks it holds. `Merge` is the SELECT of
  `session.merge`, `Write` the UPDATE of the columns that differed from it,
  applied to the row as it is once the lock is granted (READ COMMITTED).
  `CascadeRaises`, `DeadlockVictim` and `ServerCrash` roll back. Its property
  `Sequential` is the specification of `TimesheetWorkflow` under a refinement
  mapping: `total` is a column of the rows here, and `owed` is what requests
  past their commit have left to publish.
- **`Billing`**: the billing service for one tenant, one action per statement
  that another thread can tell apart. `items` and `invoices` are the tables as
  the connection sees them, `disk` as of the last commit, by whichever thread;
  `run[th]` is what a thread does next. `Crash` returns to `disk`. The service
  is taken by its own interface: that its events are published is not assumed
  of the backend, and today the backend does not publish `TimeLogCreated` and
  `TimerStopped`.
- **`ReportingFacts`**: the three statements of the reporting service on its
  fact table (`Upserted`, `Enriched`, `MarkedPaid`) as functions on tables,
  shared by the next two.
- **`EventPipeline`**: the channel, the publishers and all six loops on it: AI,
  billing, reporting, notification, search, and the backend's own insight
  listener. `inbox[s]` is what Redis has buffered for loop `s`; `Publish` hands
  an event to the loops that are subscribed and watch its type, and cuts off one
  whose buffer is full. `Disconnect` stands for whatever ends a loop's
  connection, an exception in a handler included: it costs the loop its buffer
  and, until `Reconnect`, everything published. Each handler is one action;
  billing is taken here a handler at a time, `Billing` has its statements. The
  AI service publishes before it indexes, so `Analyse` and `IndexTimeEntry` are
  two. `LoadCopy` and `MergeCopy` are what an edit in the backend does to the AI
  columns while the listener writes them.
- **`Reporting`**: the reporting service alone, with what its facts say of a log
  (user, project, date, hours, cost, billable). The handlers change the tables;
  the reports are operators on them, from sums over sets of logs up to the
  regression of the forecast. Hours are whole hundredths, the unit in which the
  backend sends them. Averages and percentages are compared by multiplying out,
  so nothing is rounded that the code does not round; the code computes with
  doubles and may decide otherwise where a bar is met exactly. What `ORDER BY`
  and `LIMIT` return where rows are equal is left open (`Limited`): the top
  projects and the oldest scores are any of the sets they allow. `reapproved`
  holds the logs that were approved again after their payment.
- **`ProjectRequests`**: requests about projects, from the rate limiter through
  the list cache and the database to the audit task, one action per Redis
  command or SQL statement. `row` is the status of each project, `cache` the
  cached page, `count` and `expires` the limiter's key, `req[w]` a request.
  `unsettled` says that the cached page was out of date when it was stored, or
  that its invalidation failed.
- **`MC...`**: constants for TLC. **`TimesheetWorkflowProofs`**,
  **`TimesheetRequestsProofs`**, **`BillingProofs`**, **`ProjectRequestsProofs`**,
  **`EventPipelineProofs`**, **`ReportingProofs`**: the theorems, one module per
  module they are about. **`TimesheetClientsProofs`** continues the second with
  what rests on how clients behave: that requests come one at a time, that
  recording runs alone, or that clients otherwise only decide.
  **`FiniteSums`** proves what the others need to know of sums over finite sets.

What one module takes from another: `TimesheetRequests` implements
`TimesheetWorkflow` (run `sequential`, theorem `SequentialHolds`); `owed`, `seen` and `lost` there are the
`PublishApproved` of `EventPipeline`, which has a publication happen or not;
`Reporting` and `EventPipeline` share the fact table; `EventPipeline` contains
`Billing` with each handler taken whole.

Operators named as variants "with a fault" change one definition the way a bug
would. They are used by no specification; they show that each property notices.

## Runs

| Run | Shows |
|---|---|
| `any_weeks` | Whatever pair of dates clients submit: one timesheet per user and week, sound links, decided timesheets have decided logs, approvals accounted for, approved timesheets final, approvals lost only by a stopped timer or a submission. 2 users, 2 timesheets, 2 dates, 1 log. |
| `web_weeks` | For disjoint weeks: an approved timesheet keeps its logs, and a submitted total is the total of the linked logs. 2 logs, 2 timesheets, 2 dates. |
| `race` | Two decisions at once: a non-empty approved timesheet stays approved, nothing is left pending under a decided one, decisions never deadlock. 2 requests, 2 logs, 1 timesheet; `create` and `submit` run alone. |
| `overlap` | Two submissions, creations and approvals of timesheets at once: links, accounting, and every request ends. 2 requests, 2 logs, 2 timesheets. |
| `sequential` | One request at a time, all use cases: the statements implement the transactions. |
| `billing` | Three threads and one crash: billed items have their invoice, in memory and on disk; announcements are durable; a full batch has a thread that will bill it. 2 items, 2 invoices, batches of 2. |
| `pipeline` | The backend and the five services on the channel, with buffers that overflow and an interruption: a loop that was never cut off finds the item of every insight and, once it has drained its buffer, holds the latest approval of every log and one notification per event; only announced insights are indexed; the pipeline comes to rest with every loop connected; an announced log has its judgement in the end. 1 log, 2 requests to the backend. |
| `reports` | Approvals, insights, payments and budgets in any order: all breakdowns add up to the summary, and the top projects have their share of it; "critical" needs overtime; quality hardly counts in the delivery risk; the regression is that of least squares, and rises only if some two weeks do; a margin needs a log that was approved again, for less, after it was paid; payments are booked once. 3 logs, 2 users, 2 projects, 3 weeks, 4 events. |
| `requests` | Two requests at once, three in all, one fault: a stale list has a cause and an end, no identity stays blocked, every committed change is audited. |
| `approval_gate` | Violated: an approval "triggers AI + Billing". No loop of either watches approvals. |
| `cascade` | Violated: "approve all linked time logs". A log approved on its own makes the cascade raise for ever. |
| `flagged_race` | Violated: "Pending Review (not auto-billed)". An item flagged between the SELECT and the UPDATE of an invoice is billed. |

The last three are the findings of `PROJECT.json`, with the lines they quote.

### Bounds

A violation of the workflow's properties needs one log moving between two
timesheets, or two logs of one timesheet with different histories, so two of
each are enough; a second user shows that submissions do not mix users. Dates
are compared only, so two of them give every order. `DayCap`, `MaxSeconds` and
`SecondsPerUnit` are scaled down: 24 h becomes one or two units, and a second is
half a unit so that ties occur. `PageLimit` is 50 in the code and 1 or 2 here,
so that a page does and does not fill. Two requests are the least that race, and
the deadlock, overwrite and stale-copy behaviours are all between pairs. In
`race`, submissions and creations run alone (`Solo`), which keeps the run to its
question. Batches of 2 in `billing` are the smallest with something to interleave;
the code's 3 differs in nothing the actions test. `MaxCrashes` is 1.

`pipeline` has one log, since no handler relates two, and two requests, so that
a log is announced twice, or announced and approved, or approved twice. Buffers
of two events overflow in it: two events published by the backend and an insight
in between are three. `Words` has one description on each side of the quality
threshold. `Announcing` has one of the two event types that are handled alike,
`OtherEvents` one of those that only make a notification or a document.
`Fragile` limits interruptions from outside to the AI loop, which has the state
between its two statements to lose; the others are cut off by overflow. The
proofs have none of these bounds.

`reports` needs three weeks and a user and a project with two of them for the
regression and the averages; `ThreeWeeks` has a short and a long day, a free and
a billable one, a paid week that costs little, and a week that is longer by 0.05 h,
which is no trend. `Recent` and `Top`, ten in the code, are 1, so that scores and
projects are left out. In `requests`, one project and two requests are
the least that race on one page, the third finds what they left in the cache,
and `Limit` is 2, so that the third is also refused. `MaxFaults` is 1: a Redis
error, a failed audit row or a crash.

`CHECK_DEADLOCK FALSE` is set where the system really may rest: in `race` and
`overlap` once every row is decided and every further request is refused, in
`billing` once the invoice identifiers of the instance are used up, in
`pipeline`, `approval_gate`, `reports` and `requests` once the bound on
requests or events is used up and everything has been handled.

### Fairness

- `overlap`, for `RequestsEnd`. The event loop resumes a request whose statement
  is done (weak fairness of `Step`); PostgreSQL grants a row lock in the order
  of the queue, so a waiting UPDATE that can proceed again and again does
  (strong fairness of `Write`); and its deadlock detector breaks every cycle
  (weak fairness of `DeadlockVictim`).
- `pipeline`, for `ComesToRest` and `JudgedInTheEnd`. Every loop is a thread, or
  an asyncio task, of its own, so each handler has weak fairness of its own; the
  `except` clauses sleep three seconds and connect again, so each `Reconnect`
  has too.
- `requests`, for `FreshInTheEnd`, `BlockEnds` and `AuditedInTheEnd`. The event
  loop resumes every coroutine and every task; Redis removes a key whose time to
  live is over.

Nothing is assumed about the arrival of requests, interruptions, faults,
failures or crashes, nor that anyone approves a flagged item or pays an invoice.

## Proofs

`TimesheetWorkflowProofs` proves, for any sets of users, logs, timesheets and
dates and any page limit, from the named assumptions of `TimeLogEntity` and
`TimesheetWorkflow` alone:

- `TypeCorrect`: `TypeOK`, from the effect of each action on the row it touches
  (`LogStepEffect`, `SheetStepType`).
- `OneSheetPerWeekHolds`, `LinksAreSoundHolds`, `DecisionsSettleLogsHolds`,
  `ApprovalsAccountedForHolds`: their conjunction with `TypeOK` is the inductive
  invariant `Inv`. They are proved together because each needs another: that a
  decision settles every linked log rests on a link leading to an existing
  timesheet, that a submission does not disturb another timesheet's logs on
  the lookup finding the only one. `InvStep` has one lemma per kind of step.
- `ApprovedSheetIsFinalHolds` and `ApprovalLostOnlyByHolds`, action properties,
  from `TypeOK` and `Inv`.
- `ApprovedSheetKeepsLogsHolds`, under `NonOverlapping`: two ranges that clients
  submit share no date unless they are the same range. It needs a further
  invariant, that a linked log lies within its timesheet's week, which only
  such clients keep.
- `SubmittedTotalCoversLogsHolds`, under `NonOverlapping`, `NoEmptyWeek` (no
  submitted range ends before it starts) and no more logs than fill a page. The
  range of a week then has all logs linked to its timesheet, and its page the
  whole range. The property fails without each of the three, and the code
  enforces none of them: the first two are the web client's, the third is data.

`TimesheetRequestsProofs` proves, for any number of requests in flight, any logs,
timesheets, users, dates, weeks and page limit, any mixture of use cases, any
`Solo`, crashes, lost events and deadlock victims:

- `ApprovalsAccountedForHolds`. The property speaks of committed rows and of what
  requests have left to publish; a copy loaded long ago may still write an
  approval. The invariant therefore says what a request relies on at each place
  (`Fits`): `Shaped` that it has its fields, `Copied` that what it copied exists
  and that its UPDATE leaves a row of the table whatever row it meets
  (`Patches`), `Owing` that a cascade owes the announcement of every log it is
  still to approve, `Announcing` that an approval about to be written is
  announced, owed or lost already, be it by someone else. `Holds` says the last
  of the uncommitted rows. Rows and announcements only ever gain
  (`StillAccounted`), so other requests are undisturbed (`OthersFit`), and
  `Moves` reduces each action to the one request it moves.
- `NoDanglingLinkHolds` and `TypeCorrect`. A link is written column by column
  from a copy that may be stale, so `LinksOK` says of every copy, patch and
  uncommitted row that the link in it leads to a timesheet of the log's user
  that starts no later than the log's date, and that is committed or inserted by
  the same request (`Backed`, in `RowsBacked` and `LogCopy`). A stale link stays
  sound because owner and date of a log and owner and start of a timesheet never
  change and no row is deleted; nor does any copy differ from the table in these
  columns (`SameLog`, `SameSheet`). `Apart` says that two transactions share no
  row and never insert the same one.

`TimesheetClientsProofs` proves, from the same assumptions and one about clients:

- `SequentialHolds`, under `OneAtATime` (every use case runs alone, or there is
  one worker): `TimesheetRequests` implements `TimesheetWorkflow`. While a
  request is alone nothing is committed under it, so what it has written, the
  UPDATE it waits for and the rows it has yet to write make up its transaction
  on the committed tables (`Intact`, one part per kind of use case; `Batch` for
  the loops). Its commit is then the action of that use case (`CommitAlone`),
  each publication and the crash an action of their own, and every other
  statement and rollback a stutter.
- `NeverDeadlockedHolds`, under `RecordingAlone`: where clients create, start and
  submit while no other request is in flight (the `Solo` of run `race`),
  decisions and edits never wait in a circle. `LocksOK` says that an edit takes one lock on one log, and waits
  for it with none; that a cascade locks its timesheet first and then only logs
  linked to it; and that no row is locked twice. In a circle every request both
  holds and waits, so it is of cascades past their timesheets, all waiting for
  logs; the log that one waits for and the next holds is linked to the timesheets
  of both, which is one timesheet that both have locked (`NoCycle`). The links
  stay as they are because only submissions change them. Without
  `RecordingAlone` the argument fails at that point.
- `NothingLeftPendingHolds` and `ApprovalStandsHolds`, under `OnlyDecisions`,
  which is `RecordingAlone` and that every other request approves or rejects a
  log or a timesheet (the clients of run `race`). `Standing` adds to the locks
  what the values are: every copy, patch and uncommitted log of a decision
  is decided (`Deciding`), so a log once decided stays so; past its list, every
  log linked to a cascade's timesheet is still to do, being written or written
  (`Covering`); a rejection that holds the lock of an approved timesheet listed
  logs that are all decided, so it can settle none and never commits
  (`TooLate`); a submission moves a timesheet out of its verdict and links logs
  to no other (`Submits`). Edits and timers are excluded because they do break
  the first of these: an edit can write back the pending state it loaded.

`BillingProofs` proves, for any items, invoices, batch size, number of threads
and number of crashes, from the named assumptions of `Billing`:

- `BilledItemsKeepTheirInvoice` and `AnnouncementsSurvive`, and `TypeCorrect`.
  The tables alone do not carry the induction: a thread about to mark a batch
  must still find its invoice, and one about to publish must have its row on
  disk, after any statement, commit or crash of the others. `Sound` says what
  each thread relies on, `Grows` that rows are never deleted and payments never
  taken back, and `Inv` that the disk grows into the connection's tables and
  every thread is sound. `StaysSound` then deals with all other threads at once,
  and `StatementKeepsInv` with every action that is a single statement.
- `NoBatchIsStranded`. Ready items alone do not tell: a thread that has selected
  a batch and not marked it claims items that are still ready. `Attended` counts
  those that nobody claims (`Unclaimed`): while no thread is about to select,
  they are fewer than a batch. Whatever makes an item ready makes its thread
  select; a thread that marks gives up a claim on nothing that is still ready.
  It assumes that there are finitely many items (`ItemsAssumption`).

`EventPipelineProofs` proves, for any number of logs, requests, interruptions
and invoices, any buffer size and batch size:

- `TypeCorrect`, `InsightsFindTheirItem`, `ServicesCatchUp`,
  `IndexedAfterInsight`. `CaughtUp` speaks of an empty buffer, so it says
  nothing of a loop in the middle of its work; the invariant does. `Reported`
  and `Searched` say that what the table holds *followed by* what is buffered
  is the latest approval of each log (`Replays`), which appending to the buffer
  and handling its head both leave true. `Noted` counts in the same way,
  `Informed` says that before each insight in billing's buffer, and before each
  that the AI service has yet to give, comes the event that creates the item, in
  the buffer or in the table (`Follows`), and `Indexed` covers the step between
  publication and index. All of them end for a loop that is interrupted.
  `PublishEffect` deals with a publication once for every loop.

`ProjectRequestsProofs` proves, for any projects, requests in flight, faults and
any limit: `TypeCorrect`, `StaleListsAreExplained` and `CountersExpire`. The
invariant adds to the last two what each place of a request guarantees (`Fits`),
so that an update has a copy to write and a reader a page to store; both then
rest on one observation, that a commit and the creation of a counter leave their
own request at the place that repairs them.

`ReportingProofs` proves, for any finite sets of logs and projects and any
amounts, dates and events, all that run `reports` checks:

- `TypeCorrect` and `PaymentsAreKept`: one lemma per handler says that it leaves
  an existing fact existing and a paid one paid, with its amount.
- `MarginNeedsReapprovalHolds`: the invariant `BooksCost` says that a log paid
  and not approved again since is booked at its cost. If no log approved again
  after its payment costs less than was booked, the revenue of a project is at
  most its cost, term by term (`SumsCompare`).
- `ReportsAgreeHolds`: every breakdown is a partition of the same facts, so its
  sums add up to theirs (`SumByKey`), whatever the facts are. The list of top
  projects is no partition; of what it leaves out no project has more than any
  it has (`LargestHaveTheirShare`).
- `SlopeIsLeastSquaresHolds`: `n * sum(x y) - sum(x) * sum(y)` is the sum over
  all pairs of weeks of the product of their differences (`TriangleIdentity`, by
  induction on the weeks); the same for the denominator, which is positive from
  two weeks on. If no two weeks rise by more than a tenth of an hour for each
  week between, every such product is at most a tenth of the square, and so is
  the sum (`SlopeIsWithinThePairs`).
- `CriticalNeedsOvertimeHolds` and `RiskIsNonBillableShareHolds`, from the points
  that the scores can give at most.

`FiniteSums` is the lemmas that these and the submitted total rest on: what
`SumFunctionOnSet` is of the empty set, of a set with one element more, of a
union, of a set split by a key, and how two sums compare. It is a fold, and the induction theorems of the
library cannot be instantiated here; the lemmas argue by smallest counterexample
instead (`SmallestCounterexample`, from `WFMin`), which needs no operator for a
parameter.

Only model-checked: liveness (`RequestsEnd`, `ComesToRest`, `JudgedInTheEnd`,
`FreshInTheEnd`, `BlockEnds`, `AuditedInTheEnd`), which rests on fairness and
ENABLED and is out of the prover's reach. Every other property of a passing run
is a theorem.

The proofs assume of the constants what the named `ASSUME`s say, which TLC
evaluates in the runs: identifiers of logs and of timesheets differ, and there
are finitely many logs and projects (`IdsAssumption`, `LogsAssumption`,
`FiniteAssumption`); weeks are pairs of dates (`WeeksAssumption`); `None` is no
row (`RowAssumption`, `SheetRowAssumption`); pages, batches, buffers and lists
that are cut short are not empty. What they assume of clients is a hypothesis of the theorem and named above.

## Not modelled

- **Tasks**: a state machine of four statuses in the transaction shape of
  `ProjectRequests`, without a cache; nothing else depends on it.
- **Users, authentication, API keys**: token contents and hashing are
  cryptography. Registration is a check followed by an insert, the shape of two
  submissions of one week, which `TimesheetRequests` has.
- **Webhook delivery**: no use case calls it.
- **Web client**: pages render what the API returns. The models use one fact of
  it, that it submits weeks from Monday to Sunday.
- Of the modelled parts: texts, names, rates, response bodies and headers; read
  flags of notifications; the search query; anomalies, suggestions and parsing
  in the AI service, which read its index or are text analysis; CSV and PDF
  exports, which lay out the rows of the reports; the client a project belongs
  to. Hours are taken to be multiples of a hundredth. That the project of a log
  exists, which two use cases check, and that an event names its tenant and its
  user, which the notification service checks and every publisher sees to, are
  taken for granted. Commands to Redis that only fill in a header (the `TTL` of a
  refused request) are left out.

## Seen while modelling

What the code does that no run claims or denies:

- The limit of 24 hours a day is checked when a log is created and not when it
  is edited (`update_time_log.py:26`), and two creations at once both pass.
- A submission collects one page of logs (`submit_timesheet.py:35`): the 51st of
  a range is left out. `SubmittedTotalCoversLogs` is about the logs linked.
- Nothing requires that a submitted week ends after it starts. An empty range
  resubmitted stores a total of 0 over the logs still linked to its timesheet.
- An approved timesheet without logs can be overwritten by a rejection that
  loaded it earlier; `ApprovalStands` is about timesheets with logs.
- Two registrations of one address at once both succeed: `user_model.py:22`
  speaks of unique addresses, the table has no constraint.
- An update that races a deletion inserts the project again (`base.py:69`).
- Creating a project with a client fails: the unit of work has no `clients`.
- An insight that arrives before the approval is dropped by the reporting
  service; the message at `main.py:200` expects a later approval to make up for
  it, which carries no insight.
- Weekend hours: `main.py:1180` of the reporting service counts every entry as
  one of a Sunday; its delivery risk (`main.py:775`) takes quality for a number
  up to 5 where the AI service gives up to 100.
- The rate limiter is outside the audit middleware, unlike the comment at
  `app.py:121`: refused requests are not audited.

## Plan

1. An abstract specification of billing, a handler at a time as in
   `EventPipeline`, that `Billing` implements.
2. Registration, tasks, and the live timer of the web client, as far as they
   carry logic of their own.

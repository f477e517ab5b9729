--------------------------- MODULE EventPipeline ---------------------------
(***************************************************************************)
(* The Redis Pub/Sub channel "events" and the six loops that listen on it: *)
(* AI, billing, reporting, notification and search service and the         *)
(* insight listener of the backend, for one tenant.                        *)
(*                                                                         *)
(* Redis hands an event at once to every connection that is subscribed     *)
(* and keeps nothing for the others.  A loop handles its events in order.  *)
(* Whatever goes wrong in it, a lost connection or an exception in a       *)
(* handler, costs it the events already buffered and all those published   *)
(* until it has subscribed again.  An event that a loop ignores is left    *)
(* out of its buffer.                                                      *)
(***************************************************************************)
EXTENDS Integers, Sequences, FiniteSets, ReportingFacts

CONSTANTS
  Logs,
  Billable,      \* the logs that are billable
  Announcing,    \* types of the events that tell the services of a recorded log
  OtherEvents,   \* bound: types of the backend's other events
  Words,         \* bound: words in a description
  MaxEvents,     \* bound: requests to the backend
  MaxBuffer,     \* events buffered for a connection before Redis closes it
  Fragile,       \* bound: the loops that may be interrupted
  MaxDrops,      \* bound: interruptions of the loops
  BatchSize,     \* INVOICE_BATCH_SIZE
  MaxInvoices    \* bound: invoices

Subscribers == {"ai", "billing", "reporting", "notifier", "search", "listener"}

ASSUME BillableAssumption == Billable \subseteq Logs
ASSUME AnnouncingAssumption == Announcing \subseteq {"TimeLogCreated", "TimerStopped"}
ASSUME BufferAssumption == MaxBuffer \in Nat \ {0}
ASSUME BoundsAssumption == MaxEvents \in Nat /\ Words \subseteq Nat
ASSUME OtherAssumption ==
  OtherEvents \cap {"TimeLogCreated", "TimerStopped", "TimeLogApproved", "AIInsightGenerated",
                    "InvoiceGenerated", "InvoicePaid"} = {}

VARIABLES
  inbox,      \* the events buffered for each loop
  online,     \* the loops that are subscribed
  interrupted,\* the loops that were interrupted, ever
  drops,      \* number of interruptions
  sent,       \* number of requests the backend has served
  recorded,   \* the logs that were announced as recorded
  approved,   \* number of approvals published for each log
  insights,   \* the logs an insight was published for
  analysing,  \* the log the AI service is about to index
  entries,    \* time_entries of the AI service
  items,      \* status of the line item of each log
  invoices,   \* sequence of [lines, paid]
  facts,      \* time_facts of the reporting service
  docs,       \* index "timelogs" of the search service
  notes,      \* number of notifications
  told,       \* number of events published that call for a notification
  row,        \* ai_quality_score of each log in the backend
  copy,       \* the score in the copy of the row that an edit has loaded, if any
  overwritten \* the logs whose insight an edit has overwritten

channel == <<inbox, online, interrupted, drops>>
backend == <<sent, recorded, approved, row, copy, overwritten>>
services == <<insights, analysing, entries, items, invoices, facts, docs, notes>>
vars == <<channel, backend, services, told>>
-----------------------------------------------------------------------------
(* What each loop listens to, and what the notifier makes a note of.       *)

\* Variants with a fault: a loop does not listen to stopped timers.
OnlyCreated == {"TimeLogCreated"}
OnlyCreatedOrInsight == {"TimeLogCreated", "AIInsightGenerated"}

AIEvents == {"TimeLogCreated", "TimerStopped"}
BillingEvents == {"TimeLogCreated", "TimerStopped", "AIInsightGenerated"}
ReportingEvents == {"TimeLogApproved", "AIInsightGenerated", "InvoicePaid"}
SearchEvents == {"ProjectCreated", "TimeLogApproved", "InvoiceGenerated"}
ListenerEvents == {"AIInsightGenerated"}

\* The handlers of the others only write to the log.
NotifierEvents ==
  {"TimeLogCreated", "TimerStopped", "TimeLogApproved", "TimeLogRejected",
   "UserRegistered", "ProjectCreated", "TimesheetSubmitted", "TimesheetApproved",
   "TimesheetRejected", "InvoiceGenerated", "InvoicePaid"}

Watched(s) ==
  CASE s = "ai" -> AIEvents
    [] s = "billing" -> BillingEvents
    [] s = "reporting" -> ReportingEvents
    [] s = "search" -> SearchEvents
    [] s = "listener" -> ListenerEvents
    [] s = "notifier" -> NotifierEvents
-----------------------------------------------------------------------------
(* The channel.                                                            *)

Event(type, subject, content) == [type |-> type, subject |-> subject, content |-> content]

\* Variant with a fault: no event is left out.
EveryoneOnline(e) == online

Reached(e) == {s \in online : e.type \in Watched(s)}

(* Redis closes a connection whose buffer overflows.                       *)
Overflowing(box, e) == {s \in Reached(e) : Len(box[s]) = MaxBuffer}

(* Publishes e while the buffers are `box`.                                *)
Publish(box, e) ==
  /\ inbox' = [s \in Subscribers |->
       IF s \in Overflowing(box, e) THEN <<>>
       ELSE IF s \in Reached(e) THEN Append(box[s], e) ELSE box[s]]
  /\ online' = online \ Overflowing(box, e)
  /\ interrupted' = interrupted \cup Overflowing(box, e)
  /\ told' = IF e.type \in NotifierEvents THEN told + 1 ELSE told
  /\ UNCHANGED drops

Silent(box) ==
  /\ inbox' = box
  /\ UNCHANGED <<online, interrupted, drops, told>>

NextEvent(s) == Head(inbox[s])
Taken(s) == [inbox EXCEPT ![s] = Tail(@)]
Takes(s, types) == s \in online /\ inbox[s] # <<>> /\ NextEvent(s).type \in types

(* The `except` clauses of the loops: sleep 3 s, then connect anew.        *)
Disconnect(s) ==
  /\ drops < MaxDrops
  /\ s \in online \cap Fragile
  /\ drops' = drops + 1
  /\ online' = online \ {s}
  /\ interrupted' = interrupted \cup {s}
  /\ inbox' = [inbox EXCEPT ![s] = <<>>]
  /\ analysing' = IF s = "ai" THEN None ELSE analysing
  /\ UNCHANGED <<backend, insights, entries, items, invoices, facts, docs, notes, told>>

\* Variant with a fault: the loop ends with its first exception.
GivesUp(s) == s \notin online \cup interrupted /\ UNCHANGED vars

Reconnect(s) ==
  /\ s \notin online
  /\ online' = online \cup {s}
  /\ UNCHANGED <<inbox, interrupted, drops, backend, services, told>>
-----------------------------------------------------------------------------
(* The backend publishes, best effort: a publication that fails is one     *)
(* that does not happen.                                                   *)

Serves == sent < MaxEvents /\ sent' = sent + 1

(* TimeLogCreated or TimerStopped.                                         *)
Announce(type, l, words) ==
  /\ Serves
  /\ Publish(inbox, Event(type, l, words))
  /\ recorded' = recorded \cup {l}
  /\ UNCHANGED <<approved, row, copy, overwritten, services>>

(* The event carries the log as it is now; a log that was edited meanwhile *)
(* may be approved again, at another cost.                                 *)
Payload(l, n) == [cost |-> n, billable |-> l \in Billable]

PublishApproved(l) ==
  /\ Serves
  /\ approved' = [approved EXCEPT ![l] = @ + 1]
  /\ Publish(inbox, Event("TimeLogApproved", l, Payload(l, approved'[l])))
  /\ UNCHANGED <<recorded, row, copy, overwritten, services>>

PublishOther(type) ==
  /\ Serves
  /\ Publish(inbox, Event(type, None, None))
  /\ UNCHANGED <<recorded, approved, row, copy, overwritten, services>>

(* The AI columns in a use case that edits a log: a copy of the row, and   *)
(* its merge, which writes the columns that differ.                        *)
LoadCopy(l) ==
  /\ Serves
  /\ copy[l] = {}
  /\ copy' = [copy EXCEPT ![l] = {row[l]}]
  /\ UNCHANGED <<channel, recorded, approved, row, overwritten, services, told>>

MergeCopy(l) ==
  /\ copy[l] # {}
  /\ copy' = [copy EXCEPT ![l] = {}]
  /\ \E score \in copy[l] : row' = [row EXCEPT ![l] = score]
  /\ overwritten' = IF row' # row THEN overwritten \cup {l} ELSE overwritten
  /\ UNCHANGED <<channel, sent, recorded, approved, services, told>>

(* _ai_insight_listener: an UPDATE of the AI columns alone.                *)
Listen ==
  /\ Takes("listener", {"AIInsightGenerated"})
  /\ Silent(Taken("listener"))
  /\ LET e == NextEvent("listener") IN
     /\ row' = [row EXCEPT ![e.subject] = e.content]
     /\ overwritten' = overwritten \ {e.subject}
  /\ UNCHANGED <<sent, recorded, approved, copy, services>>
-----------------------------------------------------------------------------
(* The AI service: publishes its insight, then indexes the log.            *)

AtLeast(n, m) == IF n < m THEN m ELSE n
AtMost(n, m) == IF n > m THEN m ELSE n

(* analyse_description: quality_score.                                     *)
Quality(words) ==
  IF words = 0 THEN 0
  ELSE IF words < 5 THEN AtLeast(words * 15, 10)
  ELSE AtMost(50 + words * 5, 100)

\* Variant with a fault: an insight only for a description that is too brief.
AnalyseBrief ==
  /\ analysing = None
  /\ Takes("ai", AIEvents)
  /\ LET e == NextEvent("ai") IN
     /\ analysing' = e.subject
     /\ IF Quality(e.content) >= 40 THEN Silent(Taken("ai")) /\ UNCHANGED insights
        ELSE /\ Publish(Taken("ai"), Event("AIInsightGenerated", e.subject, Quality(e.content)))
             /\ insights' = insights \cup {e.subject}
  /\ UNCHANGED <<backend, entries, items, invoices, facts, docs, notes>>

Analyse ==
  /\ analysing = None
  /\ Takes("ai", AIEvents)
  /\ LET e == NextEvent("ai") IN
     /\ analysing' = e.subject
     /\ Publish(Taken("ai"), Event("AIInsightGenerated", e.subject, Quality(e.content)))
     /\ insights' = insights \cup {e.subject}
  /\ UNCHANGED <<backend, entries, items, invoices, facts, docs, notes>>

IndexTimeEntry ==
  /\ analysing # None
  /\ entries' = entries \cup {analysing}
  /\ analysing' = None
  /\ UNCHANGED <<channel, backend, told, insights, items, invoices, facts, docs, notes>>
-----------------------------------------------------------------------------
(* Billing, a handler at a time; module Billing has the statements.        *)

Threshold == 40
Judgement(l, score) ==
  IF l \notin Billable THEN "non_billable"
  ELSE IF score < Threshold THEN "pending_review" ELSE "ready_to_bill"

UpsertLineItem ==
  /\ Takes("billing", {"TimeLogCreated", "TimerStopped"})
  /\ Silent(Taken("billing"))
  /\ items' = [items EXCEPT ![NextEvent("billing").subject] = IF @ = None THEN "pending_ai" ELSE @]
  /\ UNCHANGED <<backend, insights, analysing, entries, invoices, facts, docs, notes>>

(* try_generate_invoice, on the line items `now` and the buffers `box`.    *)
TryGenerateInvoice(now, box) ==
  LET ready == {l \in Logs : now[l] = "ready_to_bill"} IN
  IF Cardinality(ready) < BatchSize \/ Len(invoices) = MaxInvoices
  THEN items' = now /\ invoices' = invoices /\ Silent(box)
  ELSE /\ items' = [l \in Logs |-> IF l \in ready THEN "invoiced" ELSE now[l]]
       /\ invoices' = Append(invoices, [lines |-> ready, paid |-> FALSE])
       /\ \/ Publish(box, Event("InvoiceGenerated", Len(invoices'), None))
          \/ Silent(box)

ApplyGuardrail ==
  /\ Takes("billing", {"AIInsightGenerated"})
  /\ LET l == NextEvent("billing").subject
         judged == Judgement(l, NextEvent("billing").content) IN
     IF items[l] # None /\ judged = "ready_to_bill"
     THEN TryGenerateInvoice([items EXCEPT ![l] = judged], Taken("billing"))
     ELSE /\ items' = IF items[l] = None THEN items ELSE [items EXCEPT ![l] = judged]
          /\ Silent(Taken("billing"))
          /\ UNCHANGED invoices
  /\ UNCHANGED <<backend, insights, analysing, entries, facts, docs, notes>>

ApproveLineItem(l) ==
  /\ items[l] = "pending_review"
  /\ TryGenerateInvoice([items EXCEPT ![l] = "ready_to_bill"], inbox)
  /\ UNCHANGED <<backend, insights, analysing, entries, facts, docs, notes>>

PayInvoice(n) ==
  /\ ~invoices[n].paid
  /\ invoices' = [invoices EXCEPT ![n].paid = TRUE]
  /\ Publish(inbox, Event("InvoicePaid", n, None)) \/ Silent(inbox)
  /\ UNCHANGED <<backend, insights, analysing, entries, items, facts, docs, notes>>
-----------------------------------------------------------------------------
(* Reporting, search, notifications.                                       *)

Report ==
  /\ Takes("reporting", ReportingEvents)
  /\ Silent(Taken("reporting"))
  /\ LET e == NextEvent("reporting") IN
     facts' = CASE e.type = "TimeLogApproved" -> Upserted(facts, e.subject, e.content)
                [] e.type = "AIInsightGenerated" -> Enriched(facts, e.subject, e.content)
                [] e.type = "InvoicePaid" -> MarkedPaid(facts)
  /\ UNCHANGED <<backend, insights, analysing, entries, items, invoices, docs, notes>>

(* add_documents replaces the document with the same id.                   *)
Index ==
  /\ Takes("search", SearchEvents)
  /\ Silent(Taken("search"))
  /\ LET e == NextEvent("search") IN
     docs' = IF e.type = "TimeLogApproved" THEN [docs EXCEPT ![e.subject] = e.content] ELSE docs
  /\ UNCHANGED <<backend, insights, analysing, entries, items, invoices, facts, notes>>

(* The handlers skip an event without a tenant or a user; every event that *)
(* is published has both.                                                  *)
InsertNotification ==
  /\ Takes("notifier", NotifierEvents)
  /\ Silent(Taken("notifier"))
  /\ notes' = notes + 1
  /\ UNCHANGED <<backend, insights, analysing, entries, items, invoices, facts, docs>>
-----------------------------------------------------------------------------
Init ==
  /\ inbox = [s \in Subscribers |-> <<>>]
  /\ online = Subscribers
  /\ interrupted = {} /\ drops = 0
  /\ sent = 0 /\ recorded = {} /\ approved = [l \in Logs |-> 0]
  /\ row = [l \in Logs |-> None] /\ copy = [l \in Logs |-> {}] /\ overwritten = {}
  /\ insights = {} /\ analysing = None /\ entries = {}
  /\ items = [l \in Logs |-> None] /\ invoices = <<>>
  /\ facts = [l \in Logs |-> None]
  /\ docs = [l \in Logs |-> None]
  /\ notes = 0 /\ told = 0

Handle == \/ Listen \/ Analyse \/ IndexTimeEntry \/ UpsertLineItem \/ ApplyGuardrail
          \/ Report \/ Index \/ InsertNotification

Next ==
  \/ \E l \in Logs :
       \/ \E type \in Announcing, words \in Words : Announce(type, l, words)
       \/ PublishApproved(l) \/ LoadCopy(l) \/ MergeCopy(l) \/ ApproveLineItem(l)
  \/ \E type \in OtherEvents : PublishOther(type)
  \/ \E n \in 1..Len(invoices) : PayInvoice(n)
  \/ Handle
  \/ \E s \in Subscribers : Disconnect(s) \/ Reconnect(s)

(* Every loop is a thread, or a task, of its own and connects again after  *)
(* 3 s whatever has gone wrong.                                            *)
Fairness ==
  /\ WF_vars(Listen) /\ WF_vars(Analyse) /\ WF_vars(IndexTimeEntry)
  /\ WF_vars(UpsertLineItem \/ ApplyGuardrail)
  /\ WF_vars(Report) /\ WF_vars(Index) /\ WF_vars(InsertNotification)
  /\ \A s \in Subscribers : WF_vars(Reconnect(s))

Spec == Init /\ [][Next]_vars
FairSpec == Spec /\ Fairness
-----------------------------------------------------------------------------
(* Properties.                                                             *)

Scores == {Quality(words) : words \in Words}
Said == [cost : 1..MaxEvents, billable : BOOLEAN]
Fact == [log : Said, insight : Scores \cup {None}, paid : BOOLEAN, amount : 0..MaxEvents]
Statuses == {"pending_ai", "pending_review", "ready_to_bill", "non_billable", "invoiced"}

ASSUME NoneAssumption == None \notin Logs \cup Said \cup Fact \cup Statuses

\* Tables have the shape the services give them, and buffers hold only what
\* their loop listens to.
TypeOK ==
  /\ \A s \in Subscribers : \A i \in 1..Len(inbox[s]) : inbox[s][i].type \in Watched(s)
  /\ interrupted \subseteq Subscribers /\ Subscribers \ interrupted \subseteq online
  /\ recorded \cup insights \cup entries \cup overwritten \subseteq Logs
  /\ \A l \in Logs :
       /\ row[l] \in Scores \cup {None} /\ copy[l] \subseteq Scores \cup {None}
       /\ items[l] \in Statuses \cup {None}
       /\ docs[l] \in Said \cup {None} /\ facts[l] \in Fact \cup {None}

\* An insight never overtakes the log it is about: at a billing service that
\* was never interrupted it finds the line item, for the AI service hears of
\* the log no earlier than billing does.
InsightFindsItem ==
  "billing" \notin interrupted =>
    \A i \in 1..Len(inbox["billing"]) :
      inbox["billing"][i].type = "AIInsightGenerated" =>
        LET l == inbox["billing"][i].subject IN
        \/ items[l] # None
        \/ \E j \in 1..(i - 1) : /\ inbox["billing"][j].type # "AIInsightGenerated"
                                 /\ inbox["billing"][j].subject = l

\* Services that were not interrupted and have nothing left to do agree with
\* the backend and with each other: the fact and the search document hold the
\* latest approval of each log, and every event that calls for a notification
\* has exactly one.
Drained(s) == s \notin interrupted /\ inbox[s] = <<>>
CaughtUp ==
  /\ \A l \in Logs : approved[l] > 0 =>
       /\ Drained("reporting") => facts[l] # None /\ facts[l].log = Payload(l, approved[l])
       /\ Drained("search") => docs[l] = Payload(l, approved[l])
  /\ Drained("notifier") => notes = told

\* A log that the AI service compares others with was analysed and announced
\* before, whenever the loop was interrupted.
IndexedWasAnalysed == entries \subseteq insights

\* The services answer each other's events on one channel and yet come to
\* rest, with every loop connected, once the backend is quiet.
ComesToRest ==
  <>[](online = Subscribers /\ analysing = None /\ \A s \in Subscribers : inbox[s] = <<>>)

\* If no loop is interrupted, a log that was announced is judged by billing
\* and its score reaches the backend, unless an edit writes it over.
JudgedInTheEnd ==
  [](interrupted = {}) =>
    \A l \in Logs : l \in recorded ~>
      /\ items[l] # None /\ items[l] # "pending_ai"
      /\ row[l] # None \/ l \in overwritten \/ copy[l] # {}

\* "Published when a manager approves a time log -- triggers AI + Billing".
ApprovalTriggersAI == \A l \in Logs : approved[l] > 0 ~> l \in insights
=============================================================================

------------------------------ MODULE Billing ------------------------------
(***************************************************************************)
(* The billing service (services/billing-service/main.py) for one tenant:  *)
(* line items, invoices and payments.                                      *)
(*                                                                         *)
(* A subscriber thread handles events while the thread pool of the HTTP    *)
(* API runs approvals and simulated payments and the event loop runs the   *)
(* Stripe webhook.  All of them use ONE SQLite connection: a statement of  *)
(* one thread is at once visible to the others, their statements form one  *)
(* transaction, and a commit() by any of them makes the statements of all  *)
(* durable.  Every action is one statement, or several of one thread that  *)
(* no other thread can tell from one; a crash returns to the last commit.  *)
(*                                                                         *)
(* Amounts are left out: no decision of the service depends on them.       *)
(***************************************************************************)
EXTENDS Integers, FiniteSets

CONSTANTS
  Items,        \* line items, one for each time log
  Invoices,     \* bound: invoice identifiers
  Pool,         \* bound: threads of the HTTP pool
  BatchSize,    \* INVOICE_BATCH_SIZE
  MaxCrashes,   \* bound: restarts of the service
  None

Subscriber == "subscriber"
EventLoop == "event loop"
Threads == Pool \cup {Subscriber, EventLoop}

ASSUME ItemsAssumption == IsFiniteSet(Items)
ASSUME BatchAssumption == BatchSize \in Nat \ {0}
ASSUME CrashAssumption == MaxCrashes \in Nat
ASSUME ThreadsAssumption == {Subscriber, EventLoop} \cap Pool = {}
ASSUME AbsenceAssumption == None \notin Invoices

VARIABLES
  items,      \* line_items, as the connection sees it
  invoices,   \* status of each invoice, as the connection sees it
  disk,       \* both, as of the last commit
  run,        \* what each thread is about to do
  generated,  \* invoices announced with InvoiceGenerated
  paid,       \* invoices announced with InvoicePaid
  crashes

vars == <<items, invoices, disk, run, generated, paid, crashes>>

ItemStatus ==
  {"pending_ai", "pending_review", "ready_to_bill", "non_billable", "invoiced"}
InvoiceStatus == {"draft", "unpaid", "paid"}
LineItem == [billable: BOOLEAN, status: ItemStatus, invoice: Invoices \cup {None}]

ASSUME RowAssumption == None \notin LineItem \cup InvoiceStatus

(* `next` is what a thread does after its commit.                          *)
Idle == [at |-> "idle", next |-> "idle", subject |-> None, batch |-> {}]
Doing(at, next, subject, batch) ==
  [at |-> at, next |-> next, subject |-> subject, batch |-> batch]

Goes(th, what) == run' = [run EXCEPT ![th] = what]

Tables == [items |-> items, invoices |-> invoices]
Ready == {i \in Items : items[i] # None /\ items[i].status = "ready_to_bill"}

NoTables == [items |-> [i \in Items |-> None], invoices |-> [n \in Invoices |-> None]]

Init ==
  /\ items = NoTables.items
  /\ invoices = NoTables.invoices
  /\ disk = NoTables
  /\ run = [th \in Threads |-> Idle]
  /\ generated = {}
  /\ paid = {}
  /\ crashes = 0
-----------------------------------------------------------------------------
(* Events.                                                                 *)

(* upsert_line_item: an update leaves the status alone.                    *)
Upsert(i, billable) ==
  /\ run[Subscriber] = Idle
  /\ items' = [items EXCEPT ![i] =
       IF @ = None THEN [billable |-> billable, status |-> "pending_ai", invoice |-> None]
                   ELSE [@ EXCEPT !.billable = billable]]
  /\ Goes(Subscriber, Doing("commit", "idle", None, {}))
  /\ UNCHANGED <<invoices, disk, generated, paid, crashes>>

Judged(item, low) ==
  IF ~item.billable THEN "non_billable"
  ELSE IF low THEN "pending_review" ELSE "ready_to_bill"

(* apply_ai_guardrail; `low` is quality_score < QUALITY_THRESHOLD.  An     *)
(* insight about an unknown time log is ignored.                           *)
ApplyGuardrail(i, low) ==
  /\ run[Subscriber] = Idle
  /\ items[i] # None
  /\ items' = [items EXCEPT ![i].status = Judged(items[i], low)]
  /\ Goes(Subscriber, Doing("commit", IF Judged(items[i], low) = "ready_to_bill"
                                      THEN "select" ELSE "idle", None, {}))
  /\ UNCHANGED <<invoices, disk, generated, paid, crashes>>
-----------------------------------------------------------------------------
(* approve_line_item: the check, then an UPDATE that does not repeat it.   *)

ApproveCheck(th, i) ==
  /\ run[th] = Idle
  /\ items[i] # None /\ items[i].status = "pending_review"
  /\ Goes(th, Doing("approve", "idle", i, {}))
  /\ UNCHANGED <<items, invoices, disk, generated, paid, crashes>>

\* Variants with a fault: leaves the billing to the next event; a status that
\* the other statements do not know.
ApprovesOnly(th) ==
  /\ run[th].at = "approve"
  /\ items' = [items EXCEPT ![run[th].subject].status = "ready_to_bill"]
  /\ Goes(th, Doing("commit", "idle", None, {}))
  /\ UNCHANGED <<invoices, disk, generated, paid, crashes>>
ApprovesOddly(th) ==
  /\ run[th].at = "approve"
  /\ items' = [items EXCEPT ![run[th].subject].status = "approved"]
  /\ Goes(th, Doing("commit", "select", None, {}))
  /\ UNCHANGED <<invoices, disk, generated, paid, crashes>>

ApproveLineItem(th) ==
  /\ run[th].at = "approve"
  /\ items' = [items EXCEPT ![run[th].subject].status = "ready_to_bill"]
  /\ Goes(th, Doing("commit", "select", None, {}))
  /\ UNCHANGED <<invoices, disk, generated, paid, crashes>>
-----------------------------------------------------------------------------
(* try_generate_invoice.                                                   *)

SelectReady(th) ==
  /\ run[th].at = "select"
  /\ Goes(th, IF Cardinality(Ready) < BatchSize THEN Idle
              ELSE Doing("insert", "idle", None, Ready))
  /\ UNCHANGED <<items, invoices, disk, generated, paid, crashes>>

\* Variant with a fault: the items are marked before their invoice exists.
MarksFirst(th, n) ==
  /\ run[th].at = "insert"
  /\ invoices[n] = None
  /\ items' = [i \in Items |->
       IF i \in run[th].batch THEN [items[i] EXCEPT !.status = "invoiced", !.invoice = n]
                              ELSE items[i]]
  /\ Goes(th, Doing("commit", "idle", None, {}))
  /\ UNCHANGED <<invoices, disk, generated, paid, crashes>>

(* Stripe gives a session, and the invoice awaits payment, or it does not. *)
CheckoutOutcomes == {"unpaid", "draft"}

(* The INSERT.  A uuid that a thread has drawn is nobody else's.           *)
InsertInvoice(th, n) ==
  /\ run[th].at = "insert"
  /\ invoices[n] = None
  /\ \E status \in CheckoutOutcomes : invoices' = [invoices EXCEPT ![n] = status]
  /\ Goes(th, Doing("mark", "idle", n, run[th].batch))
  /\ UNCHANGED <<items, disk, generated, paid, crashes>>

MarkItems(th) ==
  /\ run[th].at = "mark"
  /\ items' = [i \in Items |->
       IF i \in run[th].batch
       THEN [items[i] EXCEPT !.status = "invoiced", !.invoice = run[th].subject]
       ELSE items[i]]
  /\ Goes(th, Doing("commit", "generated", run[th].subject, {}))
  /\ UNCHANGED <<invoices, disk, generated, paid, crashes>>

(* The publication may raise; the caller logs that and goes on.            *)
PublishGenerated(th) ==
  /\ run[th].at = "generated"
  /\ generated' \in {generated, generated \cup {run[th].subject}}
  /\ Goes(th, Idle)
  /\ UNCHANGED <<items, invoices, disk, paid, crashes>>
-----------------------------------------------------------------------------
(* mark_invoice_paid, for the webhook and for a simulated payment.         *)

PayCheck(th, n) ==
  /\ run[th] = Idle
  /\ invoices[n] # None /\ invoices[n] # "paid"
  /\ Goes(th, Doing("pay", "idle", n, {}))
  /\ UNCHANGED <<items, invoices, disk, generated, paid, crashes>>

\* Variant with a fault: the event is published before the commit.
PayUncommitted(th) ==
  /\ run[th].at = "pay"
  /\ invoices' = [invoices EXCEPT ![run[th].subject] = "paid"]
  /\ Goes(th, Doing("paid", "idle", run[th].subject, {}))
  /\ UNCHANGED <<items, disk, generated, paid, crashes>>

Pay(th) ==
  /\ run[th].at = "pay"
  /\ invoices' = [invoices EXCEPT ![run[th].subject] = "paid"]
  /\ Goes(th, Doing("commit", "paid", run[th].subject, {}))
  /\ UNCHANGED <<items, disk, generated, paid, crashes>>

PublishPaid(th) ==
  /\ run[th].at = "paid"
  /\ paid' \in {paid, paid \cup {run[th].subject}}
  /\ Goes(th, Idle)
  /\ UNCHANGED <<items, invoices, disk, generated, crashes>>
-----------------------------------------------------------------------------
Commit(th) ==
  /\ run[th].at = "commit"
  /\ disk' = Tables
  /\ Goes(th, IF run[th].next = "idle" THEN Idle
              ELSE Doing(run[th].next, "idle", run[th].subject, {}))
  /\ UNCHANGED <<items, invoices, generated, paid, crashes>>

Crash ==
  /\ crashes < MaxCrashes
  /\ crashes' = crashes + 1
  /\ items' = disk.items
  /\ invoices' = disk.invoices
  /\ run' = [th \in Threads |-> Idle]
  /\ UNCHANGED <<disk, generated, paid>>

Handle(th) ==
  \/ ApproveLineItem(th) \/ SelectReady(th)
  \/ \E n \in Invoices : InsertInvoice(th, n)
  \/ MarkItems(th) \/ PublishGenerated(th)
  \/ Pay(th) \/ PublishPaid(th) \/ Commit(th)

Next ==
  \/ \E i \in Items, b \in BOOLEAN : Upsert(i, b) \/ ApplyGuardrail(i, b)
  \/ \E th \in Pool, i \in Items : ApproveCheck(th, i)
  \/ \E th \in Pool \cup {EventLoop}, n \in Invoices : PayCheck(th, n)
  \/ \E th \in Threads : Handle(th)
  \/ Crash

Spec == Init /\ [][Next]_vars
-----------------------------------------------------------------------------
(* Properties.                                                             *)

TablesOK(tables) ==
  /\ tables.items \in [Items -> LineItem \cup {None}]
  /\ tables.invoices \in [Invoices -> InvoiceStatus \cup {None}]

\* Tables and threads have the shape the service gives them.
TypeOK ==
  /\ TablesOK(Tables) /\ TablesOK(disk)
  /\ \A th \in Threads :
       /\ run[th].at \in {"idle", "commit", "approve", "select", "insert", "mark",
                          "generated", "pay", "paid"}
       /\ run[th].batch \subseteq Items
  /\ generated \subseteq Invoices /\ paid \subseteq Invoices

\* An item billed on an invoice names one that exists, now and after a crash,
\* although other threads commit halfway through the generation.
HasInvoice(tables) ==
  \A i \in Items : tables.items[i] # None =>
    /\ tables.items[i].status = "invoiced" => tables.items[i].invoice # None
    /\ tables.items[i].invoice # None => tables.invoices[tables.items[i].invoice] # None
BilledItemsHaveInvoice == HasInvoice(Tables) /\ HasInvoice(disk)

\* What the other services were told survives any crash: an invoice announced
\* as generated is on disk, one announced as paid is paid there.
AnnouncedIsDurable ==
  /\ \A n \in generated : disk.invoices[n] # None
  /\ \A n \in paid : disk.invoices[n] = "paid"

\* Unless the service crashed, a full batch of ready items has a thread that
\* is on its way to invoice it: no interleaving strands the batch.
WillInvoice(th) ==
  \/ run[th].at = "commit" /\ run[th].next = "select"
  \/ run[th].at \in {"select", "insert", "mark"}
NoBatchStranded ==
  crashes = 0 /\ Cardinality(Ready) >= BatchSize => \E th \in Threads : WillInvoice(th)

\* "quality_score < 40 -> Pending Review (not auto-billed)": an item pending
\* review is approved before it is invoiced.
PendingReviewNotBilled ==
  [][\A i \in Items :
       items[i] # None /\ items[i].status = "pending_review" =>
         items'[i] = None \/ items'[i].status # "invoiced"]_vars
=============================================================================

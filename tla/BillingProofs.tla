--------------------------- MODULE BillingProofs ---------------------------
(***************************************************************************)
(* Safety of Billing for any number of items, invoices and threads, any    *)
(* batch size and any number of crashes.                                   *)
(***************************************************************************)
EXTENDS Billing, FiniteSetTheorems, TLAPS

Places == {"idle", "commit", "approve", "select", "insert", "mark",
           "generated", "pay", "paid"}
Doings == [at: Places, next: {"idle", "select", "generated", "paid"},
           subject: Items \cup Invoices \cup {None}, batch: SUBSET Items]

IsOpen(t, n) == n \in Invoices /\ t.invoices[n] # None
IsPaid(t, n) == n \in Invoices /\ t.invoices[n] = "paid"

(* Rows are never deleted and a payment is never taken back.               *)
Grows(t, u) ==
  /\ \A i \in Items : t.items[i] # None => u.items[i] # None
  /\ \A n \in Invoices : (IsOpen(t, n) => IsOpen(u, n)) /\ (IsPaid(t, n) => IsPaid(u, n))

(* What a thread that is about to do w knows of the tables t of the        *)
(* connection and d of the disk, whatever the others do meanwhile: what it *)
(* has read or written still exists, what it has committed is on disk.     *)
Sound(w, t, d) ==
  /\ w \in Doings
  /\ w.at \in {"insert", "mark"} => \A i \in w.batch : t.items[i] # None
  /\ w.at = "approve" => w.subject \in Items /\ t.items[w.subject] # None
  /\ w.at \in {"mark", "pay"} => IsOpen(t, w.subject)
  /\ w.at = "commit" /\ w.next = "generated" => IsOpen(t, w.subject)
  /\ w.at = "commit" /\ w.next = "paid" => IsPaid(t, w.subject)
  /\ w.at = "generated" => IsOpen(d, w.subject)
  /\ w.at = "paid" => IsPaid(d, w.subject)

RunsSound ==
  /\ run \in [Threads -> Doings]
  /\ \A th \in Threads : Sound(run[th], Tables, disk)

AnnouncementsOK ==
  /\ \A n \in generated : IsOpen(disk, n)
  /\ \A n \in paid : IsPaid(disk, n)

(* The inductive invariant: the connection is never behind the disk.       *)
Inv ==
  /\ TablesOK(Tables) /\ TablesOK(disk)
  /\ HasInvoice(Tables) /\ HasInvoice(disk)
  /\ Grows(disk, Tables)
  /\ RunsSound
  /\ AnnouncementsOK
-----------------------------------------------------------------------------
(* None is no row and no status.                                           *)
LEMMA NoneIsNoRow ==
  /\ None \notin LineItem /\ None \notin InvoiceStatus /\ None \notin Invoices
  /\ None # "paid"
BY RowAssumption, AbsenceAssumption DEF InvoiceStatus

LEMMA GrowsTransitive ==
  ASSUME NEW t, NEW u, NEW v, Grows(t, u), Grows(u, v)
  PROVE  Grows(t, v)
BY DEF Grows

LEMMA GrowsReflexive == ASSUME NEW t PROVE Grows(t, t)
BY DEF Grows

LEMMA StaysSound ==
  ASSUME NEW w, NEW t, NEW d, NEW u, NEW e,
         Sound(w, t, d), Grows(t, u), Grows(d, e)
  PROVE  Sound(w, u, e)
<1>1. w \in Doings /\ (w.batch \subseteq Items)
  BY DEF Sound, Doings
<1>2. \A n : (IsOpen(t, n) => IsOpen(u, n)) /\ (IsPaid(t, n) => IsPaid(u, n))
  BY DEF Grows, IsOpen, IsPaid
<1>3. \A n : (IsOpen(d, n) => IsOpen(e, n)) /\ (IsPaid(d, n) => IsPaid(e, n))
  BY DEF Grows, IsOpen, IsPaid
<1>4. \A i \in Items : t.items[i] # None => u.items[i] # None
  BY DEF Grows
<1> QED
  BY <1>1, <1>2, <1>3, <1>4 DEF Sound

(* A thread that finishes what it is about knows nothing and needs nothing. *)
LEMMA IdleSound == ASSUME NEW t, NEW d PROVE Sound(Idle, t, d)
BY DEF Sound, Idle, Doings, Places

(* One thread moves on to w; the others still know what they knew.         *)
LEMMA RunsStaySound ==
  ASSUME RunsSound, NEW th \in Threads, NEW w, Goes(th, w),
         Grows(Tables, Tables'), Grows(disk, disk'), Sound(w, Tables', disk')
  PROVE  RunsSound'
<1>1. w \in Doings
  BY DEF Sound
<1>2. run' \in [Threads -> Doings]
  BY <1>1 DEF Goes, RunsSound
<1>3. ASSUME NEW other \in Threads PROVE Sound(run'[other], Tables', disk')
  <2>1. CASE other = th
    BY <2>1 DEF Goes, RunsSound
  <2>2. CASE other # th
    <3>1. run'[other] = run[other] /\ Sound(run[other], Tables, disk)
      BY <2>2 DEF Goes, RunsSound
    <3> QED
      BY <3>1, StaysSound
  <2> QED
    BY <2>1, <2>2
<1> QED
  BY <1>2, <1>3 DEF RunsSound

(* A statement of one thread, or a read: all but the commit, the           *)
(* publications and the crash.                                             *)
LEMMA StatementKeepsInv ==
  ASSUME Inv, NEW th \in Threads, NEW w, Goes(th, w),
         UNCHANGED <<disk, generated, paid>>,
         TablesOK(Tables'), HasInvoice(Tables'), Grows(Tables, Tables'),
         Sound(w, Tables', disk)
  PROVE  Inv'
<1>1. Grows(disk, disk') /\ Grows(disk', Tables')
  BY GrowsTransitive, GrowsReflexive DEF Inv
<1>2. RunsSound'
  BY <1>1, RunsStaySound DEF Inv
<1>3. AnnouncementsOK'
  BY DEF Inv, AnnouncementsOK
<1> QED
  BY <1>1, <1>2, <1>3 DEF Inv

LEMMA ReadKeepsInv ==
  ASSUME Inv, NEW th \in Threads, NEW w, Goes(th, w),
         UNCHANGED <<items, invoices, disk, generated, paid>>,
         Sound(w, Tables, disk)
  PROVE  Inv'
<1>1. Tables' = Tables
  BY DEF Tables
<1> QED
  BY <1>1, StatementKeepsInv, GrowsReflexive DEF Inv
-----------------------------------------------------------------------------
(* The tables as functions, and what the invariant says of a row.          *)
LEMMA Shapes ==
  ASSUME Inv
  PROVE  /\ items \in [Items -> LineItem \cup {None}]
         /\ invoices \in [Invoices -> InvoiceStatus \cup {None}]
         /\ \A i \in Items : items[i] # None =>
              /\ items[i] \in LineItem
              /\ items[i].status = "invoiced" => items[i].invoice # None
              /\ items[i].invoice # None => invoices[items[i].invoice] # None
<1>1. Tables.items = items /\ Tables.invoices = invoices
  BY DEF Tables
<1> QED
  BY <1>1 DEF Inv, TablesOK, HasInvoice

(* A statement that writes the rows of some line items: each row it writes *)
(* keeps the invoice it had, or gets one that exists.                      *)
RowOK(row) ==
  /\ row \in LineItem
  /\ row.status = "invoiced" => row.invoice # None
  /\ row.invoice # None => invoices[row.invoice] # None

LEMMA ItemsStatement ==
  ASSUME Inv, UNCHANGED invoices,
         items' \in [Items -> LineItem \cup {None}],
         \A i \in Items : items'[i] = items[i] \/ RowOK(items'[i])
  PROVE  TablesOK(Tables') /\ HasInvoice(Tables') /\ Grows(Tables, Tables')
<1>1. /\ Tables.items = items /\ Tables.invoices = invoices
      /\ Tables'.items = items' /\ Tables'.invoices = invoices
  BY DEF Tables
<1>2. TablesOK(Tables')
  BY <1>1, Shapes DEF TablesOK
<1>3. HasInvoice(Tables')
  BY <1>1, Shapes DEF HasInvoice, RowOK
<1>4. \A i \in Items : items[i] # None => items'[i] # None
  BY NoneIsNoRow DEF RowOK
<1>5. Grows(Tables, Tables')
  BY <1>1, <1>4 DEF Grows, IsOpen, IsPaid
<1> QED
  BY <1>2, <1>3, <1>5

(* A statement that writes the status of one invoice that is not paid, or  *)
(* makes it paid.                                                          *)
LEMMA InvoiceStatement ==
  ASSUME Inv, UNCHANGED items, NEW n \in Invoices, NEW status \in InvoiceStatus,
         invoices' = [invoices EXCEPT ![n] = status],
         invoices[n] = "paid" => status = "paid"
  PROVE  TablesOK(Tables') /\ HasInvoice(Tables') /\ Grows(Tables, Tables')
<1>1. /\ Tables.items = items /\ Tables.invoices = invoices
      /\ Tables'.items = items /\ Tables'.invoices = invoices'
  BY DEF Tables
<1>2. /\ invoices' \in [Invoices -> InvoiceStatus \cup {None}]
      /\ \A m \in Invoices : invoices'[m] = IF m = n THEN status ELSE invoices[m]
  BY Shapes
<1>3. status # None
  BY NoneIsNoRow
<1>4. TablesOK(Tables')
  BY <1>1, <1>2, Shapes DEF TablesOK
<1>5. \A m \in Invoices : invoices[m] # None => invoices'[m] # None
  BY <1>2, <1>3
<1>6. \A i \in Items : items[i] # None => items[i].invoice \in Invoices \cup {None}
  BY Shapes DEF LineItem
<1>7. HasInvoice(Tables')
  BY <1>1, <1>5, <1>6, Shapes DEF HasInvoice
<1>8. Grows(Tables, Tables')
  BY <1>1, <1>2, <1>5 DEF Grows, IsOpen, IsPaid
<1> QED
  BY <1>4, <1>7, <1>8

LEMMA UpsertKeepsInv ==
  ASSUME Inv, NEW i \in Items, NEW b \in BOOLEAN, Upsert(i, b)
  PROVE  Inv'
<1> DEFINE w == Doing("commit", "idle", None, {})
           new == [billable |-> b, status |-> "pending_ai", invoice |-> None]
           old == [items[i] EXCEPT !.billable = b]
<1>1. RowOK(new)
  BY DEF RowOK, LineItem, ItemStatus
<1>2. items[i] # None => RowOK(old)
  BY Shapes DEF RowOK, LineItem
<1>3. items' = [items EXCEPT ![i] = IF items[i] = None THEN new ELSE old]
  BY DEF Upsert
<1>4. \A j \in Items : items'[j] = items[j] \/ RowOK(items'[j])
  BY <1>1, <1>2, <1>3, Shapes
<1>5. items' \in [Items -> LineItem \cup {None}]
  BY <1>1, <1>2, <1>3, Shapes DEF RowOK
<1>6. TablesOK(Tables') /\ HasInvoice(Tables') /\ Grows(Tables, Tables')
  BY <1>4, <1>5, ItemsStatement DEF Upsert
<1>7. Sound(w, Tables', disk)
  BY DEF Sound, Doing, Doings, Places
<1> QED
  BY <1>6, <1>7, StatementKeepsInv DEF Upsert, Threads

LEMMA ApplyGuardrailKeepsInv ==
  ASSUME Inv, NEW i \in Items, NEW low \in BOOLEAN, ApplyGuardrail(i, low)
  PROVE  Inv'
<1> DEFINE judged == Judged(items[i], low)
           w == Doing("commit", IF judged = "ready_to_bill" THEN "select" ELSE "idle",
                      None, {})
           row == [items[i] EXCEPT !.status = judged]
<1>1. items[i] # None /\ items[i] \in LineItem
  BY Shapes DEF ApplyGuardrail
<1>2. judged \in ItemStatus \ {"invoiced"}
  BY DEF Judged, ItemStatus
<1>3. RowOK(row)
  BY <1>1, <1>2, Shapes DEF RowOK, LineItem
<1>4. items' = [items EXCEPT ![i] = row]
  BY DEF ApplyGuardrail
<1>5. /\ items' \in [Items -> LineItem \cup {None}]
      /\ \A j \in Items : items'[j] = items[j] \/ RowOK(items'[j])
  BY <1>3, <1>4, Shapes DEF RowOK
<1>6. TablesOK(Tables') /\ HasInvoice(Tables') /\ Grows(Tables, Tables')
  BY <1>5, ItemsStatement DEF ApplyGuardrail
<1>7. Sound(w, Tables', disk)
  BY DEF Sound, Doing, Doings, Places
<1> QED
  BY <1>6, <1>7, StatementKeepsInv DEF ApplyGuardrail, Threads

LEMMA ApproveCheckKeepsInv ==
  ASSUME Inv, NEW th \in Pool, NEW i \in Items, ApproveCheck(th, i)
  PROVE  Inv'
<1>1. Sound(Doing("approve", "idle", i, {}), Tables, disk)
  BY DEF ApproveCheck, Sound, Doing, Doings, Places, Tables
<1> QED
  BY <1>1, ReadKeepsInv DEF ApproveCheck, Threads

LEMMA PayCheckKeepsInv ==
  ASSUME Inv, NEW th \in Pool \cup {EventLoop}, NEW n \in Invoices, PayCheck(th, n)
  PROVE  Inv'
<1>1. Sound(Doing("pay", "idle", n, {}), Tables, disk)
  BY DEF PayCheck, Sound, Doing, Doings, Places, Tables, IsOpen
<1> QED
  BY <1>1, ReadKeepsInv DEF PayCheck, Threads

LEMMA ApproveLineItemKeepsInv ==
  ASSUME Inv, NEW th \in Threads, ApproveLineItem(th)
  PROVE  Inv'
<1> DEFINE i == run[th].subject
           w == Doing("commit", "select", None, {})
           row == [items[i] EXCEPT !.status = "ready_to_bill"]
<1>1. i \in Items /\ items[i] # None
  BY DEF ApproveLineItem, Inv, RunsSound, Sound, Tables
<1>2. RowOK(row)
  BY <1>1, Shapes DEF RowOK, LineItem, ItemStatus
<1>3. items' = [items EXCEPT ![i] = row]
  BY DEF ApproveLineItem
<1>4. /\ items' \in [Items -> LineItem \cup {None}]
      /\ \A j \in Items : items'[j] = items[j] \/ RowOK(items'[j])
  BY <1>1, <1>2, <1>3, Shapes DEF RowOK
<1>5. TablesOK(Tables') /\ HasInvoice(Tables') /\ Grows(Tables, Tables')
  BY <1>4, ItemsStatement DEF ApproveLineItem
<1>6. Sound(w, Tables', disk)
  BY DEF Sound, Doing, Doings, Places
<1> QED
  BY <1>5, <1>6, StatementKeepsInv DEF ApproveLineItem

LEMMA SelectReadyKeepsInv ==
  ASSUME Inv, NEW th \in Threads, SelectReady(th)
  PROVE  Inv'
<1>1. Sound(Doing("insert", "idle", None, Ready), Tables, disk)
  BY DEF Sound, Doing, Doings, Places, Tables, Ready
<1>2. CASE Cardinality(Ready) < BatchSize
  BY <1>2, IdleSound, ReadKeepsInv DEF SelectReady
<1>3. CASE ~(Cardinality(Ready) < BatchSize)
  BY <1>1, <1>3, ReadKeepsInv DEF SelectReady
<1> QED
  BY <1>2, <1>3

(* The batch that the thread selected still exists: no row was deleted.    *)
LEMMA InsertInvoiceKeepsInv ==
  ASSUME Inv, NEW th \in Threads, NEW n \in Invoices, InsertInvoice(th, n)
  PROVE  Inv'
<1> DEFINE w == Doing("mark", "idle", n, run[th].batch)
<1>1. PICK status \in CheckoutOutcomes : invoices' = [invoices EXCEPT ![n] = status]
  BY DEF InsertInvoice
<1>2. status \in InvoiceStatus /\ invoices[n] # "paid"
  BY NoneIsNoRow DEF CheckoutOutcomes, InvoiceStatus, InsertInvoice
<1>3. TablesOK(Tables') /\ HasInvoice(Tables') /\ Grows(Tables, Tables')
  BY <1>1, <1>2, InvoiceStatement DEF InsertInvoice
<1>4. /\ run[th].batch \subseteq Items
      /\ \A i \in run[th].batch : items[i] # None
  BY DEF InsertInvoice, Inv, RunsSound, Sound, Tables, Doings
<1>5. invoices'[n] # None
  BY <1>1, <1>2, NoneIsNoRow, Shapes
<1>6. Sound(w, Tables', disk)
  BY <1>4, <1>5 DEF Sound, Doing, Doings, Places, Tables, IsOpen, InsertInvoice
<1> QED
  BY <1>3, <1>6, StatementKeepsInv DEF InsertInvoice

(* The invoice was inserted before, and nobody can have deleted it.        *)
LEMMA MarkItemsKeepsInv ==
  ASSUME Inv, NEW th \in Threads, MarkItems(th)
  PROVE  Inv'
<1> DEFINE n == run[th].subject
           w == Doing("commit", "generated", n, {})
           Billed(i) == [items[i] EXCEPT !.status = "invoiced", !.invoice = n]
<1>1. /\ run[th] \in Doings /\ Sound(run[th], Tables, disk)
      /\ run[th].at = "mark"
  BY DEF MarkItems, Inv, RunsSound
<1>2. /\ run[th].batch \subseteq Items
      /\ \A i \in run[th].batch : items[i] # None
      /\ n \in Invoices /\ invoices[n] # None
  BY <1>1 DEF Sound, Doings, Tables, IsOpen
<1>3. n # None
  BY <1>2, NoneIsNoRow
<1>4. ASSUME NEW i \in run[th].batch PROVE RowOK(Billed(i))
  <2>1. items[i] \in LineItem
    BY <1>2, Shapes
  <2> QED
    BY <1>2, <1>3, <2>1 DEF RowOK, LineItem, ItemStatus
<1>5. items' = [i \in Items |-> IF i \in run[th].batch THEN Billed(i) ELSE items[i]]
  BY DEF MarkItems
<1>6. \A i \in Items : items'[i] = items[i] \/ RowOK(items'[i])
  BY <1>4, <1>5
<1>7. items' \in [Items -> LineItem \cup {None}]
  BY <1>4, <1>5, Shapes DEF RowOK
<1>8. TablesOK(Tables') /\ HasInvoice(Tables') /\ Grows(Tables, Tables')
  BY <1>6, <1>7, ItemsStatement DEF MarkItems
<1>9. Sound(w, Tables', disk)
  BY <1>2 DEF Sound, Doing, Doings, Places, Tables, IsOpen, MarkItems
<1> QED
  BY <1>8, <1>9, StatementKeepsInv DEF MarkItems

LEMMA PayKeepsInv ==
  ASSUME Inv, NEW th \in Threads, Pay(th)
  PROVE  Inv'
<1> DEFINE n == run[th].subject
           w == Doing("commit", "paid", n, {})
<1>1. n \in Invoices
  BY DEF Pay, Inv, RunsSound, Sound, IsOpen
<1>2. invoices' = [invoices EXCEPT ![n] = "paid"] /\ "paid" \in InvoiceStatus
  BY DEF Pay, InvoiceStatus
<1>3. TablesOK(Tables') /\ HasInvoice(Tables') /\ Grows(Tables, Tables')
  BY <1>1, <1>2, InvoiceStatement DEF Pay
<1>4. invoices'[n] = "paid"
  BY <1>1, <1>2, Shapes
<1>5. Sound(w, Tables', disk)
  BY <1>1, <1>4 DEF Sound, Doing, Doings, Places, Tables, IsPaid
<1> QED
  BY <1>3, <1>5, StatementKeepsInv DEF Pay
-----------------------------------------------------------------------------
(* The publications: only what is on disk is announced.                    *)
LEMMA PublishGeneratedKeepsInv ==
  ASSUME Inv, NEW th \in Threads, PublishGenerated(th)
  PROVE  Inv'
<1>1. IsOpen(disk, run[th].subject)
  BY DEF PublishGenerated, Inv, RunsSound, Sound
<1>2. AnnouncementsOK'
  BY <1>1 DEF PublishGenerated, Inv, AnnouncementsOK
<1>3. Tables' = Tables /\ disk' = disk
  BY DEF PublishGenerated, Tables
<1>4. RunsSound'
  BY <1>3, IdleSound, GrowsReflexive, RunsStaySound DEF PublishGenerated, Inv
<1> QED
  BY <1>2, <1>3, <1>4 DEF Inv

LEMMA PublishPaidKeepsInv ==
  ASSUME Inv, NEW th \in Threads, PublishPaid(th)
  PROVE  Inv'
<1>1. IsPaid(disk, run[th].subject)
  BY DEF PublishPaid, Inv, RunsSound, Sound
<1>2. AnnouncementsOK'
  BY <1>1 DEF PublishPaid, Inv, AnnouncementsOK
<1>3. Tables' = Tables /\ disk' = disk
  BY DEF PublishPaid, Tables
<1>4. RunsSound'
  BY <1>3, IdleSound, GrowsReflexive, RunsStaySound DEF PublishPaid, Inv
<1> QED
  BY <1>2, <1>3, <1>4 DEF Inv

(* A commit writes what any thread wrote: half an invoice generation is    *)
(* already consistent, and the other threads lose nothing by it.           *)
LEMMA CommitKeepsInv ==
  ASSUME Inv, NEW th \in Threads, Commit(th)
  PROVE  Inv'
<1> DEFINE w == IF run[th].next = "idle" THEN Idle
                ELSE Doing(run[th].next, "idle", run[th].subject, {})
<1>1. Tables' = Tables /\ disk' = Tables
  BY DEF Commit, Tables
<1>2. /\ run[th] \in Doings /\ Sound(run[th], Tables, disk)
      /\ run[th].at = "commit"
  BY DEF Commit, Inv, RunsSound
<1>3. Sound(w, Tables, Tables)
  <2>1. CASE run[th].next = "idle"
    BY <2>1, IdleSound
  <2>2. CASE run[th].next # "idle"
    BY <1>2, <2>2 DEF Sound, Doing, Doings, Places
  <2> QED
    BY <2>1, <2>2
<1>4. RunsSound'
  BY <1>1, <1>3, GrowsReflexive, RunsStaySound DEF Commit, Inv
<1>5. AnnouncementsOK'
  BY <1>1 DEF Commit, Inv, AnnouncementsOK, Grows, IsOpen, IsPaid
<1>6. Grows(disk', Tables')
  BY <1>1, GrowsReflexive
<1> QED
  BY <1>1, <1>4, <1>5, <1>6 DEF Inv

(* A restart finds the tables of the last commit, and no thread running.   *)
LEMMA CrashKeepsInv ==
  ASSUME Inv, Crash
  PROVE  Inv'
<1>1. Tables' = [items |-> disk.items, invoices |-> disk.invoices] /\ disk' = disk
  BY DEF Crash, Tables
<1>2. TablesOK(Tables') /\ HasInvoice(Tables')
  BY <1>1 DEF Inv, TablesOK, HasInvoice
<1>3. Grows(disk', Tables')
  BY <1>1 DEF Grows, IsOpen, IsPaid
<1>4. RunsSound'
  <2>1. run' = [th \in Threads |-> Idle]
    BY DEF Crash
  <2>2. Idle \in Doings
    BY DEF Idle, Doings, Places
  <2> QED
    BY <2>1, <2>2, IdleSound DEF RunsSound
<1>5. AnnouncementsOK'
  BY <1>1 DEF Crash, Inv, AnnouncementsOK
<1> QED
  BY <1>1, <1>2, <1>3, <1>4, <1>5 DEF Inv
-----------------------------------------------------------------------------
LEMMA InitInv == Init => Inv
<1> SUFFICES ASSUME Init PROVE Inv
  OBVIOUS
<1>1. Tables = NoTables /\ disk = NoTables
  BY DEF Init, Tables, NoTables
<1>2. TablesOK(NoTables) /\ HasInvoice(NoTables)
  BY DEF TablesOK, HasInvoice, NoTables
<1>3. RunsSound
  <2>1. run = [th \in Threads |-> Idle] /\ Idle \in Doings
    BY DEF Init, Idle, Doings, Places
  <2> QED
    BY <2>1, IdleSound DEF RunsSound
<1>4. AnnouncementsOK
  BY DEF Init, AnnouncementsOK
<1> QED
  BY <1>1, <1>2, <1>3, <1>4, GrowsReflexive DEF Inv

LEMMA NextInv == Inv /\ [Next]_vars => Inv'
<1> SUFFICES ASSUME Inv, [Next]_vars PROVE Inv'
  OBVIOUS
<1>1. ASSUME NEW i \in Items, NEW b \in BOOLEAN, Upsert(i, b) \/ ApplyGuardrail(i, b)
      PROVE  Inv'
  BY <1>1, UpsertKeepsInv, ApplyGuardrailKeepsInv
<1>2. ASSUME NEW th \in Pool, NEW i \in Items, ApproveCheck(th, i) PROVE Inv'
  BY <1>2, ApproveCheckKeepsInv
<1>3. ASSUME NEW th \in Pool \cup {EventLoop}, NEW n \in Invoices, PayCheck(th, n)
      PROVE  Inv'
  BY <1>3, PayCheckKeepsInv
<1>4. ASSUME NEW th \in Threads, Handle(th) PROVE Inv'
  <2>1. CASE \E n \in Invoices : InsertInvoice(th, n)
    BY <2>1, InsertInvoiceKeepsInv
  <2>2. CASE ApproveLineItem(th) \/ SelectReady(th) \/ MarkItems(th) \/ Pay(th)
    BY <2>2, ApproveLineItemKeepsInv, SelectReadyKeepsInv, MarkItemsKeepsInv, PayKeepsInv
  <2>3. CASE PublishGenerated(th) \/ PublishPaid(th) \/ Commit(th)
    BY <2>3, PublishGeneratedKeepsInv, PublishPaidKeepsInv, CommitKeepsInv
  <2> QED
    BY <1>4, <2>1, <2>2, <2>3 DEF Handle
<1>5. CASE Crash
  BY <1>5, CrashKeepsInv
<1>6. CASE UNCHANGED vars
  <2>1. UNCHANGED <<items, invoices, disk, run, generated, paid>>
    BY <1>6 DEF vars
  <2> QED
    BY <2>1 DEF Inv, RunsSound, AnnouncementsOK, Tables, IsOpen, IsPaid
<1> QED
  BY <1>1, <1>2, <1>3, <1>4, <1>5, <1>6 DEF Next

(* The invariant holds of every state the service reaches.                 *)
THEOREM Invariance == Spec => []Inv
<1> QED
  BY InitInv, NextInv, PTL DEF Spec

(* The tables and the threads always have the shape the service gives them. *)
THEOREM TypeCorrect == Spec => []TypeOK
<1>1. Inv => TypeOK
  <2> SUFFICES ASSUME Inv PROVE TypeOK
    OBVIOUS
  <2>1. \A th \in Threads : run[th] \in Doings
    BY DEF Inv, RunsSound
  <2>2. generated \subseteq Invoices /\ paid \subseteq Invoices
    BY DEF Inv, AnnouncementsOK, IsOpen, IsPaid
  <2> QED
    BY <2>1, <2>2 DEF Inv, TypeOK, Doings, Places
<1> QED
  BY <1>1, Invariance, PTL

(* A billed line item names an invoice that exists, for the connection and *)
(* on disk, wherever the threads' commits and the crashes fall.            *)
THEOREM BilledItemsKeepTheirInvoice == Spec => []BilledItemsHaveInvoice
<1>1. Inv => BilledItemsHaveInvoice
  BY DEF Inv, BilledItemsHaveInvoice
<1> QED
  BY <1>1, Invariance, PTL

(* What try_generate_invoice and mark_invoice_paid published is on disk:   *)
(* no crash takes back an announced invoice or an announced payment.       *)
THEOREM AnnouncementsSurvive == Spec => []AnnouncedIsDurable
<1>1. Inv => AnnouncedIsDurable
  BY DEF Inv, AnnouncementsOK, AnnouncedIsDurable, IsOpen, IsPaid
<1> QED
  BY <1>1, Invariance, PTL
-----------------------------------------------------------------------------
(* Batches.  An item is claimed by the threads that selected it and have   *)
(* not marked it yet.  A thread that will select finds every ready item;   *)
(* while there is none, fewer than a batch of ready items are unclaimed.   *)

WillSelect(w) == w.at = "select" \/ (w.at = "commit" /\ w.next = "select")
Claims(w) == IF w.at \in {"insert", "mark"} THEN w.batch ELSE {}
Unclaimed == {i \in Ready : \A th \in Threads : i \notin Claims(run[th])}

Attended ==
  /\ crashes \in Nat
  /\ crashes = 0 /\ (\A th \in Threads : ~WillSelect(run[th])) =>
       Cardinality(Unclaimed) < BatchSize

LEMMA FewerAreFew ==
  ASSUME NEW S \in SUBSET Items, NEW T \in SUBSET S, Cardinality(S) < BatchSize
  PROVE  Cardinality(T) < BatchSize
<1>1. IsFiniteSet(S) /\ IsFiniteSet(T)
  BY ItemsAssumption, FS_Subset
<1>2. Cardinality(T) <= Cardinality(S) /\ Cardinality(S) \in Nat /\ Cardinality(T) \in Nat
  BY <1>1, FS_Subset, FS_CardinalityType
<1> QED
  BY <1>2, BatchAssumption

(* One thread moves on.  Either it will select, or no item becomes ready   *)
(* and what it no longer claims is no longer ready.                        *)
LEMMA StaysAttended ==
  ASSUME Inv, Attended, NEW th \in Threads, NEW w, Goes(th, w), UNCHANGED crashes,
         \/ WillSelect(w)
         \/ ~WillSelect(run[th]) /\ Ready' \subseteq Ready \ (Claims(run[th]) \ Claims(w))
  PROVE  Attended'
<1>1. run'[th] = w /\ \A other \in Threads \ {th} : run'[other] = run[other]
  BY DEF Goes, Inv, RunsSound
<1>2. CASE WillSelect(w)
  BY <1>1, <1>2 DEF Attended
<1>3. CASE ~WillSelect(run[th]) /\ Ready' \subseteq Ready \ (Claims(run[th]) \ Claims(w))
  <2>1. Unclaimed' \subseteq Unclaimed
    BY <1>1, <1>3 DEF Unclaimed, Claims
  <2>2. (\A other \in Threads : ~WillSelect(run'[other])) =>
          \A other \in Threads : ~WillSelect(run[other])
    BY <1>1, <1>3
  <2>3. Unclaimed \subseteq Items
    BY DEF Unclaimed, Ready
  <2>4. Cardinality(Unclaimed) < BatchSize => Cardinality(Unclaimed') < BatchSize
    BY <2>1, <2>3, FewerAreFew
  <2>5. (\A other \in Threads : ~WillSelect(run[other]))' =>
          \A other \in Threads : ~WillSelect(run[other])
    BY <2>2 DEF WillSelect
  <2> QED
    BY <2>4, <2>5 DEF Attended
<1> QED
  BY <1>2, <1>3

(* The statement that found too few ready items leaves too few.            *)
LEMMA SelectReadyAttended ==
  ASSUME Inv, Attended, NEW th \in Threads, SelectReady(th)
  PROVE  Attended'
<1>1. Ready' = Ready /\ UNCHANGED crashes /\ run[th].at = "select"
  BY DEF SelectReady, Ready
<1>2. Ready \subseteq Items /\ Unclaimed' \subseteq Ready
  BY <1>1 DEF Unclaimed, Ready
<1>3. CASE Cardinality(Ready) < BatchSize
  BY <1>1, <1>2, <1>3, FewerAreFew DEF Attended
<1>4. CASE ~(Cardinality(Ready) < BatchSize)
  <2>1. run'[th] = Doing("insert", "idle", None, Ready)
    BY <1>4 DEF SelectReady, Goes, Inv, RunsSound
  <2>2. Unclaimed' = {}
    BY <1>1, <2>1 DEF Unclaimed, Claims, Doing
  <2>3. Cardinality(Unclaimed') < BatchSize
    BY <2>2, FS_EmptySet, BatchAssumption
  <2> QED
    BY <1>1, <2>3 DEF Attended
<1> QED
  BY <1>3, <1>4

(* Only a judgement and an approval make an item ready.                    *)
LEMMA ItemStatementAttended ==
  ASSUME Inv, Attended, NEW i \in Items
  PROVE  /\ \A b \in BOOLEAN : Upsert(i, b) \/ ApplyGuardrail(i, b) => Attended'
         /\ \A th \in Pool : ApproveCheck(th, i) => Attended'
<1>1. ASSUME NEW b \in BOOLEAN, Upsert(i, b) PROVE Attended'
  <2> DEFINE w == Doing("commit", "idle", None, {})
  <2>1. Goes(Subscriber, w) /\ UNCHANGED crashes /\ run[Subscriber] = Idle
    BY <1>1 DEF Upsert
  <2>2. Ready' \subseteq Ready
    <3> SUFFICES ASSUME NEW j \in Items, items'[j] # None, items'[j].status = "ready_to_bill"
                 PROVE  items[j] # None /\ items[j].status = "ready_to_bill"
      BY DEF Ready
    <3>1. CASE j = i /\ items[i] = None
      BY <1>1, <3>1, Shapes DEF Upsert
    <3>2. CASE j = i /\ items[i] # None
      <4>1. items[i] \in LineItem /\ items'[i] = [items[i] EXCEPT !.billable = b]
        BY <1>1, <3>2, Shapes DEF Upsert
      <4> QED
        BY <3>2, <4>1 DEF LineItem
    <3>3. CASE j # i
      BY <1>1, <3>3, Shapes DEF Upsert
    <3> QED
      BY <3>1, <3>2, <3>3
  <2>3. ~WillSelect(w) /\ ~WillSelect(Idle) /\ Claims(Idle) = {}
    BY DEF WillSelect, Claims, Doing, Idle
  <2> QED
    BY <2>1, <2>2, <2>3, StaysAttended DEF Threads
<1>2. ASSUME NEW low \in BOOLEAN, ApplyGuardrail(i, low) PROVE Attended'
  <2> DEFINE judged == Judged(items[i], low)
             w == Doing("commit", IF judged = "ready_to_bill" THEN "select" ELSE "idle",
                        None, {})
  <2>1. Goes(Subscriber, w) /\ UNCHANGED crashes /\ run[Subscriber] = Idle
    BY <1>2 DEF ApplyGuardrail
  <2>2. items[i] \in LineItem /\ items' = [items EXCEPT ![i] = [items[i] EXCEPT !.status = judged]]
    BY <1>2, Shapes DEF ApplyGuardrail
  <2>3. CASE judged = "ready_to_bill"
    BY <2>1, <2>3, StaysAttended DEF WillSelect, Doing, Threads
  <2>4. CASE judged # "ready_to_bill"
    <3>1. [items[i] EXCEPT !.status = judged].status = judged
      BY <2>2 DEF LineItem
    <3> HIDE DEF judged
    <3>2. Ready' \subseteq Ready
      BY <2>2, <2>4, <3>1, Shapes DEF Ready
    <3>3. ~WillSelect(w) /\ ~WillSelect(Idle) /\ Claims(Idle) = {}
      BY <2>4 DEF WillSelect, Claims, Doing, Idle
    <3> QED
      BY <2>1, <3>2, <3>3, StaysAttended DEF Threads
  <2> QED
    BY <2>3, <2>4
<1>3. ASSUME NEW th \in Pool, ApproveCheck(th, i) PROVE Attended'
  <2> DEFINE w == Doing("approve", "idle", i, {})
  <2>1. Goes(th, w) /\ UNCHANGED <<crashes, items>> /\ run[th] = Idle
    BY <1>3 DEF ApproveCheck
  <2>2. ~WillSelect(Idle) /\ Claims(Idle) = {} /\ Ready' = Ready
    BY <2>1 DEF WillSelect, Claims, Idle, Ready
  <2> QED
    BY <2>1, <2>2, StaysAttended DEF Threads
<1> QED
  BY <1>1, <1>2, <1>3

(* Marking takes from the ready items all that the thread claimed.         *)
LEMMA MarkItemsAttended ==
  ASSUME Inv, Attended, NEW th \in Threads, MarkItems(th)
  PROVE  Attended'
<1> DEFINE w == Doing("commit", "generated", run[th].subject, {})
<1>1. /\ Goes(th, w) /\ UNCHANGED crashes /\ run[th].at = "mark"
      /\ Sound(run[th], Tables, disk)
  BY DEF MarkItems, Inv, RunsSound
<1>2. \A i \in Items : /\ i \in run[th].batch => items'[i].status = "invoiced"
                       /\ i \notin run[th].batch => items'[i] = items[i]
  <2> SUFFICES ASSUME NEW i \in Items
               PROVE  /\ i \in run[th].batch => items'[i].status = "invoiced"
                      /\ i \notin run[th].batch => items'[i] = items[i]
    OBVIOUS
  <2>1. i \in run[th].batch => items[i] \in LineItem
    BY <1>1, Shapes DEF Sound, Tables
  <2> QED
    BY <2>1 DEF MarkItems, LineItem
<1>3. Ready' \subseteq Ready \ run[th].batch
  BY <1>2 DEF Ready
<1>4. ~WillSelect(run[th]) /\ Claims(run[th]) = run[th].batch
  BY <1>1 DEF WillSelect, Claims
<1> QED
  BY <1>1, <1>3, <1>4, StaysAttended

(* What neither selects nor writes line items.                             *)
LEMMA HandleAttended ==
  ASSUME Inv, Attended, NEW th \in Threads, Handle(th)
  PROVE  Attended'
<1>1. CASE ApproveLineItem(th)
  BY <1>1, StaysAttended DEF ApproveLineItem, WillSelect, Doing
<1>2. ASSUME NEW n \in Invoices, InsertInvoice(th, n) PROVE Attended'
  BY <1>2, StaysAttended DEF InsertInvoice, WillSelect, Claims, Doing, Ready
<1>3. CASE PublishGenerated(th)
  BY <1>3, StaysAttended DEF PublishGenerated, WillSelect, Claims, Idle, Ready
<1>4. CASE Pay(th)
  BY <1>4, StaysAttended DEF Pay, WillSelect, Claims, Doing, Ready
<1>5. CASE PublishPaid(th)
  BY <1>5, StaysAttended DEF PublishPaid, WillSelect, Claims, Idle, Ready
<1>6. CASE Commit(th)
  <2>1. CASE run[th].next = "select"
    BY <1>6, <2>1, StaysAttended DEF Commit, WillSelect, Doing
  <2>2. CASE run[th].next # "select"
    BY <1>6, <2>2, StaysAttended DEF Commit, WillSelect, Claims, Ready
  <2> QED
    BY <2>1, <2>2
<1> QED
  BY <1>1, <1>2, <1>3, <1>4, <1>5, <1>6, SelectReadyAttended, MarkItemsAttended DEF Handle

LEMMA AttendedNext == Inv /\ Attended /\ [Next]_vars => Attended'
<1> SUFFICES ASSUME Inv, Attended, [Next]_vars PROVE Attended'
  OBVIOUS
<1>1. ASSUME NEW th \in Pool \cup {EventLoop}, NEW n \in Invoices, PayCheck(th, n)
      PROVE  Attended'
  <2>1. th \in Threads /\ ~WillSelect(Idle) /\ Claims(Idle) = {}
    BY DEF Threads, WillSelect, Claims, Idle
  <2>2. Goes(th, Doing("pay", "idle", n, {})) /\ UNCHANGED crashes /\ Ready' = Ready
        /\ run[th] = Idle
    BY <1>1 DEF PayCheck, Ready
  <2> QED
    BY <2>1, <2>2, StaysAttended
<1>2. CASE Crash
  BY <1>2 DEF Crash, Attended
<1>3. CASE UNCHANGED vars
  BY <1>3 DEF vars, Attended, Unclaimed, Claims, Ready, WillSelect
<1> QED
  BY <1>1, <1>2, <1>3, ItemStatementAttended, HandleAttended DEF Next

(* Unless the service crashed, whenever a batch of items is ready some     *)
(* thread will invoice it (try_generate_invoice), whatever the             *)
(* interleaving and however many threads there are.                        *)
THEOREM NoBatchIsStranded == Spec => []NoBatchStranded
<1>1. Init => Attended
  <2> SUFFICES ASSUME Init PROVE Attended
    OBVIOUS
  <2>1. Unclaimed = {} /\ crashes = 0
    BY DEF Init, NoTables, Unclaimed, Ready
  <2> QED
    BY <2>1, FS_EmptySet, BatchAssumption DEF Attended
<1>2. Attended => NoBatchStranded
  <2> SUFFICES ASSUME Attended, crashes = 0, Cardinality(Ready) >= BatchSize,
                      \A th \in Threads : ~WillInvoice(th)
               PROVE  FALSE
    BY DEF NoBatchStranded
  <2>1. \A th \in Threads : ~WillSelect(run[th]) /\ Claims(run[th]) = {}
    BY DEF WillInvoice, WillSelect, Claims
  <2>2. Unclaimed = Ready
    BY <2>1 DEF Unclaimed
  <2>3. Ready \subseteq Items
    BY DEF Ready
  <2>4. Cardinality(Ready) \in Nat
    BY <2>3, ItemsAssumption, FS_Subset, FS_CardinalityType
  <2> QED
    BY <2>1, <2>2, <2>4, BatchAssumption DEF Attended
<1> QED
  BY <1>1, <1>2, AttendedNext, Invariance, PTL DEF Spec
=============================================================================

------------------------ MODULE EventPipelineProofs ------------------------
(***************************************************************************)
(* Safety of EventPipeline for any number of logs, events, interruptions   *)
(* and invoices, and any size of the buffers.                              *)
(***************************************************************************)
EXTENDS EventPipeline, SequenceTheorems, TLAPS

Recorded == {"TimeLogCreated", "TimerStopped"}
Types == NotifierEvents \cup OtherEvents \cup {"AIInsightGenerated"}
Messages ==
  {e \in [type : Types, subject : Logs \cup Nat \cup {None},
          content : Words \cup Scores \cup Said \cup {None}] :
     /\ e.type \in Recorded => e.subject \in Logs /\ e.content \in Words
     /\ e.type = "AIInsightGenerated" => e.subject \in Logs /\ e.content \in Scores
     /\ e.type = "TimeLogApproved" => e.subject \in Logs /\ e.content \in Said}

Queues == [Subscribers -> Seq(Messages)]
Watching(box) == \A s \in Subscribers : \A i \in 1..Len(box[s]) : box[s][i].type \in Watched(s)

ChannelOK ==
  /\ inbox \in Queues /\ Watching(inbox)
  /\ online \subseteq Subscribers /\ interrupted \subseteq Subscribers
  /\ Subscribers \ interrupted \subseteq online

(* What a loop that has not been interrupted finds in its buffer after a   *)
(* step that leaves box and publishes e, or nothing.                       *)
Deliver(q, e, s) == IF e.type \in Watched(s) THEN Append(q, e) ELSE q
Sent(box, e) ==
  \A s \in Subscribers \ interrupted' : s \notin interrupted /\ inbox'[s] = Deliver(box[s], e, s)
Unsent(box) ==
  \A s \in Subscribers \ interrupted' : s \notin interrupted /\ inbox'[s] = box[s]
-----------------------------------------------------------------------------
(* Buffers.                                                                *)

LEMMA Appended ==
  ASSUME NEW q \in Seq(Messages), NEW e \in Messages
  PROVE  /\ Append(q, e) \in Seq(Messages) /\ Len(q) \in Nat
         /\ Len(Append(q, e)) = Len(q) + 1 /\ Append(q, e)[Len(q) + 1] = e
         /\ \A i \in 1..Len(q) : Append(q, e)[i] = q[i]
BY AppendProperties, LenProperties

LEMMA Shortened ==
  ASSUME NEW q \in Seq(Messages), q # <<>>
  PROVE  /\ Head(q) = q[1] /\ Head(q) \in Messages /\ Tail(q) \in Seq(Messages)
         /\ Len(q) \in Nat \ {0} /\ Len(Tail(q)) = Len(q) - 1
         /\ \A i \in 1..(Len(q) - 1) : Tail(q)[i] = q[i + 1]
BY HeadTailProperties, EmptySeq

LEMMA TakenOK ==
  ASSUME ChannelOK, NEW s \in Subscribers, NEW types, Takes(s, types)
  PROVE  /\ NextEvent(s) \in Messages /\ NextEvent(s).type \in types
         /\ inbox[s] \in Seq(Messages) /\ inbox[s] # <<>>
         /\ Taken(s) \in Queues /\ Watching(Taken(s))
         /\ Taken(s)[s] = Tail(inbox[s])
         /\ \A t \in Subscribers \ {s} : Taken(s)[t] = inbox[t]
<1>1. inbox[s] \in Seq(Messages) /\ inbox[s] # <<>> /\ NextEvent(s).type \in types
  BY DEF ChannelOK, Queues, Takes
<1>2. NextEvent(s) \in Messages /\ Tail(inbox[s]) \in Seq(Messages)
  BY <1>1, Shortened DEF NextEvent
<1>3. /\ Taken(s) \in Queues /\ Taken(s)[s] = Tail(inbox[s])
      /\ \A t \in Subscribers \ {s} : Taken(s)[t] = inbox[t]
  BY <1>2 DEF Taken, ChannelOK, Queues
<1>4. \A i \in 1..Len(Tail(inbox[s])) : Tail(inbox[s])[i].type \in Watched(s)
  <2>1. \A i \in 1..Len(inbox[s]) : inbox[s][i].type \in Watched(s)
    BY DEF ChannelOK, Watching
  <2> QED
    BY <1>1, <2>1, Shortened
<1>5. Watching(Taken(s))
  BY <1>3, <1>4 DEF Watching, ChannelOK
<1> QED
  BY <1>1, <1>2, <1>3, <1>5

LEMMA SilentEffect ==
  ASSUME ChannelOK, NEW box \in Queues, Watching(box), Silent(box)
  PROVE  ChannelOK' /\ Unsent(box) /\ told' = told
BY DEF Silent, ChannelOK, Unsent, Watching

LEMMA PublishEffect ==
  ASSUME ChannelOK, NEW box \in Queues, Watching(box), NEW e \in Messages, Publish(box, e)
  PROVE  /\ ChannelOK' /\ Sent(box, e)
         /\ told' = IF e.type \in NotifierEvents THEN told + 1 ELSE told
<1>1. \A s \in Subscribers :
        inbox'[s] = IF s \in Overflowing(box, e) THEN <<>>
                    ELSE IF s \in Reached(e) THEN Append(box[s], e) ELSE box[s]
  BY DEF Publish
<1>2. inbox' \in Queues
  <2>1. \A s \in Subscribers : box[s] \in Seq(Messages) /\ Append(box[s], e) \in Seq(Messages)
    BY Appended DEF Queues
  <2>2. <<>> \in Seq(Messages)
    BY EmptySeq
  <2> QED
    BY <2>1, <2>2 DEF Publish, Queues
<1>3. Watching(inbox')
  <2> SUFFICES ASSUME NEW s \in Subscribers, NEW i \in 1..Len(inbox'[s])
               PROVE  inbox'[s][i].type \in Watched(s)
    BY DEF Watching
  <2>1. box[s] \in Seq(Messages) /\ \A j \in 1..Len(box[s]) : box[s][j].type \in Watched(s)
    BY DEF Queues, Watching
  <2>2. CASE inbox'[s] = <<>>
    BY <2>2, EmptySeq
  <2>3. CASE inbox'[s] = box[s]
    BY <2>1, <2>3
  <2>4. CASE s \in Reached(e) /\ inbox'[s] = Append(box[s], e)
    <3>1. e.type \in Watched(s)
      BY <2>4 DEF Reached
    <3>2. i \in 1..Len(box[s]) \/ i = Len(box[s]) + 1
      BY <2>1, <2>4, Appended
    <3> QED
      BY <2>1, <2>4, <3>1, <3>2, Appended
  <2> QED
    BY <1>1, <2>2, <2>3, <2>4
<1>4. /\ online' \subseteq Subscribers /\ interrupted' \subseteq Subscribers
      /\ Subscribers \ interrupted' \subseteq online'
  <2>1. Overflowing(box, e) \subseteq Subscribers
    BY DEF ChannelOK, Overflowing, Reached
  <2> QED
    BY <2>1 DEF Publish, ChannelOK
<1>5. Sent(box, e)
  <2> SUFFICES ASSUME NEW s \in Subscribers \ interrupted'
               PROVE  s \notin interrupted /\ inbox'[s] = Deliver(box[s], e, s)
    BY DEF Sent
  <2>1. s \notin interrupted /\ s \in online /\ s \notin Overflowing(box, e)
    BY DEF Publish, ChannelOK
  <2> QED
    BY <1>1, <2>1 DEF Deliver, Reached
<1>6. told' = IF e.type \in NotifierEvents THEN told + 1 ELSE told
  BY DEF Publish
<1> QED
  BY <1>2, <1>3, <1>4, <1>5, <1>6 DEF ChannelOK
-----------------------------------------------------------------------------
(* The tables.                                                             *)

BackendOK ==
  /\ sent \in 0..MaxEvents /\ approved \in [Logs -> 0..MaxEvents]
  /\ \A l \in Logs : approved[l] <= sent
  /\ recorded \subseteq Logs /\ overwritten \subseteq Logs
  /\ row \in [Logs -> Scores \cup {None}]
  /\ copy \in [Logs -> SUBSET (Scores \cup {None})]

AIOK == insights \subseteq Logs /\ entries \subseteq Logs /\ analysing \in Logs \cup {None}
BillingOK ==
  /\ items \in [Logs -> Statuses \cup {None}]
  /\ invoices \in Seq([lines : SUBSET Logs, paid : BOOLEAN])
ReadersOK ==
  /\ facts \in [Logs -> Fact \cup {None}] /\ docs \in [Logs -> Said \cup {None}]
  /\ notes \in Nat
Typed == ChannelOK /\ BackendOK /\ AIOK /\ BillingOK /\ ReadersOK /\ told \in Nat

LEMMA SilentTyped ==
  ASSUME ChannelOK, told \in Nat, NEW box \in Queues, Watching(box), Silent(box)
  PROVE  ChannelOK' /\ told' \in Nat
BY SilentEffect

LEMMA PublishTyped ==
  ASSUME ChannelOK, told \in Nat, NEW box \in Queues, Watching(box), NEW e \in Messages,
         Publish(box, e)
  PROVE  ChannelOK' /\ told' \in Nat
BY PublishEffect

LEMMA InboxOK == ASSUME ChannelOK PROVE inbox \in Queues /\ Watching(inbox)
BY DEF ChannelOK

LEMMA RecordedMessage ==
  ASSUME NEW type \in Recorded, NEW l \in Logs, NEW words \in Words
  PROVE  Event(type, l, words) \in Messages
BY DEF Event, Messages, Types, Recorded, NotifierEvents

LEMMA InsightMessage ==
  ASSUME NEW l \in Logs, NEW score \in Scores
  PROVE  Event("AIInsightGenerated", l, score) \in Messages
BY DEF Event, Messages, Types, Recorded

LEMMA ApprovalMessage ==
  ASSUME NEW l \in Logs, NEW said \in Said
  PROVE  Event("TimeLogApproved", l, said) \in Messages
BY DEF Event, Messages, Types, Recorded, NotifierEvents

LEMMA OtherMessage ==
  ASSUME NEW type \in OtherEvents \cup {"InvoiceGenerated", "InvoicePaid"},
         NEW subject \in Nat \cup {None}
  PROVE  Event(type, subject, None) \in Messages
BY OtherAssumption DEF Event, Messages, Types, Recorded, NotifierEvents

LEMMA PayloadSaid ==
  ASSUME NEW l \in Logs, NEW n \in 1..MaxEvents PROVE Payload(l, n) \in Said
BY DEF Payload, Said

LEMMA AnnounceTyped ==
  ASSUME Typed, NEW type \in Announcing, NEW l \in Logs, NEW words \in Words,
         Announce(type, l, words)
  PROVE  Typed'
<1>1. Event(type, l, words) \in Messages
  BY AnnouncingAssumption, RecordedMessage DEF Recorded
<1>2. ChannelOK' /\ told' \in Nat
  BY <1>1, InboxOK, PublishTyped DEF Typed, Announce
<1>3. BackendOK'
  BY BoundsAssumption DEF Typed, BackendOK, Announce, Serves
<1> QED
  BY <1>2, <1>3 DEF Typed, Announce, services, AIOK, BillingOK, ReadersOK

LEMMA ApprovedTyped ==
  ASSUME Typed, NEW l \in Logs, PublishApproved(l)
  PROVE  /\ Typed' /\ approved'[l] \in 1..MaxEvents
         /\ Payload(l, approved'[l]) \in Said
         /\ Event("TimeLogApproved", l, Payload(l, approved'[l])) \in Messages
         /\ \A k \in Logs \ {l} : approved'[k] = approved[k]
<1>1. /\ sent' \in 0..MaxEvents /\ approved' \in [Logs -> 0..MaxEvents]
      /\ \A k \in Logs : approved'[k] <= sent'
      /\ approved'[l] \in 1..MaxEvents
      /\ \A k \in Logs \ {l} : approved'[k] = approved[k]
  BY BoundsAssumption DEF Typed, BackendOK, PublishApproved, Serves
<1>2. /\ Payload(l, approved'[l]) \in Said
      /\ Event("TimeLogApproved", l, Payload(l, approved'[l])) \in Messages
  BY <1>1, PayloadSaid, ApprovalMessage
<1>3. ChannelOK' /\ told' \in Nat
  BY <1>2, InboxOK, PublishTyped DEF Typed, PublishApproved
<1>4. BackendOK'
  BY <1>1 DEF Typed, BackendOK, PublishApproved
<1> QED
  BY <1>1, <1>2, <1>3, <1>4 DEF Typed, PublishApproved, services, AIOK, BillingOK, ReadersOK

LEMMA OtherTyped ==
  ASSUME Typed, NEW type \in OtherEvents, PublishOther(type)
  PROVE  Typed'
<1>1. Event(type, None, None) \in Messages
  BY OtherMessage
<1>2. ChannelOK' /\ told' \in Nat
  BY <1>1, InboxOK, PublishTyped DEF Typed, PublishOther
<1>3. BackendOK'
  BY BoundsAssumption DEF Typed, BackendOK, PublishOther, Serves
<1> QED
  BY <1>2, <1>3 DEF Typed, PublishOther, services, AIOK, BillingOK, ReadersOK

LEMMA ChannelUnchanged ==
  ASSUME ChannelOK, UNCHANGED channel PROVE ChannelOK'
BY DEF ChannelOK, channel, Watching

LEMMA CopyTyped ==
  ASSUME Typed, NEW l \in Logs, LoadCopy(l) \/ MergeCopy(l)
  PROVE  Typed'
<1>1. ChannelOK' /\ told' \in Nat
  BY ChannelUnchanged DEF Typed, LoadCopy, MergeCopy
<1>2. CASE LoadCopy(l)
  BY <1>1, <1>2, BoundsAssumption
  DEF Typed, LoadCopy, Serves, BackendOK, services, AIOK, BillingOK, ReadersOK
<1>3. CASE MergeCopy(l)
  BY <1>1, <1>3 DEF Typed, MergeCopy, BackendOK, services, AIOK, BillingOK, ReadersOK
<1> QED
  BY <1>2, <1>3

LEMMA ListenTyped ==
  ASSUME Typed, Listen
  PROVE  Typed'
<1> DEFINE e == NextEvent("listener")
<1>1. /\ e \in Messages /\ e.type = "AIInsightGenerated"
      /\ Taken("listener") \in Queues /\ Watching(Taken("listener"))
  BY TakenOK DEF Typed, Listen, Subscribers
<1>2. e.subject \in Logs /\ e.content \in Scores
  BY <1>1 DEF Messages
<1>3. ChannelOK' /\ told' \in Nat
  BY <1>1, SilentTyped DEF Typed, Listen
<1>4. BackendOK'
  BY <1>2 DEF Typed, BackendOK, Listen
<1> QED
  BY <1>3, <1>4 DEF Typed, Listen, services, AIOK, BillingOK, ReadersOK

LEMMA AnalyseTyped ==
  ASSUME Typed, Analyse
  PROVE  /\ Typed' /\ NextEvent("ai").subject \in Logs
         /\ Event("AIInsightGenerated", NextEvent("ai").subject, Quality(NextEvent("ai").content))
              \in Messages
<1> DEFINE e == NextEvent("ai")
<1>1. /\ e \in Messages /\ e.type \in Recorded
      /\ Taken("ai") \in Queues /\ Watching(Taken("ai"))
  BY TakenOK DEF Typed, Analyse, Subscribers, AIEvents, Recorded
<1>2. e.subject \in Logs /\ Quality(e.content) \in Scores
  BY <1>1 DEF Messages, Scores
<1>3. Event("AIInsightGenerated", e.subject, Quality(e.content)) \in Messages
  BY <1>2, InsightMessage
<1>4. ChannelOK' /\ told' \in Nat
  BY <1>1, <1>3, PublishTyped DEF Typed, Analyse
<1> QED
  BY <1>2, <1>3, <1>4 DEF Typed, Analyse, backend, BackendOK, AIOK, BillingOK, ReadersOK

LEMMA IndexTimeEntryTyped ==
  ASSUME Typed, IndexTimeEntry PROVE Typed'
<1>1. ChannelOK'
  BY ChannelUnchanged DEF Typed, IndexTimeEntry
<1> QED
  BY <1>1 DEF Typed, IndexTimeEntry, backend, BackendOK, AIOK, BillingOK, ReadersOK

LEMMA StatusIsSomething == \A status \in Statuses : status # None
BY NoneAssumption

(* Line items are never deleted.                                           *)
ItemsGrow == \A l \in Logs : items[l] # None => items'[l] # None

LEMMA InvoicesAppended ==
  ASSUME BillingOK, NEW ready \in SUBSET Logs,
         invoices' = Append(invoices, [lines |-> ready, paid |-> FALSE])
  PROVE  /\ invoices' \in Seq([lines : SUBSET Logs, paid : BOOLEAN])
         /\ Len(invoices') \in Nat
BY AppendProperties, LenProperties DEF BillingOK

LEMMA TryGenerateInvoiceTyped ==
  ASSUME ChannelOK, told \in Nat, BillingOK,
         NEW now \in [Logs -> Statuses \cup {None}], NEW box \in Queues, Watching(box),
         TryGenerateInvoice(now, box)
  PROVE  /\ ChannelOK' /\ told' \in Nat /\ BillingOK'
         /\ \A l \in Logs : now[l] # None => items'[l] # None
         /\ \/ Silent(box)
            \/ /\ Event("InvoiceGenerated", Len(invoices'), None) \in Messages
               /\ Publish(box, Event("InvoiceGenerated", Len(invoices'), None))
<1> DEFINE ready == {l \in Logs : now[l] = "ready_to_bill"}
<1>1. CASE items' = now /\ invoices' = invoices /\ Silent(box)
  BY <1>1, SilentTyped DEF BillingOK
<1>2. CASE /\ items' = [l \in Logs |-> IF l \in ready THEN "invoiced" ELSE now[l]]
           /\ invoices' = Append(invoices, [lines |-> ready, paid |-> FALSE])
           /\ \/ Publish(box, Event("InvoiceGenerated", Len(invoices'), None))
              \/ Silent(box)
  <2>1. ready \in SUBSET Logs
    OBVIOUS
  <2>2. BillingOK' /\ Len(invoices') \in Nat
    BY <1>2, <2>1, InvoicesAppended DEF BillingOK, Statuses
  <2>3. \A l \in Logs : now[l] # None => items'[l] # None
    BY <1>2, StatusIsSomething DEF Statuses
  <2>4. Event("InvoiceGenerated", Len(invoices'), None) \in Messages
    BY <2>2, OtherMessage
  <2>5. ChannelOK' /\ told' \in Nat
    BY <1>2, <2>4, SilentTyped, PublishTyped
  <2> QED
    BY <1>2, <2>2, <2>3, <2>4, <2>5
<1> QED
  BY <1>1, <1>2 DEF TryGenerateInvoice

LEMMA UpsertLineItemTyped ==
  ASSUME Typed, UpsertLineItem
  PROVE  /\ Typed' /\ ItemsGrow /\ NextEvent("billing").subject \in Logs
         /\ items'[NextEvent("billing").subject] # None
<1> DEFINE e == NextEvent("billing")
<1>1. /\ e \in Messages /\ e.type \in Recorded
      /\ Taken("billing") \in Queues /\ Watching(Taken("billing"))
  BY TakenOK DEF Typed, UpsertLineItem, Subscribers, Recorded
<1>2. e.subject \in Logs
  BY <1>1 DEF Messages
<1>3. ChannelOK' /\ told' \in Nat
  BY <1>1, SilentTyped DEF Typed, UpsertLineItem
<1>4. /\ items' \in [Logs -> Statuses \cup {None}]
      /\ items'[e.subject] # None /\ ItemsGrow
  BY <1>2, StatusIsSomething DEF Typed, BillingOK, UpsertLineItem, Statuses, ItemsGrow
<1> QED
  BY <1>2, <1>3, <1>4 DEF Typed, UpsertLineItem, backend, BackendOK, AIOK, BillingOK, ReadersOK

LEMMA ApplyGuardrailTyped ==
  ASSUME Typed, ApplyGuardrail
  PROVE  /\ Typed' /\ ItemsGrow
         /\ \/ Silent(Taken("billing"))
            \/ /\ Event("InvoiceGenerated", Len(invoices'), None) \in Messages
               /\ Publish(Taken("billing"), Event("InvoiceGenerated", Len(invoices'), None))
<1> DEFINE l == NextEvent("billing").subject
           judged == Judgement(l, NextEvent("billing").content)
           now == [items EXCEPT ![l] = judged]
<1>1. Taken("billing") \in Queues /\ Watching(Taken("billing"))
  BY TakenOK DEF Typed, ApplyGuardrail, Subscribers
<1>2. judged \in Statuses
  BY DEF Judgement, Statuses
<1>3. /\ now \in [Logs -> Statuses \cup {None}]
      /\ \A k \in Logs : items[k] # None => now[k] # None
  BY <1>2, StatusIsSomething DEF Typed, BillingOK
<1>4. CASE TryGenerateInvoice(now, Taken("billing"))
  <2>1. /\ ChannelOK' /\ told' \in Nat /\ BillingOK'
        /\ \A k \in Logs : now[k] # None => items'[k] # None
        /\ \/ Silent(Taken("billing"))
           \/ /\ Event("InvoiceGenerated", Len(invoices'), None) \in Messages
              /\ Publish(Taken("billing"), Event("InvoiceGenerated", Len(invoices'), None))
    BY <1>1, <1>3, <1>4, TryGenerateInvoiceTyped DEF Typed
  <2>2. ItemsGrow
    BY <1>3, <2>1 DEF ItemsGrow
  <2> QED
    BY <2>1, <2>2 DEF Typed, ApplyGuardrail, backend, BackendOK, AIOK, ReadersOK
<1>5. CASE /\ items' = IF items[l] = None THEN items ELSE now
           /\ Silent(Taken("billing")) /\ UNCHANGED invoices
  <2>1. ChannelOK' /\ told' \in Nat
    BY <1>1, <1>5, SilentTyped DEF Typed
  <2>2. BillingOK' /\ ItemsGrow
    BY <1>3, <1>5 DEF Typed, BillingOK, ItemsGrow
  <2> QED
    BY <1>5, <2>1, <2>2 DEF Typed, ApplyGuardrail, backend, BackendOK, AIOK, ReadersOK
<1> QED
  BY <1>4, <1>5 DEF ApplyGuardrail

LEMMA ApproveLineItemTyped ==
  ASSUME Typed, NEW l \in Logs, ApproveLineItem(l)
  PROVE  /\ Typed' /\ ItemsGrow
         /\ \/ Silent(inbox)
            \/ /\ Event("InvoiceGenerated", Len(invoices'), None) \in Messages
               /\ Publish(inbox, Event("InvoiceGenerated", Len(invoices'), None))
<1> DEFINE now == [items EXCEPT ![l] = "ready_to_bill"]
<1>1. /\ now \in [Logs -> Statuses \cup {None}]
      /\ \A k \in Logs : items[k] # None => now[k] # None
  BY StatusIsSomething DEF Typed, BillingOK, Statuses
<1>2. /\ ChannelOK' /\ told' \in Nat /\ BillingOK'
      /\ \A k \in Logs : now[k] # None => items'[k] # None
      /\ \/ Silent(inbox)
         \/ /\ Event("InvoiceGenerated", Len(invoices'), None) \in Messages
            /\ Publish(inbox, Event("InvoiceGenerated", Len(invoices'), None))
  BY <1>1, InboxOK, TryGenerateInvoiceTyped DEF Typed, ApproveLineItem
<1>3. ItemsGrow
  BY <1>1, <1>2 DEF ItemsGrow
<1> QED
  BY <1>2, <1>3 DEF Typed, ApproveLineItem, backend, BackendOK, AIOK, ReadersOK

LEMMA PayInvoiceTyped ==
  ASSUME Typed, NEW n \in 1..Len(invoices), PayInvoice(n)
  PROVE  /\ Typed'
         /\ \/ Silent(inbox)
            \/ /\ Event("InvoicePaid", n, None) \in Messages
               /\ Publish(inbox, Event("InvoicePaid", n, None))
<1>1. invoices' \in Seq([lines : SUBSET Logs, paid : BOOLEAN])
  <2> DEFINE paid == [invoices[n] EXCEPT !.paid = TRUE]
  <2>1. paid \in [lines : SUBSET Logs, paid : BOOLEAN]
    <3>1. invoices[n] \in [lines : SUBSET Logs, paid : BOOLEAN]
      BY ElementOfSeq DEF Typed, BillingOK
    <3> QED
      BY <3>1
  <2>2. invoices' = [invoices EXCEPT ![n] = paid]
    BY DEF PayInvoice
  <2> HIDE DEF paid
  <2> QED
    BY <2>1, <2>2, ExceptSeq DEF Typed, BillingOK
<1>2. n \in Nat
  BY LenProperties DEF Typed, BillingOK
<1>3. Event("InvoicePaid", n, None) \in Messages
  BY <1>2, OtherMessage
<1>4. ChannelOK' /\ told' \in Nat
  BY <1>3, InboxOK, SilentTyped, PublishTyped DEF Typed, PayInvoice
<1> QED
  BY <1>1, <1>3, <1>4 DEF Typed, PayInvoice, backend, BackendOK, AIOK, BillingOK, ReadersOK

(* What the reporting service makes of a fact.                             *)
LEMMA FactOfApproval ==
  ASSUME NEW said \in Said
  PROVE  /\ [log |-> said, insight |-> None, paid |-> FALSE, amount |-> 0] \in Fact
         /\ \A f \in Fact : [f EXCEPT !.log = said] \in Fact
<1>1. [log |-> said, insight |-> None, paid |-> FALSE, amount |-> 0] \in Fact
  BY BoundsAssumption DEF Fact
<1>2. ASSUME NEW f \in Fact PROVE [f EXCEPT !.log = said] \in Fact
  BY <1>2 DEF Fact
<1> QED
  BY <1>1, <1>2

LEMMA FactOfInsight ==
  ASSUME NEW f \in Fact, NEW score \in Scores
  PROVE  [f EXCEPT !.insight = score] \in Fact /\ [f EXCEPT !.insight = score].log = f.log
BY DEF Fact

LEMMA FactOfPayment ==
  ASSUME NEW f \in Fact
  PROVE  /\ [f EXCEPT !.paid = TRUE, !.amount = f.log.cost] \in Fact
         /\ [f EXCEPT !.paid = TRUE, !.amount = f.log.cost].log = f.log
<1>1. f.log \in Said
  BY DEF Fact
<1>2. f.log.cost \in 0..MaxEvents
  BY <1>1, BoundsAssumption DEF Said
<1> QED
  BY <1>2 DEF Fact

Logged == [l \in Logs |-> IF facts[l] = None THEN None ELSE facts[l].log]

LEMMA ReportTyped ==
  ASSUME Typed, Report
  PROVE  /\ Typed'
         /\ LET e == NextEvent("reporting") IN
            \A l \in Logs :
              Logged'[l] = IF e.type = "TimeLogApproved" /\ e.subject = l
                           THEN e.content ELSE Logged[l]
<1> DEFINE e == NextEvent("reporting")
<1>1. /\ e \in Messages /\ e.type \in ReportingEvents
      /\ Taken("reporting") \in Queues /\ Watching(Taken("reporting"))
  BY TakenOK DEF Typed, Report, Subscribers
<1>2. ChannelOK' /\ told' \in Nat
  BY <1>1, SilentTyped DEF Typed, Report
<1>3. facts \in [Logs -> Fact \cup {None}] /\ \A f \in Fact : f # None
  BY NoneAssumption DEF Typed, ReadersOK
<1>4. /\ facts' \in [Logs -> Fact \cup {None}]
      /\ \A l \in Logs : Logged'[l] = IF e.type = "TimeLogApproved" /\ e.subject = l
                                      THEN e.content ELSE Logged[l]
  <2>1. CASE e.type = "TimeLogApproved"
    <3>1. e.subject \in Logs /\ e.content \in Said /\ facts' = Upserted(facts, e.subject, e.content)
      BY <1>1, <2>1 DEF Messages, Report
    <3> DEFINE new == IF facts[e.subject] = None
                      THEN [log |-> e.content, insight |-> None, paid |-> FALSE, amount |-> 0]
                      ELSE [facts[e.subject] EXCEPT !.log = e.content]
    <3>2. new \in Fact
      BY <1>3, <3>1, FactOfApproval
    <3>3. new.log = e.content
      BY <1>3, <3>1 DEF Fact
    <3>4. facts' = [facts EXCEPT ![e.subject] = new]
      BY <3>1 DEF Upserted
    <3> HIDE DEF new
    <3>5. /\ facts' \in [Logs -> Fact \cup {None}]
          /\ \A l \in Logs : Logged'[l] = IF e.subject = l THEN e.content ELSE Logged[l]
      BY <1>3, <3>1, <3>2, <3>3, <3>4 DEF Logged
    <3> QED
      BY <2>1, <3>5
  <2>2. CASE e.type = "AIInsightGenerated"
    <3>1. /\ e.subject \in Logs /\ e.content \in Scores
          /\ facts' = Enriched(facts, e.subject, e.content)
      BY <1>1, <2>2 DEF Messages, Report
    <3>2. CASE facts[e.subject] = None
      BY <1>3, <2>2, <3>1, <3>2 DEF Enriched, Logged
    <3>3. CASE facts[e.subject] # None
      <4> DEFINE new == [facts[e.subject] EXCEPT !.insight = e.content]
      <4>1. new \in Fact /\ new.log = facts[e.subject].log
        BY <1>3, <3>1, <3>3, FactOfInsight
      <4>2. facts' = [facts EXCEPT ![e.subject] = new]
        BY <3>1, <3>3 DEF Enriched
      <4> HIDE DEF new
      <4> QED
        BY <1>3, <2>2, <3>1, <3>3, <4>1, <4>2 DEF Logged
    <3> QED
      BY <3>2, <3>3
  <2>3. CASE e.type = "InvoicePaid"
    <3>1. facts' = MarkedPaid(facts)
      BY <2>3 DEF Report
    <3>2. ASSUME NEW l \in Logs
          PROVE  /\ facts'[l] \in Fact \cup {None} /\ Logged'[l] = Logged[l]
      <4>1. CASE facts[l] = None
        BY <1>3, <3>1, <4>1 DEF MarkedPaid, Logged
      <4>2. CASE facts[l] # None
        <5> DEFINE f == facts[l]
                   new == [f EXCEPT !.paid = TRUE, !.amount = f.log.cost]
        <5>1. f \in Fact /\ f # None
          BY <1>3, <4>2
        <5>2. new \in Fact /\ new.log = f.log
          BY <5>1, FactOfPayment
        <5>3. facts'[l] = new \/ facts'[l] = f
          BY <1>3, <3>1 DEF MarkedPaid
        <5> HIDE DEF new
        <5> QED
          BY <1>3, <5>1, <5>2, <5>3 DEF Logged
      <4> QED
        BY <4>1, <4>2
    <3>3. facts' = [l \in Logs |-> facts'[l]]
      BY <1>3, <3>1 DEF MarkedPaid
    <3> QED
      BY <2>3, <3>2, <3>3
  <2> QED
    BY <1>1, <2>1, <2>2, <2>3 DEF ReportingEvents
<1> QED
  BY <1>2, <1>4 DEF Typed, Report, backend, BackendOK, AIOK, BillingOK, ReadersOK

LEMMA IndexTyped ==
  ASSUME Typed, Index
  PROVE  /\ Typed'
         /\ LET e == NextEvent("search") IN
            \A l \in Logs :
              docs'[l] = IF e.type = "TimeLogApproved" /\ e.subject = l THEN e.content ELSE docs[l]
<1> DEFINE e == NextEvent("search")
<1>1. e \in Messages /\ Taken("search") \in Queues /\ Watching(Taken("search"))
  BY TakenOK DEF Typed, Index, Subscribers
<1>2. ChannelOK' /\ told' \in Nat
  BY <1>1, SilentTyped DEF Typed, Index
<1>3. e.type = "TimeLogApproved" => e.subject \in Logs /\ e.content \in Said
  BY <1>1 DEF Messages
<1>4. /\ docs' \in [Logs -> Said \cup {None}]
      /\ \A l \in Logs :
           docs'[l] = IF e.type = "TimeLogApproved" /\ e.subject = l THEN e.content ELSE docs[l]
  BY <1>3 DEF Typed, ReadersOK, Index
<1> QED
  BY <1>2, <1>4 DEF Typed, Index, backend, BackendOK, AIOK, BillingOK, ReadersOK

LEMMA InsertNotificationTyped ==
  ASSUME Typed, InsertNotification
  PROVE  Typed'
<1>1. Taken("notifier") \in Queues /\ Watching(Taken("notifier"))
  BY TakenOK DEF Typed, InsertNotification, Subscribers
<1>2. ChannelOK' /\ told' \in Nat
  BY <1>1, SilentTyped DEF Typed, InsertNotification
<1> QED
  BY <1>2 DEF Typed, InsertNotification, backend, BackendOK, AIOK, BillingOK, ReadersOK

LEMMA DisconnectTyped ==
  ASSUME Typed, NEW s \in Subscribers, Disconnect(s)
  PROVE  /\ Typed' /\ interrupted' = interrupted \cup {s}
         /\ \A t \in Subscribers \ {s} : inbox'[t] = inbox[t]
         /\ inbox'[s] = <<>>
<1>1. <<>> \in Seq(Messages) /\ Len(<<>>) = 0
  BY EmptySeq
<1>2. /\ inbox' \in Queues /\ inbox'[s] = <<>>
      /\ \A t \in Subscribers \ {s} : inbox'[t] = inbox[t]
  BY <1>1 DEF Typed, ChannelOK, Queues, Disconnect
<1>3. Watching(inbox')
  BY <1>1, <1>2 DEF Typed, ChannelOK, Watching
<1>4. ChannelOK' /\ interrupted' = interrupted \cup {s}
  BY <1>2, <1>3 DEF Typed, ChannelOK, Disconnect
<1> QED
  BY <1>2, <1>4 DEF Typed, Disconnect, backend, BackendOK, AIOK, BillingOK, ReadersOK

LEMMA ReconnectTyped ==
  ASSUME Typed, NEW s \in Subscribers, Reconnect(s)
  PROVE  Typed'
<1>1. ChannelOK'
  BY DEF Typed, ChannelOK, Watching, Reconnect
<1> QED
  BY <1>1 DEF Typed, Reconnect, backend, services, BackendOK, AIOK, BillingOK, ReadersOK
-----------------------------------------------------------------------------
(* What reaches a loop that has never been interrupted.                    *)

LEMMA Unaltered ==
  ASSUME ChannelOK, NEW box \in Queues, Watching(box), Silent(box),
         NEW s \in Subscribers, s \notin interrupted'
  PROVE  s \notin interrupted /\ inbox'[s] = box[s]
BY DEF Silent

LEMMA Delivered ==
  ASSUME ChannelOK, NEW box \in Queues, Watching(box), NEW e \in Messages, Publish(box, e),
         NEW s \in Subscribers, s \notin interrupted'
  PROVE  s \notin interrupted /\ inbox'[s] = Deliver(box[s], e, s)
BY PublishEffect DEF Sent

(* The fact and the document of a log are those of its latest approval, or *)
(* will be once the buffer has been handled.                               *)
Approval(e, l) == e.type = "TimeLogApproved" /\ e.subject = l
Holds(q, l, x, v) ==
  \/ \E k \in 1..Len(q) :
       /\ Approval(q[k], l) /\ q[k].content = x
       /\ \A j \in (k + 1)..Len(q) : ~Approval(q[j], l)
  \/ /\ v = x
     /\ \A k \in 1..Len(q) : ~Approval(q[k], l)
Replays(q, v, count) ==
  \A l \in Logs : count[l] > 0 => Holds(q, l, Payload(l, count[l]), v[l])

LEMMA HoldsAppendOther ==
  ASSUME NEW q \in Seq(Messages), NEW e \in Messages, NEW l, NEW x, NEW v,
         Holds(q, l, x, v), ~Approval(e, l)
  PROVE  Holds(Append(q, e), l, x, v)
<1> DEFINE n == Len(q)
           new == Append(q, e)
<1>1. /\ n \in Nat /\ Len(new) = n + 1 /\ ~Approval(new[n + 1], l)
      /\ \A i \in 1..n : new[i] = q[i]
  BY Appended
<1> HIDE DEF n, new
<1>2. CASE v = x /\ \A k \in 1..n : ~Approval(q[k], l)
  <2>1. \A k \in 1..Len(new) : k \in 1..n \/ k = n + 1
    BY <1>1
  <2>2. \A k \in 1..Len(new) : ~Approval(new[k], l)
    BY <1>1, <1>2, <2>1
  <2> QED
    BY <1>2, <2>2 DEF Holds, new
<1>3. CASE \E k \in 1..n : /\ Approval(q[k], l) /\ q[k].content = x
                           /\ \A j \in (k + 1)..n : ~Approval(q[j], l)
  <2>1. PICK k \in 1..n : /\ Approval(q[k], l) /\ q[k].content = x
                           /\ \A j \in (k + 1)..n : ~Approval(q[j], l)
    BY <1>3
  <2>2. k \in 1..Len(new) /\ Approval(new[k], l) /\ new[k].content = x
    BY <1>1, <2>1
  <2>3. \A j \in (k + 1)..Len(new) : (j \in (k + 1)..n /\ j \in 1..n) \/ j = n + 1
    BY <1>1
  <2>4. \A j \in (k + 1)..Len(new) : ~Approval(new[j], l)
    BY <1>1, <2>1, <2>3
  <2> QED
    BY <2>2, <2>4 DEF Holds, new
<1> QED
  BY <1>2, <1>3 DEF Holds, n

LEMMA HoldsAppendNew ==
  ASSUME NEW q \in Seq(Messages), NEW e \in Messages, NEW l, NEW v, Approval(e, l)
  PROVE  Holds(Append(q, e), l, e.content, v)
<1>1. /\ Len(q) \in Nat /\ Len(Append(q, e)) = Len(q) + 1 /\ Append(q, e)[Len(q) + 1] = e
  BY Appended
<1>2. (Len(q) + 1) \in 1..Len(Append(q, e)) /\ (Len(q) + 2)..Len(Append(q, e)) = {}
  BY <1>1
<1>3. Approval(Append(q, e)[Len(q) + 1], l) /\ Append(q, e)[Len(q) + 1].content = e.content
  BY <1>1
<1>4. \A j \in (Len(q) + 1 + 1)..Len(Append(q, e)) : FALSE
  BY <1>1
<1> QED
  BY <1>2, <1>3, <1>4 DEF Holds

LEMMA HoldsTail ==
  ASSUME NEW q \in Seq(Messages), q # <<>>, NEW l, NEW x, NEW v, Holds(q, l, x, v)
  PROVE  Holds(Tail(q), l, x, IF Approval(Head(q), l) THEN Head(q).content ELSE v)
<1> DEFINE t == Tail(q)
           n == Len(q)
           w == IF Approval(Head(q), l) THEN Head(q).content ELSE v
<1>1. /\ Head(q) = q[1] /\ n \in Nat \ {0} /\ Len(t) = n - 1
      /\ \A i \in 1..(n - 1) : t[i] = q[i + 1]
  BY Shortened
<1> HIDE DEF t, n
<1>2. ASSUME NEW k \in 1..n, \A j \in (k + 1)..n : ~Approval(q[j], l)
      PROVE  \A j \in k..Len(t) : ~Approval(t[j], l)
  <2>1. \A j \in k..Len(t) : j \in 1..(n - 1) /\ (j + 1) \in (k + 1)..n
    BY <1>1
  <2> QED
    BY <1>1, <1>2, <2>1
<1>3. CASE \E k \in 1..n : /\ Approval(q[k], l) /\ q[k].content = x
                           /\ \A j \in (k + 1)..n : ~Approval(q[j], l)
  <2>1. PICK k \in 1..n : /\ Approval(q[k], l) /\ q[k].content = x
                           /\ \A j \in (k + 1)..n : ~Approval(q[j], l)
    BY <1>3
  <2>2. \A j \in k..Len(t) : ~Approval(t[j], l)
    BY <1>2, <2>1
  <2>3. CASE k = 1
    BY <1>1, <2>1, <2>2, <2>3 DEF Holds, t
  <2>4. CASE k # 1
    <3>1. (k - 1) \in 1..Len(t) /\ (k - 1) \in 1..(n - 1) /\ (k - 1) + 1 = k
      BY <1>1, <2>4
    <3>2. t[k - 1] = q[k]
      BY <1>1, <3>1
    <3> QED
      BY <2>1, <2>2, <3>1, <3>2 DEF Holds, t
  <2> QED
    BY <2>3, <2>4
<1>4. CASE v = x /\ \A k \in 1..n : ~Approval(q[k], l)
  <2>1. 1 \in 1..n /\ \A j \in 2..n : ~Approval(q[j], l)
    BY <1>1, <1>4
  <2>2. \A j \in 1..Len(t) : ~Approval(t[j], l)
    BY <1>2, <2>1
  <2> QED
    BY <1>1, <1>4, <2>1, <2>2 DEF Holds, t
<1> QED
  BY <1>3, <1>4 DEF Holds, n

(* Billing hears of a log before it hears of the insight.                  *)
Told(b, its, l, n) ==
  \/ its[l] # None
  \/ \E j \in 1..n : b[j].type # "AIInsightGenerated" /\ b[j].subject = l
Follows(b, a, its) ==
  /\ \A i \in 1..Len(b) : b[i].type = "AIInsightGenerated" => Told(b, its, b[i].subject, i - 1)
  /\ \A i \in 1..Len(a) : Told(b, its, a[i].subject, Len(b))

LEMMA FollowsDeliver ==
  ASSUME NEW b \in Seq(Messages), NEW a \in Seq(Messages), NEW its, NEW e \in Messages,
         NEW c, c = a \/ c = <<>> \/ (c = Append(a, e) /\ e.type \in AIEvents),
         Follows(b, a, its),
         e.type = "AIInsightGenerated" => Told(b, its, e.subject, Len(b))
  PROVE  Follows(Deliver(b, e, "billing"), c, its)
<1> DEFINE n == Len(b)
           d == Deliver(b, e, "billing")
<1>1. /\ n \in Nat /\ Len(d) \in {n, n + 1} /\ \A i \in 1..n : d[i] = b[i]
      /\ Len(d) = n + 1 => d[n + 1] = e
      /\ e.type \in AIEvents => Len(d) = n + 1
  BY Appended DEF Deliver, Watched, AIEvents, BillingEvents
<1> HIDE DEF n, d
<1>2. \A l : \A m \in 0..n : Told(b, its, l, m) => \A k \in m..Len(d) : Told(d, its, l, k)
  <2> SUFFICES ASSUME NEW l, NEW m \in 0..n, Told(b, its, l, m), NEW k \in m..Len(d)
               PROVE  Told(d, its, l, k)
    OBVIOUS
  <2>1. 1..m \subseteq 1..n /\ 1..m \subseteq 1..k
    BY <1>1
  <2> QED
    BY <1>1, <2>1 DEF Told
<1>3. ASSUME NEW i \in 1..Len(d), d[i].type = "AIInsightGenerated"
      PROVE  Told(d, its, d[i].subject, i - 1)
  <2>1. CASE i \in 1..n
    <3>1. Told(b, its, b[i].subject, i - 1)
      BY <1>1, <1>3, <2>1 DEF Follows, n
    <3>2. (i - 1) \in 0..n /\ (i - 1) \in (i - 1)..Len(d)
      BY <1>1, <2>1
    <3> QED
      BY <1>1, <1>2, <2>1, <3>1, <3>2
  <2>2. CASE i = n + 1
    <3>1. d[i] = e /\ Told(b, its, e.subject, n) /\ i - 1 = n /\ n \in 0..n /\ n \in n..Len(d)
      BY <1>1, <1>3, <2>2 DEF n
    <3> QED
      BY <1>2, <3>1
  <2> QED
    BY <1>1, <2>1, <2>2
<1>4. ASSUME NEW i \in 1..Len(c) PROVE Told(d, its, c[i].subject, Len(d))
  <2>1. CASE i \in 1..Len(a) /\ c[i] = a[i]
    <3>1. Told(b, its, a[i].subject, n) /\ n \in 0..n /\ Len(d) \in n..Len(d)
      BY <1>1, <2>1 DEF Follows, n
    <3> QED
      BY <1>2, <2>1, <3>1
  <2>2. CASE c = Append(a, e) /\ e.type \in AIEvents /\ c[i] = e
    <3>1. Len(d) = n + 1 /\ d[n + 1] = e /\ (n + 1) \in 1..Len(d)
      BY <1>1, <2>2
    <3>2. e.type # "AIInsightGenerated"
      BY <2>2 DEF AIEvents
    <3> QED
      BY <2>2, <3>1, <3>2 DEF Told
  <2>3. CASE c = <<>>
    BY <2>3, EmptySeq
  <2>4. ASSUME c = Append(a, e) PROVE (i \in 1..Len(a) /\ c[i] = a[i]) \/ c[i] = e
    <3>1. i \in 1..(Len(a) + 1) /\ Len(a) \in Nat
      BY <2>4, Appended
    <3>2. i \in 1..Len(a) \/ i = Len(a) + 1
      BY <3>1
    <3> QED
      BY <2>4, <3>2, Appended
  <2> QED
    BY <2>1, <2>2, <2>3, <2>4
<1> QED
  BY <1>3, <1>4 DEF Follows, d

LEMMA FollowsGrow ==
  ASSUME NEW b \in Seq(Messages), NEW a \in Seq(Messages), Follows(b, a, items), ItemsGrow,
         \A i \in 1..Len(b) : b[i].type = "AIInsightGenerated" => b[i].subject \in Logs,
         \A i \in 1..Len(a) : a[i].subject \in Logs
  PROVE  Follows(b, a, items')
BY DEF Follows, Told, ItemsGrow

LEMMA FollowsTailAI ==
  ASSUME NEW b \in Seq(Messages), NEW a \in Seq(Messages), a # <<>>, NEW its,
         Follows(b, a, its)
  PROVE  Follows(b, Tail(a), its) /\ Told(b, its, Head(a).subject, Len(b))
<1>1. /\ Head(a) = a[1] /\ Len(a) \in Nat \ {0} /\ Len(Tail(a)) = Len(a) - 1
      /\ \A i \in 1..(Len(a) - 1) : Tail(a)[i] = a[i + 1]
  BY Shortened
<1>2. 1 \in 1..Len(a) /\ \A i \in 1..(Len(a) - 1) : (i + 1) \in 1..Len(a)
  BY <1>1
<1> QED
  BY <1>1, <1>2 DEF Follows

LEMMA FollowsTailBilling ==
  ASSUME NEW b \in Seq(Messages), b # <<>>, NEW a, NEW its, Follows(b, a, its),
         Head(b).type # "AIInsightGenerated" => its[Head(b).subject] # None
  PROVE  Follows(Tail(b), a, its)
<1> DEFINE n == Len(b)
           t == Tail(b)
<1>1. /\ Head(b) = b[1] /\ n \in Nat \ {0} /\ Len(t) = n - 1
      /\ \A i \in 1..(n - 1) : t[i] = b[i + 1]
  BY Shortened
<1> HIDE DEF n, t
<1>2. ASSUME NEW l, NEW m \in 1..n, Told(b, its, l, m) PROVE Told(t, its, l, m - 1)
  <2>1. ASSUME NEW j \in 1..m, b[j].type # "AIInsightGenerated", b[j].subject = l, its[l] = None
        PROVE  Told(t, its, l, m - 1)
    <3>1. j # 1
      BY <1>1, <2>1
    <3>2. (j - 1) \in 1..(m - 1) /\ (j - 1) \in 1..(n - 1) /\ (j - 1) + 1 = j
      BY <1>1, <3>1
    <3>3. t[j - 1] = b[j]
      BY <1>1, <3>2
    <3> QED
      BY <2>1, <3>2, <3>3 DEF Told
  <2> QED
    BY <1>2, <2>1 DEF Told
<1>3. ASSUME NEW i \in 1..Len(t), t[i].type = "AIInsightGenerated"
      PROVE  Told(t, its, t[i].subject, i - 1)
  <2>1. i \in 1..(n - 1) /\ (i + 1) \in 1..n /\ (i + 1) - 1 = i /\ i \in 1..n
    BY <1>1
  <2>2. t[i] = b[i + 1]
    BY <1>1, <2>1
  <2>3. Told(b, its, b[i + 1].subject, i)
    BY <1>3, <2>1, <2>2 DEF Follows, n
  <2> QED
    BY <1>2, <2>1, <2>2, <2>3
<1>4. ASSUME NEW i \in 1..Len(a) PROVE Told(t, its, a[i].subject, Len(t))
  <2>1. Told(b, its, a[i].subject, n) /\ n \in 1..n
    BY <1>1 DEF Follows, n
  <2> QED
    BY <1>1, <1>2, <2>1
<1> QED
  BY <1>3, <1>4 DEF Follows, t
-----------------------------------------------------------------------------
(* The inductive invariant.                                                *)

Indexed == entries \subseteq insights /\ analysing \in insights \cup {None}
Informed == "billing" \notin interrupted => Follows(inbox["billing"], inbox["ai"], items)
Reported == "reporting" \notin interrupted => Replays(inbox["reporting"], Logged, approved)
Searched == "search" \notin interrupted => Replays(inbox["search"], docs, approved)
Noted == "notifier" \notin interrupted => notes + Len(inbox["notifier"]) = told
Inv == Typed /\ Indexed /\ Informed /\ Reported /\ Searched /\ Noted

LEMMA TypedNext ==
  ASSUME Typed, Next PROVE Typed'
<1>1. ASSUME NEW l \in Logs, NEW type \in Announcing, NEW words \in Words, Announce(type, l, words)
      PROVE  Typed'
  BY <1>1, AnnounceTyped
<1>2. ASSUME NEW l \in Logs,
             PublishApproved(l) \/ LoadCopy(l) \/ MergeCopy(l) \/ ApproveLineItem(l)
      PROVE  Typed'
  BY <1>2, ApprovedTyped, CopyTyped, ApproveLineItemTyped
<1>3. ASSUME NEW type \in OtherEvents, PublishOther(type) PROVE Typed'
  BY <1>3, OtherTyped
<1>4. ASSUME NEW n \in 1..Len(invoices), PayInvoice(n) PROVE Typed'
  BY <1>4, PayInvoiceTyped
<1>5. CASE Handle
  BY <1>5, ListenTyped, AnalyseTyped, IndexTimeEntryTyped, UpsertLineItemTyped, ApplyGuardrailTyped,
     ReportTyped, IndexTyped, InsertNotificationTyped DEF Handle
<1>6. ASSUME NEW s \in Subscribers, Disconnect(s) \/ Reconnect(s) PROVE Typed'
  BY <1>6, DisconnectTyped, ReconnectTyped
<1> QED
  BY <1>1, <1>2, <1>3, <1>4, <1>5, <1>6 DEF Next

LEMMA IndexedNext ==
  ASSUME Indexed, Next PROVE Indexed'
<1>1. ASSUME NEW l \in Logs, NEW type \in Announcing, NEW words \in Words, Announce(type, l, words)
      PROVE  Indexed'
  BY <1>1 DEF Indexed, Announce, services
<1>2. ASSUME NEW l \in Logs,
             PublishApproved(l) \/ LoadCopy(l) \/ MergeCopy(l) \/ ApproveLineItem(l)
      PROVE  Indexed'
  BY <1>2 DEF Indexed, PublishApproved, LoadCopy, MergeCopy, ApproveLineItem, services
<1>3. ASSUME NEW type \in OtherEvents, PublishOther(type) PROVE Indexed'
  BY <1>3 DEF Indexed, PublishOther, services
<1>4. ASSUME NEW n \in 1..Len(invoices), PayInvoice(n) PROVE Indexed'
  BY <1>4 DEF Indexed, PayInvoice
<1>5. CASE Listen \/ UpsertLineItem \/ ApplyGuardrail \/ Report \/ Index \/ InsertNotification
  BY <1>5 DEF Indexed, Listen, UpsertLineItem, ApplyGuardrail, Report, Index, InsertNotification, services
<1>6. CASE Analyse
  BY <1>6 DEF Indexed, Analyse
<1>7. CASE IndexTimeEntry
  BY <1>7 DEF Indexed, IndexTimeEntry
<1>8. ASSUME NEW s \in Subscribers, Disconnect(s) \/ Reconnect(s) PROVE Indexed'
  BY <1>8 DEF Indexed, Disconnect, Reconnect, services
<1> QED
  BY <1>1, <1>2, <1>3, <1>4, <1>5, <1>6, <1>7, <1>8 DEF Next, Handle

(* Billing and AI service.                                                 *)
LEMMA InformedSilent ==
  ASSUME NEW box \in Queues, Silent(box), NEW its,
         "billing" \notin interrupted => Follows(box["billing"], box["ai"], its)
  PROVE  "billing" \notin interrupted' => Follows(inbox'["billing"], inbox'["ai"], its)
BY DEF Silent

LEMMA InformedPublish ==
  ASSUME ChannelOK, NEW box \in Queues, Watching(box), NEW e \in Messages, Publish(box, e),
         NEW its,
         "billing" \notin interrupted => Follows(box["billing"], box["ai"], its),
         "billing" \notin interrupted /\ e.type = "AIInsightGenerated" =>
           Told(box["billing"], its, e.subject, Len(box["billing"]))
  PROVE  "billing" \notin interrupted' => Follows(inbox'["billing"], inbox'["ai"], its)
<1> SUFFICES ASSUME "billing" \notin interrupted'
             PROVE  Follows(inbox'["billing"], inbox'["ai"], its)
  OBVIOUS
<1> DEFINE a == box["ai"]
           b == box["billing"]
           c == inbox'["ai"]
<1>1. "billing" \notin interrupted /\ inbox'["billing"] = Deliver(b, e, "billing")
  BY Delivered DEF Subscribers
<1>2. c = a \/ c = <<>> \/ (c = Append(a, e) /\ e.type \in AIEvents)
  <2>1. "ai" \in Reached(e) => e.type \in AIEvents
    BY DEF Reached, Watched
  <2>2. /\ "ai" \in Subscribers
        /\ \A s \in Subscribers :
             inbox'[s] \in {<<>>, box[s]} \/ (s \in Reached(e) /\ inbox'[s] = Append(box[s], e))
    BY DEF Publish, Subscribers
  <2> QED
    BY <2>1, <2>2
<1>3. a \in Seq(Messages) /\ b \in Seq(Messages)
  BY DEF Queues, Subscribers
<1> HIDE DEF a, b, c
<1>4. Follows(b, a, its) /\ (e.type = "AIInsightGenerated" => Told(b, its, e.subject, Len(b)))
  BY <1>1 DEF a, b
<1>5. Follows(Deliver(b, e, "billing"), c, its)
  BY <1>2, <1>3, <1>4, FollowsDeliver
<1> QED
  BY <1>1, <1>5 DEF c

LEMMA InformedItems ==
  ASSUME ChannelOK, Informed, ItemsGrow
  PROVE  "billing" \notin interrupted => Follows(inbox["billing"], inbox["ai"], items')
<1> SUFFICES ASSUME "billing" \notin interrupted
             PROVE  Follows(inbox["billing"], inbox["ai"], items')
  OBVIOUS
<1> DEFINE a == inbox["ai"]
           b == inbox["billing"]
<1>1. a \in Seq(Messages) /\ b \in Seq(Messages)
  BY DEF ChannelOK, Queues, Subscribers
<1>2. \A i \in 1..Len(a) : a[i] \in Messages /\ a[i].type \in Recorded
  BY <1>1, ElementOfSeq DEF ChannelOK, Watching, Subscribers, Watched, AIEvents, Recorded
<1>3. \A i \in 1..Len(b) : b[i] \in Messages
  BY <1>1, ElementOfSeq
<1>4. Follows(b, a, items)
  BY DEF Informed
<1> HIDE DEF a, b
<1>5. /\ \A i \in 1..Len(a) : a[i].subject \in Logs
      /\ \A i \in 1..Len(b) : b[i].type = "AIInsightGenerated" => b[i].subject \in Logs
  BY <1>2, <1>3 DEF Messages
<1>6. Follows(b, a, items')
  BY <1>1, <1>4, <1>5, FollowsGrow
<1> QED
  BY <1>6 DEF a, b

LEMMA InformedTaken ==
  ASSUME ChannelOK, Informed, ItemsGrow, NEW types, Takes("billing", types),
         NextEvent("billing").type # "AIInsightGenerated" =>
           items'[NextEvent("billing").subject] # None
  PROVE  "billing" \notin interrupted =>
           Follows(Taken("billing")["billing"], Taken("billing")["ai"], items')
<1> SUFFICES ASSUME "billing" \notin interrupted
             PROVE  Follows(Taken("billing")["billing"], Taken("billing")["ai"], items')
  OBVIOUS
<1>1. /\ inbox["billing"] \in Seq(Messages) /\ inbox["billing"] # <<>>
      /\ Taken("billing")["billing"] = Tail(inbox["billing"])
      /\ Taken("billing")["ai"] = inbox["ai"]
  BY TakenOK DEF Subscribers
<1>2. Follows(inbox["billing"], inbox["ai"], items')
  BY InformedItems
<1>3. Follows(Tail(inbox["billing"]), inbox["ai"], items')
  BY <1>1, <1>2, FollowsTailBilling DEF NextEvent
<1> QED
  BY <1>1, <1>3

LEMMA InformedNext ==
  ASSUME Typed, Informed, Next PROVE Informed'
<1> USE DEF Typed
<1>1. inbox \in Queues /\ Watching(inbox)
  BY InboxOK
<1>2. ASSUME UNCHANGED items PROVE ItemsGrow
  BY <1>2 DEF ItemsGrow
<1>3. ASSUME NEW l \in Logs, NEW type \in Announcing, NEW words \in Words, Announce(type, l, words)
      PROVE  Informed'
  <2> DEFINE e == Event(type, l, words)
  <2>1. e \in Messages /\ e.type # "AIInsightGenerated"
    BY AnnouncingAssumption, RecordedMessage DEF Recorded, Event
  <2>2. Publish(inbox, e) /\ UNCHANGED items
    BY <1>3 DEF Announce, services
  <2> QED
    BY <1>1, <2>1, <2>2, InformedPublish DEF Informed
<1>4. ASSUME NEW l \in Logs, PublishApproved(l) PROVE Informed'
  <2> DEFINE e == Event("TimeLogApproved", l, Payload(l, approved'[l]))
  <2>1. e \in Messages /\ e.type # "AIInsightGenerated"
    BY <1>4, ApprovedTyped DEF Event
  <2>2. Publish(inbox, e) /\ UNCHANGED items
    BY <1>4 DEF PublishApproved, services
  <2> QED
    BY <1>1, <2>1, <2>2, InformedPublish DEF Informed
<1>5. ASSUME NEW type \in OtherEvents, PublishOther(type) PROVE Informed'
  <2> DEFINE e == Event(type, None, None)
  <2>1. e \in Messages /\ e.type # "AIInsightGenerated"
    BY OtherAssumption, OtherMessage DEF Event
  <2>2. Publish(inbox, e) /\ UNCHANGED items
    BY <1>5 DEF PublishOther, services
  <2> QED
    BY <1>1, <2>1, <2>2, InformedPublish DEF Informed
<1>6. ASSUME NEW l \in Logs, LoadCopy(l) \/ MergeCopy(l) PROVE Informed'
  BY <1>6 DEF Informed, LoadCopy, MergeCopy, channel, services
<1>7. CASE IndexTimeEntry
  BY <1>7 DEF Informed, IndexTimeEntry, channel
<1>8. ASSUME NEW s \in {"listener", "reporting", "search", "notifier"}, NEW types,
             Takes(s, types), Silent(Taken(s)), UNCHANGED items
      PROVE  Informed'
  <2>1. /\ Taken(s) \in Queues
        /\ Taken(s)["billing"] = inbox["billing"] /\ Taken(s)["ai"] = inbox["ai"]
    BY <1>8, TakenOK DEF Subscribers
  <2> QED
    BY <1>8, <2>1, InformedSilent DEF Informed
<1>9. CASE Listen
  BY <1>8, <1>9 DEF Listen, services
<1>10. CASE Report
  BY <1>8, <1>10 DEF Report
<1>11. CASE Index
  BY <1>8, <1>11 DEF Index
<1>12. CASE InsertNotification
  BY <1>8, <1>12 DEF InsertNotification
<1>13. CASE Analyse
  <2> DEFINE m == NextEvent("ai")
             e == Event("AIInsightGenerated", m.subject, Quality(m.content))
             box == Taken("ai")
  <2>1. e \in Messages /\ e.subject = m.subject
    BY <1>13, AnalyseTyped DEF Event
  <2>2. /\ inbox["ai"] \in Seq(Messages) /\ inbox["ai"] # <<>>
        /\ box \in Queues /\ Watching(box) /\ box["ai"] = Tail(inbox["ai"])
        /\ box["billing"] = inbox["billing"] /\ inbox["billing"] \in Seq(Messages)
    BY <1>13, TakenOK DEF Analyse, Subscribers, ChannelOK, Queues
  <2>3. Publish(box, e) /\ UNCHANGED items
    BY <1>13 DEF Analyse
  <2>4. m = Head(inbox["ai"])
    BY DEF NextEvent
  <2> HIDE DEF e, m, box
  <2>5. "billing" \notin interrupted =>
          /\ Follows(box["billing"], box["ai"], items)
          /\ Told(box["billing"], items, e.subject, Len(box["billing"]))
    BY <2>1, <2>2, <2>4, FollowsTailAI DEF Informed
  <2>6. "billing" \notin interrupted' => Follows(inbox'["billing"], inbox'["ai"], items)
    BY <2>1, <2>2, <2>3, <2>5, InformedPublish
  <2> QED
    BY <2>3, <2>6 DEF Informed
<1>14. CASE UpsertLineItem
  <2>1. ItemsGrow /\ items'[NextEvent("billing").subject] # None
    BY <1>14, UpsertLineItemTyped
  <2>2. Taken("billing") \in Queues
    BY <1>14, TakenOK DEF UpsertLineItem, Subscribers
  <2>3. "billing" \notin interrupted =>
          Follows(Taken("billing")["billing"], Taken("billing")["ai"], items')
    BY <1>14, <2>1, InformedTaken DEF UpsertLineItem
  <2>4. "billing" \notin interrupted' => Follows(inbox'["billing"], inbox'["ai"], items')
    BY <1>14, <2>2, <2>3, InformedSilent DEF UpsertLineItem
  <2> QED
    BY <2>4 DEF Informed
<1>15. CASE ApplyGuardrail
  <2> DEFINE e == Event("InvoiceGenerated", Len(invoices'), None)
  <2>1. /\ ItemsGrow
        /\ Silent(Taken("billing")) \/ (e \in Messages /\ Publish(Taken("billing"), e))
    BY <1>15, ApplyGuardrailTyped
  <2>2. /\ Taken("billing") \in Queues /\ Watching(Taken("billing"))
        /\ NextEvent("billing").type = "AIInsightGenerated"
    BY <1>15, TakenOK DEF ApplyGuardrail, Subscribers
  <2>3. "billing" \notin interrupted =>
          Follows(Taken("billing")["billing"], Taken("billing")["ai"], items')
    BY <1>15, <2>1, <2>2, InformedTaken DEF ApplyGuardrail
  <2>4. e.type # "AIInsightGenerated"
    BY DEF Event
  <2> HIDE DEF e
  <2>5. "billing" \notin interrupted' => Follows(inbox'["billing"], inbox'["ai"], items')
    BY <2>1, <2>2, <2>3, <2>4, InformedSilent, InformedPublish
  <2> QED
    BY <2>5 DEF Informed
<1>16. ASSUME NEW e, e.type # "AIInsightGenerated", ItemsGrow,
              Silent(inbox) \/ (e \in Messages /\ Publish(inbox, e))
       PROVE  Informed'
  <2>1. "billing" \notin interrupted => Follows(inbox["billing"], inbox["ai"], items')
    BY <1>16, InformedItems
  <2>2. "billing" \notin interrupted' => Follows(inbox'["billing"], inbox'["ai"], items')
    BY <1>1, <1>16, <2>1, InformedSilent, InformedPublish
  <2> QED
    BY <2>2 DEF Informed
<1>17. ASSUME NEW l \in Logs, ApproveLineItem(l) PROVE Informed'
  BY <1>16, <1>17, ApproveLineItemTyped DEF Event
<1>18. ASSUME NEW n \in 1..Len(invoices), PayInvoice(n) PROVE Informed'
  <2> DEFINE e == Event("InvoicePaid", n, None)
  <2>1. ItemsGrow
    BY <1>2, <1>18 DEF PayInvoice
  <2>2. Silent(inbox) \/ (e \in Messages /\ Publish(inbox, e))
    BY <1>18, PayInvoiceTyped
  <2>3. e.type # "AIInsightGenerated"
    BY DEF Event
  <2> HIDE DEF e
  <2> QED
    BY <1>16, <2>1, <2>2, <2>3
<1>19. ASSUME NEW s \in Subscribers, Disconnect(s) PROVE Informed'
  <2>1. UNCHANGED items
    BY <1>19 DEF Disconnect
  <2>2. CASE s = "billing"
    BY <1>19, <2>2, DisconnectTyped DEF Informed
  <2>3. CASE s # "billing" /\ s # "ai"
    BY <1>19, <2>1, <2>3, DisconnectTyped DEF Informed, Subscribers
  <2>4. CASE s = "ai"
    <3>1. inbox'["ai"] = <<>> /\ inbox'["billing"] = inbox["billing"] /\ Len(<<>>) = 0
      BY <1>19, <2>4, DisconnectTyped, EmptySeq DEF Subscribers
    <3>2. "billing" \notin interrupted' => "billing" \notin interrupted
      BY <1>19, DisconnectTyped
    <3> QED
      BY <2>1, <3>1, <3>2 DEF Informed, Follows
  <2> QED
    BY <2>2, <2>3, <2>4
<1>20. ASSUME NEW s \in Subscribers, Reconnect(s) PROVE Informed'
  BY <1>20 DEF Informed, Reconnect, services
<1> QED
  BY <1>3, <1>4, <1>5, <1>6, <1>7, <1>9, <1>10, <1>11, <1>12, <1>13, <1>14, <1>15, <1>17, <1>18,
     <1>19, <1>20 DEF Next, Handle

(* The loops that keep a copy of what they are told, in a step that is not *)
(* about a log's approval and in which they do not handle an event.        *)
Hears(s, e) == /\ inbox'[s] = Deliver(inbox[s], e, s)
               /\ told' = IF e.type \in NotifierEvents THEN told + 1 ELSE told
Bystander(s) ==
  s \notin interrupted' =>
    /\ s \notin interrupted
    /\ \/ inbox'[s] = inbox[s] /\ told' = told
       \/ \E e \in Messages : e.type # "TimeLogApproved" /\ Hears(s, e)

Readers == {"reporting", "search", "notifier"}
Bystanders == UNCHANGED <<approved, facts, docs, notes>> /\ \A s \in Readers : Bystander(s)

LEMMA BystanderSilent ==
  ASSUME ChannelOK, NEW box \in Queues, Watching(box), Silent(box),
         NEW s \in Subscribers, box[s] = inbox[s]
  PROVE  Bystander(s)
BY DEF Silent, Bystander

LEMMA BystanderPublish ==
  ASSUME ChannelOK, NEW box \in Queues, Watching(box), NEW e \in Messages, Publish(box, e),
         e.type # "TimeLogApproved", NEW s \in Subscribers, box[s] = inbox[s]
  PROVE  Bystander(s)
<1>1. told' = IF e.type \in NotifierEvents THEN told + 1 ELSE told
  BY DEF Publish
<1>2. s \notin interrupted' => s \notin interrupted /\ inbox'[s] = Deliver(inbox[s], e, s)
  BY Delivered
<1> QED
  BY <1>1, <1>2 DEF Bystander, Hears

LEMMA ReaderSteps ==
  ASSUME Typed, Next
  PROVE  \/ \E l \in Logs : PublishApproved(l)
         \/ Report \/ Index \/ InsertNotification
         \/ Bystanders
<1> USE DEF Typed
<1>1. inbox \in Queues /\ Watching(inbox) /\ Readers \subseteq Subscribers
  BY InboxOK DEF Readers, Subscribers
<1>2. ASSUME NEW e, e.type # "TimeLogApproved", UNCHANGED <<approved, facts, docs, notes>>,
             Silent(inbox) \/ (e \in Messages /\ Publish(inbox, e))
      PROVE  Bystanders
  BY <1>1, <1>2, BystanderSilent, BystanderPublish DEF Bystanders
<1>3. ASSUME NEW e, e.type # "TimeLogApproved", UNCHANGED <<approved, facts, docs, notes>>,
             NEW t \in {"ai", "billing", "listener"}, NEW types, Takes(t, types),
             Silent(Taken(t)) \/ (e \in Messages /\ Publish(Taken(t), e))
      PROVE  Bystanders
  <2>1. /\ Taken(t) \in Queues /\ Watching(Taken(t))
        /\ \A s \in Readers : Taken(t)[s] = inbox[s]
    BY <1>3, TakenOK DEF Readers, Subscribers
  <2> QED
    BY <1>1, <1>3, <2>1, BystanderSilent, BystanderPublish DEF Bystanders
<1>4. ASSUME UNCHANGED <<inbox, interrupted, told, approved, facts, docs, notes>> PROVE Bystanders
  BY <1>4 DEF Bystanders, Bystander
<1>5. ASSUME NEW l \in Logs, NEW type \in Announcing, NEW words \in Words, Announce(type, l, words)
      PROVE  Bystanders
  <2>1. /\ Event(type, l, words) \in Messages
        /\ Event(type, l, words).type # "TimeLogApproved"
    BY AnnouncingAssumption, RecordedMessage DEF Recorded, Event
  <2>2. Publish(inbox, Event(type, l, words)) /\ UNCHANGED <<approved, facts, docs, notes>>
    BY <1>5 DEF Announce, services
  <2> QED
    BY <1>2, <2>1, <2>2
<1>6. ASSUME NEW type \in OtherEvents, PublishOther(type) PROVE Bystanders
  <2>1. /\ Event(type, None, None) \in Messages
        /\ Event(type, None, None).type # "TimeLogApproved"
    BY OtherAssumption, OtherMessage DEF Event
  <2>2. Publish(inbox, Event(type, None, None)) /\ UNCHANGED <<approved, facts, docs, notes>>
    BY <1>6 DEF PublishOther, services
  <2> QED
    BY <1>2, <2>1, <2>2
<1>7. ASSUME NEW l \in Logs, LoadCopy(l) \/ MergeCopy(l) PROVE Bystanders
  BY <1>4, <1>7 DEF LoadCopy, MergeCopy, channel, services
<1>8. ASSUME NEW l \in Logs, ApproveLineItem(l) PROVE Bystanders
  <2> DEFINE e == Event("InvoiceGenerated", Len(invoices'), None)
  <2>1. Silent(inbox) \/ (e \in Messages /\ Publish(inbox, e))
    BY <1>8, ApproveLineItemTyped
  <2>2. e.type # "TimeLogApproved" /\ UNCHANGED <<approved, facts, docs, notes>>
    BY <1>8 DEF Event, ApproveLineItem, backend
  <2> HIDE DEF e
  <2> QED
    BY <1>2, <2>1, <2>2
<1>9. ASSUME NEW n \in 1..Len(invoices), PayInvoice(n) PROVE Bystanders
  <2> DEFINE e == Event("InvoicePaid", n, None)
  <2>1. Silent(inbox) \/ (e \in Messages /\ Publish(inbox, e))
    BY <1>9, PayInvoiceTyped
  <2>2. e.type # "TimeLogApproved" /\ UNCHANGED <<approved, facts, docs, notes>>
    BY <1>9 DEF Event, PayInvoice, backend
  <2> HIDE DEF e
  <2> QED
    BY <1>2, <2>1, <2>2
<1>10. CASE IndexTimeEntry
  BY <1>4, <1>10 DEF IndexTimeEntry, channel, backend
<1>11. CASE Analyse
  <2> DEFINE m == NextEvent("ai")
             e == Event("AIInsightGenerated", m.subject, Quality(m.content))
  <2>1. e \in Messages /\ Publish(Taken("ai"), e)
    BY <1>11, AnalyseTyped DEF Analyse
  <2>2. /\ e.type # "TimeLogApproved" /\ UNCHANGED <<approved, facts, docs, notes>>
        /\ Takes("ai", AIEvents)
    BY <1>11 DEF Event, Analyse, backend
  <2> HIDE DEF e
  <2> QED
    BY <1>3, <2>1, <2>2
<1>12. CASE Listen \/ UpsertLineItem
  <2> DEFINE e == Event("AIInsightGenerated", None, None)
  <2>1. /\ e.type # "TimeLogApproved" /\ UNCHANGED <<approved, facts, docs, notes>>
        /\ \E t \in {"billing", "listener"} : (\E types : Takes(t, types)) /\ Silent(Taken(t))
    BY <1>12 DEF Event, Listen, UpsertLineItem, services, backend
  <2> HIDE DEF e
  <2> QED
    BY <1>3, <2>1
<1>13. CASE ApplyGuardrail
  <2> DEFINE e == Event("InvoiceGenerated", Len(invoices'), None)
  <2>1. Silent(Taken("billing")) \/ (e \in Messages /\ Publish(Taken("billing"), e))
    BY <1>13, ApplyGuardrailTyped
  <2>2. /\ e.type # "TimeLogApproved" /\ UNCHANGED <<approved, facts, docs, notes>>
        /\ Takes("billing", {"AIInsightGenerated"})
    BY <1>13 DEF Event, ApplyGuardrail, backend
  <2> HIDE DEF e
  <2> QED
    BY <1>3, <2>1, <2>2
<1>14. ASSUME NEW t \in Subscribers, Disconnect(t) PROVE Bystanders
  <2>1. UNCHANGED <<approved, facts, docs, notes, told>>
    BY <1>14 DEF Disconnect, backend
  <2>2. ASSUME NEW s \in Readers, s \notin interrupted'
        PROVE  s \notin interrupted /\ inbox'[s] = inbox[s]
    BY <1>1, <1>14, <2>2, DisconnectTyped
  <2> QED
    BY <2>1, <2>2 DEF Bystanders, Bystander
<1>15. ASSUME NEW t \in Subscribers, Reconnect(t) PROVE Bystanders
  BY <1>4, <1>15 DEF Reconnect, backend, services
<1> QED
  BY <1>5, <1>6, <1>7, <1>8, <1>9, <1>10, <1>11, <1>12, <1>13, <1>14, <1>15 DEF Next, Handle

LEMMA ReplaysDeliver ==
  ASSUME NEW q \in Seq(Messages), NEW v, NEW count, Replays(q, v, count), NEW e \in Messages,
         e.type # "TimeLogApproved", NEW s
  PROVE  Replays(Deliver(q, e, s), v, count)
<1>1. \A l : ~Approval(e, l)
  BY DEF Approval
<1> QED
  BY <1>1, HoldsAppendOther DEF Replays, Deliver

LEMMA ReplaysApproval ==
  ASSUME Typed, NEW l \in Logs, PublishApproved(l), NEW s \in {"reporting", "search"},
         s \notin interrupted', NEW v, s \notin interrupted => Replays(inbox[s], v, approved)
  PROVE  Replays(inbox'[s], v, approved')
<1> DEFINE said == Payload(l, approved'[l])
           e == Event("TimeLogApproved", l, said)
           q == inbox[s]
<1>1. /\ e \in Messages /\ \A k \in Logs \ {l} : approved'[k] = approved[k]
  BY ApprovedTyped
<1>2. s \notin interrupted /\ inbox'[s] = Deliver(q, e, s)
  BY <1>1, InboxOK, Delivered DEF Typed, PublishApproved, Subscribers
<1>3. inbox'[s] = Append(q, e) /\ q \in Seq(Messages)
  BY <1>2 DEF Deliver, Watched, ReportingEvents, SearchEvents, Event, Typed, ChannelOK, Queues, Subscribers
<1>4. Approval(e, l) /\ e.content = said /\ \A k \in Logs \ {l} : ~Approval(e, k)
  BY DEF Approval, Event
<1>5. Replays(q, v, approved)
  BY <1>2
<1> HIDE DEF e, q
<1>6. ASSUME NEW k \in Logs, approved'[k] > 0
      PROVE  Holds(Append(q, e), k, Payload(k, approved'[k]), v[k])
  <2>1. CASE k = l
    BY <1>1, <1>3, <1>4, <2>1, HoldsAppendNew
  <2>2. CASE k # l
    <3>1. Holds(q, k, Payload(k, approved[k]), v[k]) /\ approved'[k] = approved[k]
      BY <1>1, <1>5, <1>6, <2>2 DEF Replays
    <3> QED
      BY <1>1, <1>3, <1>4, <2>2, <3>1, HoldsAppendOther
  <2> QED
    BY <2>1, <2>2
<1> QED
  BY <1>3, <1>6 DEF Replays

LEMMA ReplaysTail ==
  ASSUME NEW q \in Seq(Messages), q # <<>>, NEW v, NEW w, NEW count, Replays(q, v, count),
         \A l \in Logs : w[l] = IF Approval(Head(q), l) THEN Head(q).content ELSE v[l]
  PROVE  Replays(Tail(q), w, count)
BY HoldsTail DEF Replays

LEMMA ReplaysBystander ==
  ASSUME ChannelOK, NEW s \in Subscribers, Bystander(s), s \notin interrupted', NEW v,
         s \notin interrupted => Replays(inbox[s], v, approved)
  PROVE  Replays(inbox'[s], v, approved)
<1>1. inbox[s] \in Seq(Messages)
  BY DEF ChannelOK, Queues
<1> QED
  BY <1>1, ReplaysDeliver DEF Bystander, Hears

LEMMA NotedDeliver ==
  ASSUME Typed, NEW e \in Messages, Hears("notifier", e), notes + Len(inbox["notifier"]) = told
  PROVE  notes + Len(inbox'["notifier"]) = told'
<1>1. inbox["notifier"] \in Seq(Messages)
  BY DEF Typed, ChannelOK, Queues, Subscribers
<1>2. Len(inbox["notifier"]) \in Nat /\ notes \in Nat /\ told \in Nat
  BY <1>1, LenProperties DEF Typed, ReadersOK
<1>3. Watched("notifier") = NotifierEvents
  BY DEF Watched
<1>4. CASE e.type \in NotifierEvents
  <2>1. told' = told + 1 /\ inbox'["notifier"] = Append(inbox["notifier"], e)
    BY <1>3, <1>4 DEF Hears, Deliver
  <2>2. Len(inbox'["notifier"]) = Len(inbox["notifier"]) + 1
    BY <1>1, <2>1, Appended
  <2> QED
    BY <1>2, <2>1, <2>2
<1>5. CASE e.type \notin NotifierEvents
  BY <1>3, <1>5 DEF Hears, Deliver
<1> QED
  BY <1>4, <1>5

LEMMA ReadersNext ==
  ASSUME Typed, Reported, Searched, Noted, Next
  PROVE  Reported' /\ Searched' /\ Noted'
<1> USE DEF Typed
<1>1. {"reporting", "search", "notifier"} \subseteq Subscribers /\ Logged' = [l \in Logs |-> Logged'[l]]
  BY DEF Subscribers, Logged
<1>2. ASSUME NEW s \in Readers, NEW t \in Readers \ {s}, NEW types, Takes(s, types), Silent(Taken(s))
      PROVE  inbox'[t] = inbox[t] /\ UNCHANGED <<interrupted, told>>
  BY <1>1, <1>2, TakenOK DEF Silent, Readers
<1>3. ASSUME NEW s \in Readers, NEW types, Takes(s, types), Silent(Taken(s))
      PROVE  /\ inbox[s] \in Seq(Messages) /\ inbox[s] # <<>>
             /\ inbox'[s] = Tail(inbox[s]) /\ UNCHANGED <<interrupted, told>>
  BY <1>1, <1>3, TakenOK DEF Silent, Readers
<1>4. ASSUME NEW l \in Logs, PublishApproved(l)
      PROVE  Reported' /\ Searched' /\ Noted'
  <2>1. UNCHANGED <<Logged, docs, notes>>
    BY <1>4 DEF PublishApproved, services, Logged
  <2>2. Reported' /\ Searched'
    BY <1>4, <2>1, ReplaysApproval DEF Reported, Searched
  <2> DEFINE e == Event("TimeLogApproved", l, Payload(l, approved'[l]))
  <2>3. e \in Messages /\ Publish(inbox, e)
    BY <1>4, ApprovedTyped DEF PublishApproved
  <2> HIDE DEF e
  <2>4. told' = IF e.type \in NotifierEvents THEN told + 1 ELSE told
    BY <2>3 DEF Publish
  <2>5. "notifier" \notin interrupted' => "notifier" \notin interrupted /\ Hears("notifier", e)
    BY <1>1, <2>3, <2>4, InboxOK, Delivered DEF Hears
  <2>6. Noted'
    BY <2>1, <2>3, <2>5, NotedDeliver DEF Noted
  <2> QED
    BY <2>2, <2>6
<1>5. CASE Report
  <2>1. /\ Takes("reporting", ReportingEvents) /\ Silent(Taken("reporting"))
        /\ UNCHANGED <<approved, docs, notes>>
    BY <1>5 DEF Report, backend
  <2>2. /\ inbox["reporting"] \in Seq(Messages) /\ inbox["reporting"] # <<>>
        /\ inbox'["reporting"] = Tail(inbox["reporting"]) /\ UNCHANGED <<interrupted, told>>
        /\ inbox'["search"] = inbox["search"] /\ inbox'["notifier"] = inbox["notifier"]
    BY <1>2, <1>3, <2>1 DEF Readers
  <2>3. \A l \in Logs :
          Logged'[l] = IF Approval(Head(inbox["reporting"]), l)
                       THEN Head(inbox["reporting"]).content ELSE Logged[l]
    BY <1>5, ReportTyped DEF Approval, NextEvent
  <2>4. Reported'
    BY <2>1, <2>2, <2>3, ReplaysTail DEF Reported
  <2> QED
    BY <2>1, <2>2, <2>4 DEF Searched, Noted
<1>6. CASE Index
  <2>1. /\ Takes("search", SearchEvents) /\ Silent(Taken("search"))
        /\ UNCHANGED <<approved, Logged, notes>>
    BY <1>6 DEF Index, backend, Logged
  <2>2. /\ inbox["search"] \in Seq(Messages) /\ inbox["search"] # <<>>
        /\ inbox'["search"] = Tail(inbox["search"]) /\ UNCHANGED <<interrupted, told>>
        /\ inbox'["reporting"] = inbox["reporting"] /\ inbox'["notifier"] = inbox["notifier"]
    BY <1>2, <1>3, <2>1 DEF Readers
  <2>3. \A l \in Logs :
          docs'[l] = IF Approval(Head(inbox["search"]), l)
                     THEN Head(inbox["search"]).content ELSE docs[l]
    BY <1>6, IndexTyped DEF Approval, NextEvent
  <2>4. Searched'
    BY <2>1, <2>2, <2>3, ReplaysTail DEF Searched
  <2> QED
    BY <2>1, <2>2, <2>4 DEF Reported, Noted
<1>7. CASE InsertNotification
  <2>1. /\ Takes("notifier", NotifierEvents) /\ Silent(Taken("notifier"))
        /\ UNCHANGED <<approved, Logged, docs>> /\ notes' = notes + 1 /\ notes \in Nat
    BY <1>7 DEF InsertNotification, backend, Logged, ReadersOK
  <2>2. /\ inbox["notifier"] \in Seq(Messages) /\ inbox["notifier"] # <<>>
        /\ inbox'["notifier"] = Tail(inbox["notifier"]) /\ UNCHANGED <<interrupted, told>>
        /\ inbox'["reporting"] = inbox["reporting"] /\ inbox'["search"] = inbox["search"]
    BY <1>2, <1>3, <2>1 DEF Readers
  <2>3. /\ Len(inbox["notifier"]) \in Nat \ {0}
        /\ Len(inbox'["notifier"]) = Len(inbox["notifier"]) - 1
    BY <2>2, Shortened
  <2>4. /\ told' = told /\ interrupted' = interrupted
        /\ notes' + Len(inbox'["notifier"]) = notes + Len(inbox["notifier"])
    <3>1. \A n \in Nat, m \in Nat \ {0} : (n + 1) + (m - 1) = n + m
      OBVIOUS
    <3>2. notes' = notes + 1 /\ notes \in Nat
      BY <2>1
    <3> QED
      BY <2>2, <2>3, <3>1, <3>2, Zenon
  <2>5. Noted'
    BY <2>4 DEF Noted
  <2> QED
    BY <2>1, <2>2, <2>5 DEF Reported, Searched
<1>8. CASE Bystanders
  <2>1. UNCHANGED <<approved, Logged, docs, notes>> /\ \A s \in Readers : Bystander(s)
    BY <1>8 DEF Bystanders, Logged
  <2>2. Reported' /\ Searched'
    BY <1>1, <2>1, ReplaysBystander DEF Reported, Searched, Readers
  <2>3. Noted'
    BY <2>1, NotedDeliver DEF Noted, Bystander, Readers
  <2> QED
    BY <2>2, <2>3
<1> QED
  BY <1>4, <1>5, <1>6, <1>7, <1>8, ReaderSteps

LEMMA Initially == Init => Inv
<1> SUFFICES ASSUME Init PROVE Inv
  OBVIOUS
<1>1. <<>> \in Seq(Messages) /\ Len(<<>>) = 0 /\ <<>> \in Seq([lines : SUBSET Logs, paid : BOOLEAN])
  BY EmptySeq
<1>2. ChannelOK
  <2>1. inbox \in Queues /\ \A s \in Subscribers : inbox[s] = <<>>
    BY <1>1 DEF Init, Queues
  <2> QED
    BY <1>1, <2>1 DEF Init, ChannelOK, Watching
<1>3. Typed
  BY <1>1, <1>2, BoundsAssumption DEF Init, Typed, BackendOK, AIOK, BillingOK, ReadersOK
<1>4. Indexed
  BY DEF Init, Indexed
<1>5. \A s \in Subscribers : inbox[s] = <<>>
  BY DEF Init
<1>6. Informed
  BY <1>1, <1>5 DEF Informed, Follows, Subscribers
<1>7. Reported /\ Searched
  BY BoundsAssumption DEF Init, Reported, Searched, Replays
<1>8. Noted
  BY <1>1, <1>5 DEF Init, Noted, Subscribers
<1> QED
  BY <1>3, <1>4, <1>6, <1>7, <1>8 DEF Inv

LEMMA Stutter ==
  ASSUME Inv, UNCHANGED vars PROVE Inv'
<1>1. ChannelOK'
  BY ChannelUnchanged DEF Inv, Typed, vars
<1>2. Typed'
  BY <1>1 DEF Inv, Typed, vars, backend, services, BackendOK, AIOK, BillingOK, ReadersOK
<1> QED
  BY <1>2 DEF Inv, Indexed, Informed, Reported, Searched, Noted, Logged,
              vars, channel, backend, services

(* Inv holds in every state.                                               *)
THEOREM Invariance == Spec => []Inv
<1>1. Inv /\ [Next]_vars => Inv'
  <2>1. CASE Next
    BY <2>1, TypedNext, IndexedNext, InformedNext, ReadersNext DEF Inv
  <2>2. CASE UNCHANGED vars
    BY <2>2, Stutter
  <2> QED
    BY <2>1, <2>2
<1> QED
  BY Initially, <1>1, PTL DEF Spec

(* The tables of the services and the buffers always have their shape.     *)
THEOREM TypeCorrect == Spec => []TypeOK
<1>1. Inv => TypeOK
  <2> SUFFICES ASSUME Inv PROVE TypeOK
    OBVIOUS
  <2> USE DEF Inv, Typed
  <2>1. /\ \A s \in Subscribers : \A i \in 1..Len(inbox[s]) : inbox[s][i].type \in Watched(s)
        /\ interrupted \subseteq Subscribers /\ Subscribers \ interrupted \subseteq online
    BY DEF ChannelOK, Watching
  <2>2. recorded \cup insights \cup entries \cup overwritten \subseteq Logs
    BY DEF BackendOK, AIOK
  <2>3. ASSUME NEW l \in Logs
        PROVE  /\ row[l] \in Scores \cup {None} /\ copy[l] \subseteq Scores \cup {None}
               /\ items[l] \in Statuses \cup {None}
               /\ docs[l] \in Said \cup {None} /\ facts[l] \in Fact \cup {None}
    BY DEF BackendOK, BillingOK, ReadersOK
  <2> QED
    BY <2>1, <2>2, <2>3 DEF TypeOK
<1> QED
  BY Invariance, <1>1, PTL

(* At a billing service that was never interrupted an insight always finds *)
(* the line item of its log.                                               *)
THEOREM InsightsFindTheirItem == Spec => []InsightFindsItem
<1>1. Inv => InsightFindsItem
  BY DEF Inv, Informed, Follows, Told, InsightFindsItem
<1> QED
  BY Invariance, <1>1, PTL

(* Reporting and search service hold the latest approval of each log, and  *)
(* each event has its notification, in every service that has not been     *)
(* interrupted and has handled all it was sent.                            *)
THEOREM ServicesCatchUp == Spec => []CaughtUp
<1>1. Inv => CaughtUp
  <2> SUFFICES ASSUME Inv PROVE CaughtUp
    OBVIOUS
  <2>1. \A l, x, v : Holds(<<>>, l, x, v) => v = x
    BY EmptySeq DEF Holds
  <2>2. ASSUME NEW l \in Logs, approved[l] > 0
        PROVE  Payload(l, approved[l]) \in Said /\ Payload(l, approved[l]) # None
    <3>1. approved[l] \in 1..MaxEvents
      BY <2>2, BoundsAssumption DEF Inv, Typed, BackendOK
    <3> QED
      BY <3>1, PayloadSaid, NoneAssumption
  <2>3. ASSUME NEW l \in Logs, approved[l] > 0, Drained("reporting")
        PROVE  facts[l] # None /\ facts[l].log = Payload(l, approved[l])
    <3>1. Logged[l] = Payload(l, approved[l])
      BY <2>1, <2>3 DEF Inv, Reported, Replays, Drained
    <3> QED
      BY <2>2, <2>3, <3>1 DEF Logged
  <2>4. ASSUME NEW l \in Logs, approved[l] > 0, Drained("search")
        PROVE  docs[l] = Payload(l, approved[l])
    BY <2>1, <2>4 DEF Inv, Searched, Replays, Drained
  <2>5. Drained("notifier") => notes = told
    <3>1. Len(<<>>) = 0 /\ notes \in Nat
      BY EmptySeq DEF Inv, Typed, ReadersOK
    <3> QED
      BY <3>1 DEF Inv, Noted, Drained
  <2> QED
    BY <2>3, <2>4, <2>5 DEF CaughtUp
<1> QED
  BY Invariance, <1>1, PTL

(* The AI service indexes a log only after its insight was published, and  *)
(* no interruption makes it index another.                                 *)
THEOREM IndexedAfterInsight == Spec => []IndexedWasAnalysed
<1>1. Inv => IndexedWasAnalysed
  BY DEF Inv, Indexed, IndexedWasAnalysed
<1> QED
  BY Invariance, <1>1, PTL
=============================================================================

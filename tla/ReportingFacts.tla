--------------------------- MODULE ReportingFacts ---------------------------
(***************************************************************************)
(* The fact table of the reporting service (services/reporting-service/    *)
(* main.py) for one tenant, as pure functions: what each event handler     *)
(* makes of the table.  A fact holds what the approval event said of the   *)
(* log (its `log`, with at least a cost and a billable flag), the AI       *)
(* insight, and what payments did to it.                                   *)
(***************************************************************************)
EXTENDS Integers
CONSTANT None

\* Variants with a fault: an update that changes only the columns that an
\* INSERT sets first; one that forgets the payment.
KeepsFirst(facts, l, said) ==
  IF facts[l] # None THEN facts
  ELSE [facts EXCEPT ![l] = [log |-> said, insight |-> None, paid |-> FALSE, amount |-> 0]]
ForgetsPayment(facts, l, said) ==
  [facts EXCEPT ![l] = [log |-> said, insight |-> None, paid |-> FALSE, amount |-> 0]]

(* handle_time_log_approved: an upsert; the UPDATE leaves the insight and  *)
(* the payment alone.                                                      *)
Upserted(facts, l, said) ==
  [facts EXCEPT ![l] =
     IF @ = None THEN [log |-> said, insight |-> None, paid |-> FALSE, amount |-> 0]
                 ELSE [@ EXCEPT !.log = said]]

\* Variant with a fault: a log without a fact gets one of the insight alone.
EnrichedOrInserted(facts, l, insight) ==
  [facts EXCEPT ![l] = IF @ = None THEN [insight |-> insight] ELSE [@ EXCEPT !.insight = insight]]

(* handle_ai_insight: nothing happens to a log without a fact.             *)
Enriched(facts, l, insight) ==
  IF facts[l] = None THEN facts ELSE [facts EXCEPT ![l].insight = insight]

\* Variant with a fault: facts that are paid are paid again.
PaidAgain(facts) ==
  [l \in DOMAIN facts |->
     IF facts[l] # None /\ facts[l].log.billable
     THEN [facts[l] EXCEPT !.paid = TRUE, !.amount = @ + facts[l].log.cost]
     ELSE facts[l]]

(* handle_invoice_paid: every unpaid billable fact of the tenant.          *)
MarkedPaid(facts) ==
  [l \in DOMAIN facts |->
     IF facts[l] # None /\ facts[l].log.billable /\ ~facts[l].paid
     THEN [facts[l] EXCEPT !.paid = TRUE, !.amount = facts[l].log.cost]
     ELSE facts[l]]
=============================================================================

-------------------------- MODULE ReportingProofs --------------------------
(***************************************************************************)
(* The tables of Reporting for any logs, users, projects and dates, any    *)
(* events and any number of them.                                          *)
(***************************************************************************)
EXTENDS Reporting, FiniteSums

(* What an event handler makes of the fact of one log: nothing if there is *)
(* none, and what is paid is left alone.                                   *)
Kept(old, new) == old # None => new # None /\ (old.paid => new.paid /\ new.amount = old.amount)
Handled(l) == facts'[l] \in Fact \cup {None} /\ Kept(facts[l], facts'[l])

LEMMA FactIsSomething == \A f \in Fact : f # None
BY NoneAssumption

LEMMA FactOfApproval ==
  ASSUME NEW f \in Fact, NEW said \in Said
  PROVE  [f EXCEPT !.log = said] \in Fact /\ Kept(f, [f EXCEPT !.log = said])
<1>1. [f EXCEPT !.log = said] \in Fact
  BY DEF Fact
<1>2. /\ f.paid => [f EXCEPT !.log = said].paid
      /\ [f EXCEPT !.log = said].amount = f.amount
  BY DEF Fact
<1> QED
  BY <1>1, <1>2, FactIsSomething DEF Kept

LEMMA NewFact ==
  ASSUME NEW said \in Said
  PROVE  [log |-> said, insight |-> None, paid |-> FALSE, amount |-> 0] \in Fact
BY DEF Fact

LEMMA FactOfInsight ==
  ASSUME NEW f \in Fact, NEW insight \in Insight
  PROVE  [f EXCEPT !.insight = insight] \in Fact /\ Kept(f, [f EXCEPT !.insight = insight])
<1>1. [f EXCEPT !.insight = insight] \in Fact
  BY DEF Fact
<1>2. /\ f.paid => [f EXCEPT !.insight = insight].paid
      /\ [f EXCEPT !.insight = insight].amount = f.amount
  BY DEF Fact
<1> QED
  BY <1>1, <1>2, FactIsSomething DEF Kept

LEMMA FactOfPayment ==
  ASSUME NEW f \in Fact, ~f.paid
  PROVE  LET new == [f EXCEPT !.paid = TRUE, !.amount = f.log.cost] IN
         new \in Fact /\ Kept(f, new)
<1> DEFINE new == [f EXCEPT !.paid = TRUE, !.amount = f.log.cost]
<1>1. f.log.cost \in Nat
  BY DEF Fact, Said
<1>2. new \in Fact
  BY <1>1 DEF Fact
<1> QED
  BY <1>2, FactIsSomething DEF Kept

(* A log without a fact is approved for the first time; every handler      *)
(* keeps the facts there are, and what was paid for them.                  *)
LEMMA ApprovalKeeps ==
  ASSUME TypeOK, NEW l \in Logs, NEW said \in Said, TimeLogApproved(l, said)
  PROVE  /\ DOMAIN facts' = Logs /\ facts'[l] # None
         /\ \A k \in Logs : Handled(k)
<1> DEFINE new == IF facts[l] = None
                  THEN [log |-> said, insight |-> None, paid |-> FALSE, amount |-> 0]
                  ELSE [facts[l] EXCEPT !.log = said]
<1>1. facts \in [Logs -> Fact \cup {None}]
  BY DEF TypeOK
<1>2. new \in Fact /\ Kept(facts[l], new)
  <2>1. CASE facts[l] = None
    BY <2>1, NewFact DEF Kept
  <2>2. CASE facts[l] # None
    BY <1>1, <2>2, FactOfApproval
  <2> QED
    BY <2>1, <2>2
<1>3. facts' = [facts EXCEPT ![l] = new]
  BY DEF TimeLogApproved, Upserted
<1> HIDE DEF new
<1> QED
  BY <1>1, <1>2, <1>3, FactIsSomething DEF Handled, Kept

LEMMA InsightKeeps ==
  ASSUME TypeOK, NEW l \in Logs, NEW insight \in Insight, AIInsight(l, insight)
  PROVE  DOMAIN facts' = Logs /\ \A k \in Logs : Handled(k)
<1> DEFINE new == [facts[l] EXCEPT !.insight = insight]
<1>1. facts \in [Logs -> Fact \cup {None}]
  BY DEF TypeOK
<1>2. CASE facts[l] = None
  BY <1>1, <1>2 DEF AIInsight, Enriched, Handled, Kept
<1>3. CASE facts[l] # None
  <2>1. new \in Fact /\ Kept(facts[l], new)
    BY <1>1, <1>3, FactOfInsight
  <2>2. facts' = [facts EXCEPT ![l] = new]
    BY <1>3 DEF AIInsight, Enriched
  <2> HIDE DEF new
  <2> QED
    BY <1>1, <2>1, <2>2 DEF Handled, Kept
<1> QED
  BY <1>2, <1>3

LEMMA PaymentKeeps ==
  ASSUME TypeOK, InvoicePaid
  PROVE  DOMAIN facts' = Logs /\ \A k \in Logs : Handled(k)
<1>1. facts \in [Logs -> Fact \cup {None}] /\ facts' = MarkedPaid(facts)
  BY DEF TypeOK, InvoicePaid
<1>2. DOMAIN facts' = Logs
  BY <1>1 DEF MarkedPaid
<1>3. ASSUME NEW k \in Logs PROVE Handled(k)
  <2> DEFINE f == facts[k]
             new == [f EXCEPT !.paid = TRUE, !.amount = f.log.cost]
  <2>1. CASE f # None /\ f.log.billable /\ ~f.paid
    <3>1. new \in Fact /\ Kept(f, new)
      BY <1>1, <2>1, FactOfPayment
    <3>2. facts'[k] = new
      BY <1>1, <2>1 DEF MarkedPaid
    <3> HIDE DEF new
    <3> QED
      BY <3>1, <3>2 DEF Handled
  <2>2. CASE ~(f # None /\ f.log.billable /\ ~f.paid)
    <3>1. facts'[k] = f
      BY <1>1, <2>2 DEF MarkedPaid
    <3> QED
      BY <1>1, <3>1 DEF Handled, Kept
  <2> QED
    BY <2>1, <2>2
<1> QED
  BY <1>2, <1>3

LEMMA BudgetKeeps ==
  ASSUME TypeOK, UNCHANGED facts
  PROVE  DOMAIN facts' = Logs /\ \A k \in Logs : Handled(k)
BY DEF TypeOK, Handled, Kept

LEMMA StepKeeps ==
  ASSUME TypeOK, [Next]_vars
  PROVE  TypeOK' /\ \A k \in Logs : Handled(k)
<1>1. DOMAIN facts' = Logs /\ \A k \in Logs : Handled(k)
  <2>1. ASSUME NEW l \in Logs, NEW said \in Approvals, TimeLogApproved(l, said)
        PROVE  DOMAIN facts' = Logs /\ \A k \in Logs : Handled(k)
    BY <2>1, ApprovalKeeps, InputAssumption
  <2>2. ASSUME NEW l \in Logs, NEW insight \in Insights, AIInsight(l, insight)
        PROVE  DOMAIN facts' = Logs /\ \A k \in Logs : Handled(k)
    BY <2>2, InsightKeeps, InputAssumption
  <2>3. ASSUME NEW p \in Projects, NEW b \in Budgets, SetProjectBudget(p, b)
        PROVE  DOMAIN facts' = Logs /\ \A k \in Logs : Handled(k)
    BY <2>3, BudgetKeeps DEF SetProjectBudget
  <2> QED
    BY <2>1, <2>2, <2>3, PaymentKeeps, BudgetKeeps DEF Next, vars
<1>2. facts' \in [Logs -> Fact \cup {None}]
  <2>1. facts' = [l \in Logs |-> facts'[l]]
    <3>1. CASE UNCHANGED facts
      BY <3>1 DEF TypeOK
    <3>2. ASSUME NEW l \in Logs, NEW said \in Approvals, TimeLogApproved(l, said)
          PROVE  facts' = [k \in Logs |-> facts'[k]]
      BY <3>2 DEF TypeOK, TimeLogApproved, Upserted
    <3>3. ASSUME NEW l \in Logs, NEW insight \in Insights, AIInsight(l, insight)
          PROVE  facts' = [k \in Logs |-> facts'[k]]
      BY <3>3 DEF TypeOK, AIInsight, Enriched
    <3>4. CASE InvoicePaid
      BY <3>4 DEF TypeOK, InvoicePaid, MarkedPaid
    <3> QED
      BY <3>1, <3>2, <3>3, <3>4 DEF Next, SetProjectBudget, vars
  <2> QED
    BY <1>1, <2>1 DEF Handled
<1>3. budgets' \in [Projects -> Budget \cup {None}]
  BY InputAssumption
  DEF TypeOK, Next, TimeLogApproved, AIInsight, InvoicePaid, SetProjectBudget, vars
<1>4. Rows \subseteq Rows'
  BY <1>1 DEF Rows, Handled, Kept
<1>5. reapproved' \subseteq {l \in Rows' : facts'[l].paid}
  <2>1. reapproved' \subseteq {l \in Rows : facts[l].paid}
    <3>1. ASSUME NEW l \in Logs, NEW said \in Approvals, TimeLogApproved(l, said)
          PROVE  reapproved' \subseteq {k \in Rows : facts[k].paid}
      BY <3>1 DEF TypeOK, TimeLogApproved, Rows
    <3>2. CASE UNCHANGED reapproved
      BY <3>2 DEF TypeOK
    <3> QED
      BY <3>1, <3>2 DEF Next, AIInsight, InvoicePaid, SetProjectBudget, vars
  <2> QED
    BY <1>1, <1>4, <2>1 DEF Rows, Handled, Kept
<1> QED
  BY <1>1, <1>2, <1>3, <1>5 DEF TypeOK

(* The fact table and the budgets always have their shape.                 *)
THEOREM TypeCorrect == Spec => []TypeOK
<1>1. Init => TypeOK
  BY DEF Init, TypeOK
<1>2. TypeOK /\ [Next]_vars => TypeOK'
  BY StepKeeps
<1> QED
  BY <1>1, <1>2, PTL DEF Spec

(* No event takes a payment back or books it again, whatever is approved,  *)
(* analysed or paid after it.                                              *)
THEOREM PaymentsAreKept == Spec => PaidAmountIsKept
<1> DEFINE A == \A l \in Rows : facts[l].paid =>
                  /\ facts'[l] # None /\ facts'[l].paid
                  /\ facts'[l].amount = facts[l].amount
<1>1. TypeOK /\ [Next]_vars => [A]_vars
  BY StepKeeps DEF Rows, Handled, Kept
<1> QED
  BY TypeCorrect, <1>1, PTL DEF Spec, PaidAmountIsKept
-----------------------------------------------------------------------------
(* The reports.  Every aggregate over a set of rows is a sum of one of     *)
(* these columns.                                                          *)
HoursColumn == [l \in Rows |-> facts[l].log.hours]
CostColumn == [l \in Rows |-> facts[l].log.cost]
AmountColumn == [l \in Rows |-> facts[l].amount]
QualityColumn == [l \in Scored(Rows) |-> facts[l].insight.quality]
Ones == [l \in Rows |-> 1]

LEMMA Columns ==
  ASSUME TypeOK
  PROVE  /\ IsFiniteSet(Rows) /\ Rows \in SUBSET Logs
         /\ \A l \in Rows : /\ facts[l] \in Fact /\ Week(l) \in Int
                            /\ HoursColumn[l] \in Nat /\ CostColumn[l] \in Nat
                            /\ AmountColumn[l] \in Nat /\ Ones[l] \in Nat
         /\ \A l \in Scored(Rows) : QualityColumn[l] \in Nat
<1>1. Rows \in SUBSET Logs
  BY DEF Rows
<1>2. IsFiniteSet(Rows)
  BY <1>1, FiniteAssumption, FS_Subset
<1>3. ASSUME NEW l \in Rows
      PROVE  /\ facts[l] \in Fact /\ Week(l) \in Int
             /\ HoursColumn[l] \in Nat /\ CostColumn[l] \in Nat
             /\ AmountColumn[l] \in Nat /\ Ones[l] \in Nat
  <2>1. facts[l] \in Fact
    BY DEF Rows, TypeOK
  <2>2. facts[l].log \in Said /\ facts[l].amount \in Nat
    BY <2>1 DEF Fact
  <2>3. facts[l].log.hours \in Nat /\ facts[l].log.cost \in Nat /\ facts[l].log.date \in Nat
    BY <2>2, DatesAssumption DEF Said
  <2>4. Week(l) \in Int
    BY <2>3 DEF Week
  <2> QED
    BY <2>1, <2>2, <2>3, <2>4 DEF HoursColumn, CostColumn, AmountColumn, Ones
<1>4. ASSUME NEW l \in Scored(Rows)
      PROVE  QualityColumn[l] \in Nat
  <2>1. l \in Rows /\ facts[l].insight # None
    BY DEF Scored
  <2>2. facts[l].insight \in Insight
    BY <1>3, <2>1 DEF Fact
  <2>3. facts[l].insight.quality \in Nat
    BY <2>2 DEF Insight
  <2> QED
    BY <2>3 DEF QualityColumn
<1> QED
  BY <1>1, <1>2, <1>3, <1>4

LEMMA HoursOf ==
  ASSUME TypeOK, NEW L, L \subseteq Rows
  PROVE  /\ IsFiniteSet(L)
         /\ Hours(L) = SumFunctionOnSet(HoursColumn, L) /\ Hours(L) \in Nat
<1>1. IsFiniteSet(L) /\ \A l \in L : HoursColumn[l] \in Nat
  BY Columns, FS_Subset
<1> DEFINE f == [l \in L |-> facts[l].log.hours]
<1>2. DOMAIN f = L /\ \A l \in L : f[l] = HoursColumn[l]
  BY DEF HoursColumn
<1>3. Hours(L) = SumFunction(f)
  BY DEF Hours
<1> HIDE DEF f
<1> QED
  BY <1>1, <1>2, <1>3, SumOfColumn, SumIsNat

LEMMA CostOf ==
  ASSUME TypeOK, NEW L, L \subseteq Rows
  PROVE  Cost(L) = SumFunctionOnSet(CostColumn, L) /\ Cost(L) \in Nat
<1>1. IsFiniteSet(L) /\ \A l \in L : CostColumn[l] \in Nat
  BY Columns, FS_Subset
<1> DEFINE f == [l \in L |-> facts[l].log.cost]
<1>2. DOMAIN f = L /\ \A l \in L : f[l] = CostColumn[l]
  BY DEF CostColumn
<1>3. Cost(L) = SumFunction(f)
  BY DEF Cost
<1> HIDE DEF f
<1> QED
  BY <1>1, <1>2, <1>3, SumOfColumn, SumIsNat

LEMMA PaidOf ==
  ASSUME TypeOK, NEW L, L \subseteq Rows
  PROVE  /\ Paid(L) = SumFunctionOnSet(AmountColumn, {l \in L : facts[l].paid})
         /\ Paid(L) \in Nat
<1> DEFINE P == {l \in L : facts[l].paid}
           f == [l \in P |-> facts[l].amount]
<1>1. P \subseteq Rows
  OBVIOUS
<1>2. IsFiniteSet(P) /\ \A l \in P : AmountColumn[l] \in Nat
  BY <1>1, Columns, FS_Subset
<1>3. DOMAIN f = P /\ \A l \in P : f[l] = AmountColumn[l]
  BY <1>1 DEF AmountColumn
<1>4. Paid(L) = SumFunction(f)
  BY DEF Paid
<1>5. SumFunction(f) = SumFunctionOnSet(AmountColumn, P) /\ SumFunctionOnSet(AmountColumn, P) \in Nat
  <2> HIDE DEF f, P
  <2> QED
    BY <1>2, <1>3, SumOfColumn, SumIsNat
<1> QED
  BY <1>4, <1>5

(* A report that gives, for each value of a key, the hours of the rows of  *)
(* a set S that have it, adds up to the hours of S.                        *)
LEMMA HoursByKey ==
  ASSUME TypeOK, NEW S, S \subseteq Rows, NEW key, NEW K, \A l \in S : key[l] \in K,
         IsFiniteSet(K), NEW parts, DOMAIN parts = K,
         \A k \in K : parts[k] = Hours({l \in S : key[l] = k})
  PROVE  Total(parts) = Hours(S)
<1>1. IsFiniteSet(S) /\ \A l \in S : HoursColumn[l] \in Int
  BY Columns, FS_Subset
<1>2. \A k \in K : parts[k] = SumFunctionOnSet(HoursColumn, Class(S, key, k))
  <2> TAKE k \in K
  <2>1. {l \in S : key[l] = k} \subseteq Rows
    OBVIOUS
  <2> QED
    BY <2>1, HoursOf DEF Class
<1>3. SumFunctionOnSet(parts, K) = SumFunctionOnSet(HoursColumn, S)
  BY <1>1, <1>2, SumByKey
<1> QED
  BY <1>3, HoursOf DEF Total, SumFunction

LEMMA KeysAreFinite ==
  ASSUME TypeOK, NEW S, S \subseteq Rows
  PROVE  /\ IsFiniteSet(WeeksOf(S)) /\ IsFiniteSet(UsersOf(S)) /\ IsFiniteSet(ProjectsOf(S))
         /\ IsFiniteSet({CategoryOf(l) : l \in S})
         /\ IsFiniteSet({facts[l].log.date : l \in S})
<1> DEFINE week == [l \in S |-> Week(l)]
           user == [l \in S |-> facts[l].log.user]
           project == [l \in S |-> facts[l].log.project]
           category == [l \in S |-> CategoryOf(l)]
           date == [l \in S |-> facts[l].log.date]
<1>1. IsFiniteSet(S)
  BY Columns, FS_Subset
<1>2. /\ IsFiniteSet({week[l] : l \in S}) /\ IsFiniteSet({user[l] : l \in S})
      /\ IsFiniteSet({project[l] : l \in S}) /\ IsFiniteSet({category[l] : l \in S})
      /\ IsFiniteSet({date[l] : l \in S})
  <2> HIDE DEF week, user, project, category, date
  <2> QED
    BY <1>1, ImageIsFinite
<1>3. /\ {week[l] : l \in S} = WeeksOf(S) /\ {user[l] : l \in S} = UsersOf(S)
      /\ {project[l] : l \in S} = ProjectsOf(S)
      /\ {category[l] : l \in S} = {CategoryOf(l) : l \in S}
      /\ {date[l] : l \in S} = {facts[l].log.date : l \in S}
  BY DEF WeeksOf, UsersOf, ProjectsOf
<1> QED
  BY <1>2, <1>3, Zenon

(* Each report in turn.                                                    *)
LEMMA WeeklyHoursAddUp ==
  ASSUME TypeOK
  PROVE  LET burn == BurnRate(Rows) IN
         /\ Total([w \in DOMAIN burn |-> burn[w].hours]) = Hours(Rows)
         /\ Total([w \in DOMAIN burn |-> burn[w].billable]) = Hours(Billable(Rows))
<1> DEFINE burn == BurnRate(Rows)
           K == WeeksOf(Rows)
           key == [l \in Rows |-> Week(l)]
           hours == [w \in K |-> burn[w].hours]
           billable == [w \in K |-> burn[w].billable]
<1>1. DOMAIN burn = K
  BY DEF BurnRate
<1>2. IsFiniteSet(K) /\ \A l \in Rows : key[l] \in K
  BY KeysAreFinite DEF WeeksOf
<1>3. ASSUME NEW w \in K
      PROVE  hours[w] = Hours({l \in Rows : key[l] = w})
  <2>1. Rows \cap OfWeek(w) = {l \in Rows : key[l] = w}
    BY DEF OfWeek
  <2>2. burn[w].hours = Hours(Rows \cap OfWeek(w))
    BY DEF BurnRate
  <2> QED
    BY <2>1, <2>2
<1>4. ASSUME NEW w \in K
      PROVE  billable[w] = Hours({l \in Billable(Rows) : key[l] = w})
  <2>1. Billable(Rows \cap OfWeek(w)) = {l \in Billable(Rows) : key[l] = w}
    BY DEF OfWeek, Billable
  <2>2. burn[w].billable = Hours(Billable(Rows \cap OfWeek(w)))
    BY DEF BurnRate
  <2> QED
    BY <2>1, <2>2
<1>5. Billable(Rows) \subseteq Rows
  BY DEF Billable
<1>6. DOMAIN hours = K /\ DOMAIN billable = K
  OBVIOUS
<1>7. Total(hours) = Hours(Rows)
  <2> HIDE DEF hours, key, K
  <2> QED
    BY <1>2, <1>3, <1>6, HoursByKey
<1>8. Total(billable) = Hours(Billable(Rows))
  <2>1. \A l \in Billable(Rows) : key[l] \in K
    BY <1>2, <1>5
  <2> HIDE DEF billable, key, K
  <2> QED
    BY <2>1, <1>2, <1>4, <1>5, <1>6, HoursByKey
<1> HIDE DEF K, burn
<1> QED
  BY <1>1, <1>7, <1>8 DEF burn

LEMMA WeeklyCostsAddUp ==
  ASSUME TypeOK
  PROVE  LET burn == BurnRate(Rows) IN
         /\ Total([w \in DOMAIN burn |-> burn[w].cost]) = Cost(Rows)
         /\ Total([w \in DOMAIN burn |-> burn[w].entries]) = Cardinality(Rows)
<1> DEFINE burn == BurnRate(Rows)
           K == WeeksOf(Rows)
           key == [l \in Rows |-> Week(l)]
           cost == [w \in K |-> burn[w].cost]
           entries == [w \in K |-> burn[w].entries]
           part(w) == Class(Rows, key, w)
<1>1. DOMAIN burn = K
  BY DEF BurnRate
<1>2. IsFiniteSet(K) /\ \A l \in Rows : key[l] \in K
  BY KeysAreFinite DEF WeeksOf
<1>3. \A l \in Rows : CostColumn[l] \in Int /\ Ones[l] \in Int /\ Ones[l] = 1
  BY Columns DEF Ones
<1>4. IsFiniteSet(Rows)
  BY Columns
<1>5. ASSUME NEW w \in K
      PROVE  /\ cost[w] = SumFunctionOnSet(CostColumn, part(w))
             /\ entries[w] = SumFunctionOnSet(Ones, part(w))
  <2>1. Rows \cap OfWeek(w) = part(w) /\ part(w) \subseteq Rows
    BY DEF OfWeek, Class
  <2>2. /\ burn[w].cost = Cost(Rows \cap OfWeek(w))
        /\ burn[w].entries = Cardinality(Rows \cap OfWeek(w))
    BY DEF BurnRate
  <2>3. IsFiniteSet(part(w))
    BY <2>1, <1>4, FS_Subset
  <2>4. Cost(part(w)) = SumFunctionOnSet(CostColumn, part(w))
    BY <2>1, CostOf
  <2>5. \A l \in part(w) : Ones[l] = 1
    BY <2>1, <1>3
  <2>6. SumFunctionOnSet(Ones, part(w)) = Cardinality(part(w))
    <3> HIDE DEF part
    <3> QED
      BY <2>3, <2>5, SumOfOnes
  <2> QED
    BY <2>1, <2>2, <2>4, <2>6
<1>6. DOMAIN cost = K /\ DOMAIN entries = K
  OBVIOUS
<1>7. SumFunctionOnSet(cost, K) = SumFunctionOnSet(CostColumn, Rows)
  <2> HIDE DEF cost, key, K
  <2> QED
    BY <1>2, <1>3, <1>4, <1>5, SumByKey
<1>8. SumFunctionOnSet(entries, K) = SumFunctionOnSet(Ones, Rows)
  <2>1. \A w \in K : entries[w] = SumFunctionOnSet(Ones, Class(Rows, key, w))
    <3> HIDE DEF entries, key, K
    <3> QED
      BY <1>5
  <2>2. \A l \in Rows : Ones[l] \in Int
    BY <1>3
  <2>3. IsFiniteSet(K)
    BY <1>2
  <2>4. \A l \in Rows : key[l] \in K
    BY <1>2
  <2> HIDE DEF entries, key, K
  <2> QED
    BY <1>4, <2>1, <2>2, <2>3, <2>4, SumByKey
<1>9. SumFunctionOnSet(Ones, Rows) = Cardinality(Rows)
  BY <1>3, <1>4, SumOfOnes
<1>10. SumFunctionOnSet(CostColumn, Rows) = Cost(Rows)
  BY CostOf
<1>11. Total(cost) = Cost(Rows) /\ Total(entries) = Cardinality(Rows)
  BY <1>6, <1>7, <1>8, <1>9, <1>10 DEF Total, SumFunction
<1> HIDE DEF K, burn
<1> QED
  BY <1>1, <1>11 DEF burn

LEMMA CategoriesAddUp ==
  ASSUME TypeOK
  PROVE  Total(Productivity(Rows)) = Hours(Rows)
<1> DEFINE K == {CategoryOf(l) : l \in Rows}
           key == [l \in Rows |-> CategoryOf(l)]
           parts == Productivity(Rows)
<1>1. IsFiniteSet(K) /\ \A l \in Rows : key[l] \in K
  BY KeysAreFinite
<1>2. DOMAIN parts = K
  BY DEF Productivity
<1>3. \A c \in K : parts[c] = Hours({l \in Rows : key[l] = c})
  <2> TAKE c \in K
  <2>1. parts[c] = Hours({l \in Rows : CategoryOf(l) = c})
    BY DEF Productivity
  <2>2. {l \in Rows : CategoryOf(l) = c} = {l \in Rows : key[l] = c}
    OBVIOUS
  <2> QED
    BY <2>1, <2>2
<1> HIDE DEF K, key, parts
<1>4. Total(parts) = Hours(Rows)
  BY <1>1, <1>2, <1>3, HoursByKey
<1> QED
  BY <1>4 DEF parts

LEMMA UsersAddUp ==
  ASSUME TypeOK
  PROVE  Total(Team.hours) = Hours(Rows) /\ \A u \in UsersOf(Rows) : Team.hours[u] = Hours(OfUser(u))
<1> DEFINE K == UsersOf(Rows)
           key == [l \in Rows |-> facts[l].log.user]
           parts == Team.hours
<1>1. IsFiniteSet(K) /\ \A l \in Rows : key[l] \in K
  BY KeysAreFinite DEF UsersOf
<1>2. DOMAIN parts = K /\ \A u \in K : parts[u] = Hours(OfUser(u))
  BY DEF Team
<1>3. \A u \in K : parts[u] = Hours({l \in Rows : key[l] = u})
  <2> TAKE u \in K
  <2>1. OfUser(u) = {l \in Rows : key[l] = u}
    BY DEF OfUser
  <2> QED
    BY <1>2, <2>1
<1>4. Total(parts) = Hours(Rows)
  <2> HIDE DEF K, key, parts
  <2> QED
    BY <1>1, <1>2, <1>3, HoursByKey
<1> QED
  BY <1>2, <1>4

LEMMA ProjectsAddUp ==
  ASSUME TypeOK
  PROVE  Total([p \in ProjectsOf(Rows) |-> Profitability(p).hours]) = Hours(Rows)
<1> DEFINE K == ProjectsOf(Rows)
           key == [l \in Rows |-> facts[l].log.project]
           parts == [p \in ProjectsOf(Rows) |-> Profitability(p).hours]
<1>1. IsFiniteSet(K) /\ \A l \in Rows : key[l] \in K
  BY KeysAreFinite DEF ProjectsOf
<1>2. DOMAIN parts = K /\ \A p \in K : parts[p] = Hours(OfProject(p))
  BY DEF Profitability
<1>3. \A p \in K : parts[p] = Hours({l \in Rows : key[l] = p})
  <2> TAKE p \in K
  <2>1. OfProject(p) = {l \in Rows : key[l] = p}
    BY DEF OfProject
  <2> QED
    BY <1>2, <2>1
<1>4. Total(parts) = Hours(Rows)
  <2> HIDE DEF K, key, parts
  <2> QED
    BY <1>1, <1>2, <1>3, HoursByKey
<1> QED
  BY <1>4

(* The list of top projects may end early, but not before its share.       *)
LEMMA TopProjectsHaveTheirShare ==
  ASSUME TypeOK, NEW top \in Team.tops
  PROVE  /\ Total(top) <= Hours(Rows)
         /\ Total(top) * Cardinality(ProjectsOf(Rows)) >= Hours(Rows) * Cardinality(DOMAIN top)
<1> DEFINE K == ProjectsOf(Rows)
           f == [p \in K |-> Hours(OfProject(p))]
<1>1. IsFiniteSet(K)
  BY KeysAreFinite
<1>2. ASSUME NEW p \in K
      PROVE  f[p] \in Nat
  <2>1. OfProject(p) \subseteq Rows
    BY DEF OfProject
  <2> QED
    BY <2>1, HoursOf
<1>3. PICK T \in TopProjects : top = [p \in T |-> Hours(OfProject(p))]
  BY DEF Team
<1>4. T \in SUBSET K /\ \A x \in T, y \in K \ T : -Hours(OfProject(x)) <= -Hours(OfProject(y))
  BY DEF TopProjects, Limited
<1>5. DOMAIN top = T /\ \A p \in T : top[p] = f[p]
  BY <1>3, <1>4
<1>6. \A x \in T, y \in K \ T : f[y] <= f[x]
  <2> TAKE x \in T, y \in K \ T
  <2>1. /\ f[x] \in Nat /\ f[y] \in Nat
        /\ f[x] = Hours(OfProject(x)) /\ f[y] = Hours(OfProject(y))
    BY <1>2, <1>4
  <2>2. -f[x] <= -f[y]
    BY <1>4, <2>1
  <2> HIDE DEF f
  <2> QED
    BY <2>1, <2>2
<1>7. SumFunctionOnSet(f, K) = Hours(Rows)
  <2>1. Total([p \in K |-> Profitability(p).hours]) = Hours(Rows)
    BY ProjectsAddUp
  <2>2. [p \in K |-> Profitability(p).hours] = f
    BY DEF Profitability
  <2>3. DOMAIN f = K
    OBVIOUS
  <2> HIDE DEF f
  <2> QED
    BY <2>1, <2>2, <2>3 DEF Total, SumFunction
<1> HIDE DEF f, K
<1>8. Total(top) = SumFunctionOnSet(f, T)
  <2>1. IsFiniteSet(T)
    BY <1>1, <1>4, FS_Subset
  <2> QED
    BY <1>5, <2>1, SumOfColumn DEF Total
<1>9. /\ SumFunctionOnSet(f, T) <= SumFunctionOnSet(f, K)
      /\ SumFunctionOnSet(f, T) * Cardinality(K) >= SumFunctionOnSet(f, K) * Cardinality(T)
  <2>1. \A p \in K : f[p] \in Nat
    BY <1>2
  <2>2. T \in SUBSET K
    BY <1>4
  <2> QED
    BY <1>1, <1>6, <2>1, <2>2, SumOfPart, LargestHaveTheirShare, Zenon
<1> QED
  BY <1>5, <1>7, <1>8, <1>9 DEF K

LEMMA IndividualAddsUp ==
  ASSUME TypeOK, NEW u
  PROVE  /\ Individual(u).hours = Hours(OfUser(u))
         /\ Total(Individual(u).daily) = Hours(OfUser(u))
         /\ Total(Individual(u).projects) = Hours(OfUser(u))
<1> DEFINE L == OfUser(u)
           D == {facts[l].log.date : l \in L}
           P == ProjectsOf(L)
           date == [l \in L |-> facts[l].log.date]
           project == [l \in L |-> facts[l].log.project]
           daily == Individual(u).daily
           projects == Individual(u).projects
<1>1. L \subseteq Rows
  BY DEF OfUser
<1>2. IsFiniteSet(D) /\ IsFiniteSet(P)
  BY <1>1, KeysAreFinite
<1>3. \A l \in L : date[l] \in D /\ project[l] \in P
  BY DEF ProjectsOf
<1>4. /\ Individual(u).hours = Hours(L)
      /\ daily = [d \in D |-> Hours({l \in L : facts[l].log.date = d})]
      /\ projects = [p \in P |-> Hours(L \cap OfProject(p))]
  BY DEF Individual
<1>5. \A d \in D : daily[d] = Hours({l \in L : date[l] = d})
  <2> TAKE d \in D
  <2>1. {l \in L : facts[l].log.date = d} = {l \in L : date[l] = d}
    OBVIOUS
  <2> HIDE DEF daily, date, D
  <2> QED
    BY <1>4, <2>1
<1>6. \A p \in P : projects[p] = Hours({l \in L : project[l] = p})
  <2> TAKE p \in P
  <2>1. L \cap OfProject(p) = {l \in L : project[l] = p}
    BY <1>1 DEF OfProject
  <2> HIDE DEF projects, project, P
  <2> QED
    BY <1>4, <2>1
<1>7. DOMAIN daily = D /\ DOMAIN projects = P
  BY <1>4
<1>8. Total(daily) = Hours(L)
  <2> HIDE DEF daily, date, D, L
  <2> QED
    BY <1>1, <1>2, <1>3, <1>5, <1>7, HoursByKey
<1>9. Total(projects) = Hours(L)
  <2> HIDE DEF projects, project, P, L
  <2> QED
    BY <1>1, <1>2, <1>3, <1>6, <1>7, HoursByKey
<1> QED
  BY <1>4, <1>8, <1>9

LEMMA RevenueAddsUp ==
  ASSUME TypeOK
  PROVE  Total([p \in Projects |-> Profitability(p).revenue]) = Paid(Rows)
<1> DEFINE S == {l \in Rows : facts[l].paid}
           key == [l \in Rows |-> facts[l].log.project]
           parts == [p \in Projects |-> Profitability(p).revenue]
<1>1. S \subseteq Rows /\ IsFiniteSet(S) /\ IsFiniteSet(Projects)
  BY Columns, FS_Subset, FiniteAssumption
<1>2. \A l \in S : AmountColumn[l] \in Int /\ key[l] \in Projects
  BY Columns DEF Fact, Said
<1>3. ASSUME NEW p \in Projects
      PROVE  parts[p] = SumFunctionOnSet(AmountColumn, Class(S, key, p))
  <2>1. OfProject(p) \subseteq Rows
    BY DEF OfProject
  <2>2. {l \in OfProject(p) : facts[l].paid} = Class(S, key, p)
    BY DEF OfProject, Class
  <2>3. parts[p] = Paid(OfProject(p))
    BY DEF Profitability
  <2> QED
    BY <2>1, <2>2, <2>3, PaidOf
<1>4. SumFunctionOnSet(parts, Projects) = SumFunctionOnSet(AmountColumn, S)
  <2>1. \A p \in Projects : parts[p] = SumFunctionOnSet(AmountColumn, Class(S, key, p))
    <3> HIDE DEF S, key, parts
    <3> QED
      BY <1>3
  <2>2. \A l \in S : AmountColumn[l] \in Int
    BY <1>2
  <2>3. \A l \in S : key[l] \in Projects
    BY <1>2
  <2> HIDE DEF S, key, parts
  <2>4. IsFiniteSet(S) /\ IsFiniteSet(Projects)
    BY <1>1
  <2> QED
    BY <2>1, <2>2, <2>3, <2>4, SumByKey
<1>5. Paid(Rows) = SumFunctionOnSet(AmountColumn, S)
  BY PaidOf
<1> QED
  BY <1>4, <1>5 DEF Total, SumFunction

LEMMA BillableAndOther ==
  ASSUME TypeOK, NEW L, L \subseteq Rows
  PROVE  Hours(Billable(L)) + Hours(L \ Billable(L)) = Hours(L)
<1> DEFINE A == Billable(L)
           B == L \ Billable(L)
<1>1. A \subseteq Rows /\ B \subseteq Rows /\ A \cup B = L /\ A \cap B = {}
  BY DEF Billable
<1>2. /\ Hours(A) = SumFunctionOnSet(HoursColumn, A)
      /\ Hours(B) = SumFunctionOnSet(HoursColumn, B)
      /\ Hours(L) = SumFunctionOnSet(HoursColumn, L)
      /\ IsFiniteSet(A) /\ IsFiniteSet(B)
  BY <1>1, HoursOf
<1>3. \A l \in A \cup B : HoursColumn[l] \in Int
  BY <1>1, Columns
<1> HIDE DEF A, B
<1>4. SumFunctionOnSet(HoursColumn, A \cup B)
        = SumFunctionOnSet(HoursColumn, A) + SumFunctionOnSet(HoursColumn, B)
  BY <1>1, <1>2, <1>3, SumUnion
<1> QED
  BY <1>1, <1>2, <1>4 DEF A, B

LEMMA DigestIsOfTheLatestWeek ==
  ASSUME TypeOK, Rows # {}
  PROVE  LET burn == BurnRate(Rows) IN
         /\ Digest.hours = burn[Latest(DOMAIN burn)].hours
         /\ Digest.delta <= Digest.hours
<1> DEFINE K == WeeksOf(Rows)
           burn == BurnRate(Rows)
           before == Latest(K \ {Latest(K)})
<1>1. DOMAIN burn = K
  BY DEF BurnRate
<1>2. K \in SUBSET Int /\ K # {} /\ IsFiniteSet(K)
  BY Columns, KeysAreFinite DEF WeeksOf
<1>3. Latest(K) \in K
  <2>1. \E m \in K : \A x \in K : x <= m
    <3> HIDE DEF K
    <3> QED
      BY <1>2, HasLatest
  <2> QED
    BY <2>1 DEF Latest
<1>4. OfWeek(Latest(K)) = Rows \cap OfWeek(Latest(K)) /\ OfWeek(Latest(K)) \subseteq Rows
  BY DEF OfWeek
<1>5. burn[Latest(K)].hours = Hours(Rows \cap OfWeek(Latest(K)))
  BY <1>3 DEF BurnRate
<1>6. Digest.hours = Hours(OfWeek(Latest(K)))
  BY DEF Digest
<1>7. Digest.delta = IF K = {Latest(K)} THEN 0
                     ELSE Hours(OfWeek(Latest(K))) - Hours(OfWeek(before))
  BY DEF Digest
<1>8. OfWeek(before) \subseteq Rows
  BY DEF OfWeek
<1>9. Hours(OfWeek(Latest(K))) \in Nat /\ Hours(OfWeek(before)) \in Nat
  BY <1>4, <1>8, HoursOf
<1> HIDE DEF K, burn, before
<1>10. Digest.delta <= Digest.hours
  BY <1>6, <1>7, <1>9
<1>11. Digest.hours = burn[Latest(DOMAIN burn)].hours
  BY <1>1, <1>4, <1>5, <1>6
<1> QED
  BY <1>10, <1>11 DEF burn

LEMMA PastItsEstimate ==
  ASSUME TypeOK, NEW p \in Projects, ScopeCreep(p) \in {"minor", "moderate", "severe"}
  PROVE  WeeksLeft(p, budgets[p].estimate) = None
<1> DEFINE e == IF budgets[p] = None THEN 0 ELSE budgets[p].estimate
           h == Hours(OfProject(p))
<1>1. h \in Nat
  BY HoursOf DEF OfProject
<1>2. e \in Nat
  BY DEF TypeOK, Budget
<1>3. e > 0 /\ ~(2000 * (h - e) <= (20 * 0 + 1) * e)
  <2>1. CASE e = 0
    <3>1. ScopeCreep(p) = "unknown"
      BY <2>1 DEF ScopeCreep
    <3> QED
      BY <3>1
  <2>2. CASE e > 0 /\ 2000 * (h - e) <= (20 * 0 + 1) * e
    <3>1. ScopeCreep(p) = "on_track"
      BY <2>2, <1>1, <1>2 DEF ScopeCreep
    <3> QED
      BY <3>1
  <2> QED
    BY <1>2, <2>1, <2>2
<1>4. h > e
  <2> HIDE DEF e, h
  <2> QED
    BY <1>1, <1>2, <1>3
<1>5. budgets[p].estimate = e
  BY <1>3
<1> QED
  BY <1>1, <1>2, <1>4, <1>5 DEF WeeksLeft

LEMMA Agreement == ASSUME TypeOK PROVE ReportsAgree
<1> DEFINE burn == BurnRate(Rows)
<1>1. /\ Summary.hours = Hours(Rows) /\ Summary.cost = Cost(Rows)
      /\ Summary.entries = Cardinality(Rows) /\ Summary.paid = Paid(Rows)
  BY DEF Summary
<1>2. /\ Total([w \in DOMAIN burn |-> burn[w].hours]) = Summary.hours
      /\ Total([w \in DOMAIN burn |-> burn[w].cost]) = Summary.cost
      /\ Total([w \in DOMAIN burn |-> burn[w].entries]) = Summary.entries
      /\ Total([w \in DOMAIN burn |-> burn[w].billable]) = Hours(Billable(Rows))
  BY <1>1, WeeklyHoursAddUp, WeeklyCostsAddUp
<1>3. /\ Total(Productivity(Rows)) = Summary.hours
      /\ Total(Team.hours) = Summary.hours
      /\ Total([p \in ProjectsOf(Rows) |-> Profitability(p).hours]) = Summary.hours
  BY <1>1, CategoriesAddUp, UsersAddUp, ProjectsAddUp
<1>4. \A u \in UsersOf(Rows) :
        /\ Individual(u).hours = Team.hours[u]
        /\ Total(Individual(u).daily) = Team.hours[u]
        /\ Total(Individual(u).projects) = Team.hours[u]
  BY UsersAddUp, IndividualAddsUp
<1>5. Total([p \in Projects |-> Profitability(p).revenue]) = Summary.paid
  BY <1>1, RevenueAddsUp
<1>6. \A p \in Projects : LET x == Profitability(p) IN x.billable + x.other = x.hours
  <2> TAKE p \in Projects
  <2>1. OfProject(p) \subseteq Rows
    BY DEF OfProject
  <2>2. LET x == Profitability(p) IN
        /\ x.hours = Hours(OfProject(p)) /\ x.billable = Hours(Billable(OfProject(p)))
        /\ x.other = Hours(OfProject(p) \ Billable(OfProject(p)))
    BY DEF Profitability
  <2> QED
    BY <2>1, <2>2, BillableAndOther
<1>7. Rows # {} => /\ Digest.hours = burn[Latest(DOMAIN burn)].hours
                    /\ Digest.delta <= Digest.hours
  BY DigestIsOfTheLatestWeek
<1>8. \A p \in Projects : ScopeCreep(p) \in {"minor", "moderate", "severe"} =>
        WeeksLeft(p, budgets[p].estimate) = None
  BY PastItsEstimate
<1>9. \A top \in Team.tops :
        /\ Total(top) <= Summary.hours
        /\ Total(top) * Cardinality(ProjectsOf(Rows)) >= Summary.hours * Cardinality(DOMAIN top)
  BY <1>1, TopProjectsHaveTheirShare
<1> HIDE DEF burn
<1> QED
  BY <1>2, <1>3, <1>4, <1>5, <1>6, <1>7, <1>8, <1>9 DEF ReportsAgree, burn

(* Whatever has been approved, analysed and paid: the breakdowns by week,  *)
(* category, user and project, and the payments by project, add up to the  *)
(* summary, the list of top projects has at least its share of the hours,  *)
(* the digest is about the last week of the burn rate, and no project is   *)
(* both past its estimate and forecast to be completed.                    *)
THEOREM ReportsAgreeHolds == Spec => []ReportsAgree
BY TypeCorrect, Agreement, PTL

LEMMA CountOf ==
  ASSUME TypeOK, NEW L, L \subseteq Rows
  PROVE  /\ Cardinality(L) \in Nat /\ Cardinality(WeeksOf(L)) \in Nat
         /\ L # {} => Cardinality(WeeksOf(L)) > 0
<1>1. IsFiniteSet(L) /\ IsFiniteSet(WeeksOf(L))
  BY HoursOf, KeysAreFinite
<1>2. L # {} => WeeksOf(L) # {}
  BY DEF WeeksOf
<1> QED
  BY <1>1, <1>2, FS_CardinalityType, FS_EmptySet

LEMMA CriticalMeansOvertime == ASSUME TypeOK PROVE CriticalNeedsOvertime
<1> SUFFICES ASSUME NEW u \in UsersOf(Rows), NEW S \in Oldest(OfUser(u)),
                    WellnessLevel(OvertimePoints(OfUser(u)) + WeekendPoints(OfUser(u))
                       + (IF QualityDeclines(OfUser(u), S) THEN 15 ELSE 0)) = "critical"
             PROVE  Hours(OfUser(u)) > 45 * Hour * Cardinality(WeeksOf(OfUser(u)))
  BY DEF CriticalNeedsOvertime, WellnessScores
<1> DEFINE L == OfUser(u)
           h == Hours(L)
           n == Cardinality(WeeksOf(L))
           score == OvertimePoints(L) + WeekendPoints(L) + (IF QualityDeclines(L, S) THEN 15 ELSE 0)
<1>1. L \subseteq Rows /\ L # {}
  BY DEF OfUser, UsersOf
<1>2. h \in Nat /\ n \in Nat /\ n > 0
  BY <1>1, HoursOf, CountOf
<1>3. Positive(n) = n
  BY <1>2 DEF Positive
<1>4. SUFFICES ASSUME ~(h > 45 * Hour * n) PROVE FALSE
  OBVIOUS
<1>5. ~(h > 50 * Hour * n) /\ ~(h > 55 * Hour * n)
  <2> HIDE DEF h, n
  <2> QED
    BY <1>2, <1>4 DEF Hour
<1>6. OvertimePoints(L) = 0
  BY <1>3, <1>4, <1>5 DEF OvertimePoints
<1>7. WeekendPoints(L) \in {0, 10, 20}
  BY DEF WeekendPoints
<1>8. score \in 0..49
  <2> HIDE DEF L
  <2> QED
    BY <1>6, <1>7
<1>9. WellnessLevel(score) # "critical"
  <2> HIDE DEF score
  <2> QED
    BY <1>8 DEF WellnessLevel
<1> QED
  BY <1>9

(* No user is reported as critical for weekends and quality alone.         *)
THEOREM CriticalNeedsOvertimeHolds == Spec => []CriticalNeedsOvertime
BY TypeCorrect, CriticalMeansOvertime, PTL

LEMMA QualityOf ==
  ASSUME TypeOK, NEW L, L \subseteq Rows
  PROVE  QualitySum(L) \in Nat /\ Cardinality(Scored(L)) \in Nat
<1> DEFINE S == Scored(L)
           f == [l \in S |-> facts[l].insight.quality]
<1>1. S \subseteq Scored(Rows) /\ S \subseteq Rows
  BY DEF Scored
<1>2. IsFiniteSet(S) /\ \A l \in S : QualityColumn[l] \in Nat
  BY <1>1, Columns, FS_Subset
<1>3. DOMAIN f = S /\ \A l \in S : f[l] = QualityColumn[l]
  BY <1>1 DEF QualityColumn
<1>4. QualitySum(L) = SumFunction(f)
  BY DEF QualitySum
<1>5. SumFunction(f) \in Nat
  <2> HIDE DEF f, S
  <2> QED
    BY <1>2, <1>3, SumOfColumn, SumIsNat
<1> QED
  BY <1>2, <1>4, <1>5, FS_CardinalityType

(* The two sides of the comparison with four fifths, over a denominator    *)
(* that is positive.                                                       *)
LEMMA FourFifths ==
  ASSUME NEW o \in Nat, NEW h \in Nat, NEW n \in Nat, n > 0
  PROVE  20 * (50 * o * n + 10 * 0 * h) >= (20 * 40 - 1) * h * n <=> 1000 * o >= 799 * h
<1>1. 20 * (50 * o * n + 10 * 0 * h) = (1000 * o) * n /\ (20 * 40 - 1) * h * n = (799 * h) * n
  OBVIOUS
<1>2. \A a, b \in Int : a * n >= b * n <=> a >= b
  <2> TAKE a, b \in Int
  <2>1. a * n - b * n = (a - b) * n
    OBVIOUS
  <2>2. a >= b => (a - b) * n >= 0
    OBVIOUS
  <2>3. a < b => (a - b) * n < 0
    OBVIOUS
  <2> QED
    BY <2>1, <2>2, <2>3
<1>3. 1000 * o \in Int /\ 799 * h \in Int
  OBVIOUS
<1> QED
  BY <1>1, <1>2, <1>3

LEMMA RiskIsTheShare == ASSUME TypeOK PROVE RiskIsNonBillableShare
<1> SUFFICES ASSUME NEW p \in ProjectsOf(Rows),
                    QualitySum(OfProject(p)) \notin 1..(5 * Cardinality(Scored(OfProject(p))))
             PROVE  LET x == Profitability(p) IN
                    RiskLevel(p) = "high" <=> x.hours > 0 /\ 1000 * x.other >= 799 * x.hours
  BY DEF RiskIsNonBillableShare
<1> DEFINE L == OfProject(p)
           o == Hours(L \ Billable(L))
           h == Positive(Hours(L))
           n == Positive(Cardinality(Scored(L)))
           q == IF QualitySum(L) = 0 THEN 5 * n ELSE QualitySum(L)
           poor == IF 5 * n > q THEN 5 * n - q ELSE 0
<1>1. L \subseteq Rows /\ L \ Billable(L) \subseteq L
  BY DEF OfProject
<1>2. Hours(L) \in Nat /\ o \in Nat /\ QualitySum(L) \in Nat /\ Cardinality(Scored(L)) \in Nat
  BY <1>1, HoursOf, QualityOf
<1>3. Hours(Billable(L)) \in Nat /\ Hours(Billable(L)) + o = Hours(L)
  <2>1. Billable(L) \subseteq Rows
    BY <1>1 DEF Billable
  <2> QED
    BY <1>1, <2>1, HoursOf, BillableAndOther
<1>4. h \in Nat /\ h > 0 /\ n \in Nat /\ n > 0
  BY <1>2 DEF Positive
<1>5. poor = 0
  <2>1. CASE QualitySum(L) = 0
    BY <2>1, <1>4
  <2>2. CASE QualitySum(L) > 5 * Cardinality(Scored(L))
    <3>1. Cardinality(Scored(L)) = 0 => QualitySum(L) = 0
      <4>1. IsFiniteSet(Scored(L))
        BY <1>1, Columns, FS_Subset DEF Scored
      <4>2. Cardinality(Scored(L)) = 0 => Scored(L) = {}
        BY <4>1, FS_EmptySet
      <4>3. Scored(L) = {} => QualitySum(L) = 0
        BY SumEmpty DEF QualitySum, SumFunction
      <4> QED
        BY <4>2, <4>3
    <3>2. n = Cardinality(Scored(L))
      BY <1>2, <2>2, <3>1 DEF Positive
    <3> HIDE DEF n, L
    <3> QED
      BY <1>2, <1>4, <2>2, <3>2 DEF L
  <2>3. QualitySum(L) = 0 \/ QualitySum(L) > 5 * Cardinality(Scored(L))
    BY <1>2
  <2> QED
    BY <2>1, <2>2, <2>3
<1>6. RiskReaches(L, 40) <=> 20 * (50 * o * n + 10 * poor * h) >= (20 * 40 - 1) * h * n
  BY DEF RiskReaches
<1>7. RiskReaches(L, 40) <=> 1000 * o >= 799 * h
  <2> HIDE DEF o, h, n, poor
  <2> QED
    BY <1>2, <1>4, <1>5, <1>6, FourFifths
<1>8. RiskLevel(p) = "high" <=> RiskReaches(L, 40)
  BY DEF RiskLevel
<1>9. RiskReaches(L, 40) <=> Hours(L) > 0 /\ 1000 * o >= 799 * Hours(L)
  <2>1. CASE Hours(L) = 0
    <3>1. h = 1 /\ o = 0
      <4> HIDE DEF o
      <4> QED
        BY <2>1, <1>2, <1>3 DEF Positive
    <3> HIDE DEF o, h
    <3> QED
      BY <1>7, <2>1, <3>1
  <2>2. CASE Hours(L) > 0
    <3>1. h = Hours(L)
      BY <2>2 DEF Positive
    <3> HIDE DEF o, h
    <3> QED
      BY <1>7, <2>2, <3>1
  <2> QED
    BY <1>2, <2>1, <2>2
<1>10. Profitability(p).hours = Hours(L) /\ Profitability(p).other = o
  BY DEF Profitability
<1> HIDE DEF o, L
<1> QED
  BY <1>8, <1>9, <1>10

(* Quality does not count: at an average above 5, high risk is four fifths *)
(* of the hours not billable, whatever the projects.                       *)
THEOREM RiskIsNonBillableShareHolds == Spec => []RiskIsNonBillableShare
BY TypeCorrect, RiskIsTheShare, PTL
-----------------------------------------------------------------------------
(* A payment books what the log costs when it is made, and a paid log that *)
(* has not been approved again since costs that.                           *)
BooksCost ==
  \A l \in Rows \ reapproved : facts[l].paid => facts[l].amount = facts[l].log.cost

LEMMA BooksCostStep ==
  ASSUME TypeOK, BooksCost, [Next]_vars
  PROVE  BooksCost'
<1>1. facts \in [Logs -> Fact \cup {None}]
  BY DEF TypeOK
<1>2. ASSUME NEW l \in Logs, NEW said \in Said, TimeLogApproved(l, said)
      PROVE  BooksCost'
  <2> SUFFICES ASSUME NEW k \in Logs, facts'[k] # None, k \notin reapproved', facts'[k].paid
               PROVE  facts'[k].amount = facts'[k].log.cost
    BY DEF BooksCost, Rows
  <2>1. k # l
    <3>1. CASE facts[l] = None
      <4>1. facts'[l].paid = FALSE
        BY <1>1, <1>2, <3>1 DEF TimeLogApproved, Upserted
      <4> QED
        BY <4>1
    <3>2. CASE facts[l] # None /\ facts[l].paid
      BY <1>2, <3>2 DEF TimeLogApproved
    <3>3. CASE facts[l] # None /\ ~facts[l].paid
      <4>1. facts'[l] = [facts[l] EXCEPT !.log = said] /\ facts[l] \in Fact
        BY <1>1, <1>2, <3>3 DEF TimeLogApproved, Upserted
      <4>2. ~facts'[l].paid
        BY <4>1, <3>3 DEF Fact
      <4> QED
        BY <4>2
    <3> QED
      BY <3>1, <3>2, <3>3
  <2>2. facts'[k] = facts[k] /\ k \notin reapproved
    BY <1>1, <1>2, <2>1 DEF TimeLogApproved, Upserted
  <2> QED
    BY <2>2 DEF BooksCost, Rows
<1>3. ASSUME NEW l \in Logs, NEW insight \in Insight, AIInsight(l, insight)
      PROVE  BooksCost'
  <2> SUFFICES ASSUME NEW k \in Logs, facts'[k] # None, k \notin reapproved', facts'[k].paid
               PROVE  facts'[k].amount = facts'[k].log.cost
    BY DEF BooksCost, Rows
  <2>1. k \notin reapproved
    BY <1>3 DEF AIInsight
  <2>2. facts[k] # None /\ facts'[k].paid = facts[k].paid
        /\ facts'[k].amount = facts[k].amount /\ facts'[k].log = facts[k].log
    <3>1. CASE k = l /\ facts[l] # None
      <4>1. facts'[k] = [facts[k] EXCEPT !.insight = insight] /\ facts[k] \in Fact
        BY <1>1, <1>3, <3>1 DEF AIInsight, Enriched
      <4> QED
        BY <4>1, <3>1 DEF Fact
    <3>2. CASE ~(k = l /\ facts[l] # None)
      BY <1>1, <1>3, <3>2 DEF AIInsight, Enriched
    <3> QED
      BY <3>1, <3>2
  <2> QED
    BY <2>1, <2>2 DEF BooksCost, Rows
<1>4. CASE InvoicePaid
  <2> SUFFICES ASSUME NEW k \in Logs, facts'[k] # None, k \notin reapproved', facts'[k].paid
               PROVE  facts'[k].amount = facts'[k].log.cost
    BY DEF BooksCost, Rows
  <2>1. k \notin reapproved /\ facts' = MarkedPaid(facts)
    BY <1>4 DEF InvoicePaid
  <2>2. CASE facts[k] # None /\ facts[k].log.billable /\ ~facts[k].paid
    <3>1. facts[k] \in Fact
      BY <1>1, <2>2
    <3>2. facts'[k] = [facts[k] EXCEPT !.paid = TRUE, !.amount = facts[k].log.cost]
      BY <1>1, <2>1, <2>2 DEF MarkedPaid
    <3> QED
      BY <3>1, <3>2 DEF Fact
  <2>3. CASE ~(facts[k] # None /\ facts[k].log.billable /\ ~facts[k].paid)
    <3>1. facts'[k] = facts[k]
      BY <1>1, <2>1, <2>3 DEF MarkedPaid
    <3> QED
      BY <2>1, <3>1 DEF BooksCost, Rows
  <2> QED
    BY <2>2, <2>3
<1>5. CASE UNCHANGED <<facts, reapproved>>
  BY <1>5 DEF BooksCost, Rows
<1> QED
  BY <1>2, <1>3, <1>4, <1>5, InputAssumption DEF Next, SetProjectBudget, vars

LEMMA MarginMeansReapproval ==
  ASSUME TypeOK, BooksCost
  PROVE  MarginNeedsReapproval
<1> SUFFICES ASSUME NEW p \in Projects,
                    \A l \in OfProject(p) \cap reapproved : ~(facts[l].amount > facts[l].log.cost)
             PROVE  ~(Margin(OfProject(p)) > 0)
  BY DEF MarginNeedsReapproval
<1> DEFINE L == OfProject(p)
           P == {l \in L : facts[l].paid}
<1>1. L \subseteq Rows /\ P \in SUBSET L
  BY DEF OfProject
<1>2. IsFiniteSet(L) /\ IsFiniteSet(P)
  BY <1>1, HoursOf, FS_Subset
<1>3. ASSUME NEW l \in P
      PROVE  /\ AmountColumn[l] \in Int /\ CostColumn[l] \in Int
             /\ 1 * AmountColumn[l] <= 1 * CostColumn[l]
  <2>1. l \in Rows /\ AmountColumn[l] \in Nat /\ CostColumn[l] \in Nat
    BY <1>1, Columns
  <2>2. AmountColumn[l] = facts[l].amount /\ CostColumn[l] = facts[l].log.cost
    BY <2>1 DEF AmountColumn, CostColumn
  <2>3. CASE l \in reapproved
    BY <1>1, <2>1, <2>2, <2>3
  <2>4. CASE l \notin reapproved
    BY <2>1, <2>2, <2>4 DEF BooksCost
  <2> QED
    BY <2>3, <2>4
<1>4. Paid(L) = SumFunctionOnSet(AmountColumn, P) /\ Paid(L) \in Nat
  BY <1>1, PaidOf
<1>5. Cost(L) = SumFunctionOnSet(CostColumn, L) /\ Cost(L) \in Nat
  BY <1>1, CostOf
<1>6. 1 * SumFunctionOnSet(AmountColumn, P) <= 1 * SumFunctionOnSet(CostColumn, P)
  <2>1. 1 \in Int
    OBVIOUS
  <2> HIDE DEF P
  <2> QED
    BY <1>2, <1>3, <2>1, SumsCompare, Zenon
<1>7. \A l \in L : CostColumn[l] \in Nat
  BY <1>1, Columns
<1>8. /\ SumFunctionOnSet(CostColumn, P) <= SumFunctionOnSet(CostColumn, L)
      /\ SumFunctionOnSet(CostColumn, P) \in Nat
  <2> HIDE DEF P, L
  <2> QED
    BY <1>1, <1>2, <1>7, SumOfPart, SumIsNat
<1> HIDE DEF P
<1>9. Paid(L) <= Cost(L)
  BY <1>4, <1>5, <1>6, <1>8
<1> HIDE DEF L
<1> QED
  BY <1>4, <1>5, <1>9 DEF Margin, L

(* A project earns more than its logs cost only if one of them was         *)
(* approved again after it was paid, and costs less since.                 *)
THEOREM MarginNeedsReapprovalHolds == Spec => []MarginNeedsReapproval
<1>1. Init => BooksCost
  BY DEF Init, BooksCost, Rows
<1>2. TypeOK /\ BooksCost /\ [Next]_vars => BooksCost'
  BY BooksCostStep
<1>3. TypeOK /\ BooksCost => MarginNeedsReapproval
  BY MarginMeansReapproval
<1> QED
  BY TypeCorrect, <1>1, <1>2, <1>3, PTL DEF Spec
-----------------------------------------------------------------------------
(* The regression.  For numbers y over the ranks 0..(N - 1):               *)
(*   N * sum(i y[i]) - sum(i) * sum(y[i])                                  *)
(* is the sum of (j - i)(y[j] - y[i]) over all i < j, here row by row: row *)
(* j has the differences to all earlier weeks, and both sides of each      *)
(* identity grow by the same when a week is added.                         *)
Ends(m) == 0..(m - 1)
Products(y, N) == [i \in Ends(N) |-> i * y[i]]
RowOf(y, j) == [i \in Ends(j) |-> (j - i) * (y[j] - y[i])]
RowSums(y, N) == [j \in Ends(N) |-> SumFunctionOnSet(RowOf(y, j), Ends(j))]

LEMMA SumNext ==
  ASSUME NEW f, NEW m \in Nat, \A i \in Ends(m + 1) : f[i] \in Int
  PROVE  /\ IsFiniteSet(Ends(m)) /\ SumFunctionOnSet(f, Ends(m)) \in Int
         /\ SumFunctionOnSet(f, Ends(m + 1)) = f[m] + SumFunctionOnSet(f, Ends(m))
<1>1. m \in Ends(m + 1) /\ Ends(m + 1) \ {m} = Ends(m) /\ Ends(m) \subseteq Ends(m + 1)
  BY DEF Ends
<1>2. IsFiniteSet(Ends(m)) /\ IsFiniteSet(Ends(m + 1))
  BY FS_Interval DEF Ends
<1>3. SumFunctionOnSet(f, Ends(m + 1)) = f[m] + SumFunctionOnSet(f, Ends(m + 1) \ {m})
  BY <1>1, <1>2, SumRemove
<1>4. SumFunctionOnSet(f, Ends(m)) \in Int
  BY <1>1, <1>2, SumIsInt
<1> QED
  BY <1>1, <1>2, <1>3, <1>4

LEMMA NoEnds == Ends(0) = {} /\ \A f : SumFunctionOnSet(f, Ends(0)) = 0
<1>1. Ends(0) = {}
  BY DEF Ends
<1> QED
  BY <1>1, SumEmpty

LEMMA RowIdentity ==
  ASSUME NEW N \in Nat, NEW y, \A i \in Ends(N) : y[i] \in Int, NEW j \in Ends(N),
         NEW m \in 0..j
  PROVE  SumFunctionOnSet(RowOf(y, j), Ends(m))
           = m * j * y[j] - SumFunctionOnSet(Ranks(N), Ends(m)) * y[j]
             - j * SumFunctionOnSet(y, Ends(m)) + SumFunctionOnSet(Products(y, N), Ends(m))
<1> DEFINE X(k) == SumFunctionOnSet(Ranks(N), Ends(k))
           Y(k) == SumFunctionOnSet(y, Ends(k))
           XY(k) == SumFunctionOnSet(Products(y, N), Ends(k))
           R(k) == SumFunctionOnSet(RowOf(y, j), Ends(k))
           F == {k \in 0..j : R(k) = k * j * y[j] - X(k) * y[j] - j * Y(k) + XY(k)}
<1>1. j \in Nat /\ j < N /\ y[j] \in Int
  BY DEF Ends
<1>2. 0 \in F
  <2>1. R(0) = 0 /\ X(0) = 0 /\ Y(0) = 0 /\ XY(0) = 0
    BY NoEnds
  <2> HIDE DEF R, X, Y, XY
  <2>2. 0 * j * y[j] - 0 * y[j] - j * 0 + 0 = 0
    BY <1>1
  <2> QED
    BY <1>1, <2>1, <2>2
<1>3. ASSUME NEW k \in Nat, k < j, k \in F
      PROVE  k + 1 \in F
  <2>1. /\ \A i \in Ends(k + 1) : i \in Ends(N) /\ i \in Ends(j) /\ i \in Int /\ y[i] \in Int
        /\ k \in Ends(k + 1)
    BY <1>1, <1>3 DEF Ends
  <2>2. \A i \in Ends(k + 1) : /\ Ranks(N)[i] = i /\ Products(y, N)[i] = i * y[i]
                               /\ RowOf(y, j)[i] = (j - i) * (y[j] - y[i])
    BY <2>1 DEF Ranks, Products, RowOf, Ends
  <2>3. \A i \in Ends(k + 1) : /\ Ranks(N)[i] \in Int /\ Products(y, N)[i] \in Int
                               /\ RowOf(y, j)[i] \in Int
    BY <1>1, <2>1, <2>2
  <2>4. X(k) \in Int /\ X(k + 1) = k + X(k)
    BY <2>1, <2>2, <2>3, SumNext
  <2>5. Y(k) \in Int /\ Y(k + 1) = y[k] + Y(k)
    BY <2>1, SumNext
  <2>6. XY(k) \in Int /\ XY(k + 1) = k * y[k] + XY(k)
    BY <2>1, <2>2, <2>3, SumNext
  <2>7. R(k) \in Int /\ R(k + 1) = (j - k) * (y[j] - y[k]) + R(k)
    BY <2>1, <2>2, <2>3, SumNext
  <2>8. R(k) = k * j * y[j] - X(k) * y[j] - j * Y(k) + XY(k) /\ y[k] \in Int
    BY <1>3, <2>1
  <2>9. \A a, b, x, z, w \in Int :
          (k + 1) * j * a - (k + x) * a - j * (b + z) + (k * b + w)
            = (j - k) * (a - b) + (k * j * a - x * a - j * z + w)
    BY <1>1
  <2> HIDE DEF R, X, Y, XY
  <2>10. R(k + 1) = (k + 1) * j * y[j] - X(k + 1) * y[j] - j * Y(k + 1) + XY(k + 1)
    BY <1>1, <2>4, <2>5, <2>6, <2>7, <2>8, <2>9
  <2> QED
    BY <1>1, <1>3, <2>10
<1>4. m \in Nat /\ m <= j
  BY <1>1
<1>5. m \in F
  <2>1. \A k \in Nat : k < m /\ k \in F => k + 1 \in F
    BY <1>1, <1>3, <1>4
  <2> HIDE DEF F
  <2> QED
    BY <1>2, <1>4, <2>1, InductionUpTo
<1> QED
  BY <1>5

LEMMA TriangleIdentity ==
  ASSUME NEW N \in Nat, NEW y, \A i \in Ends(N) : y[i] \in Int
  PROVE  /\ SumFunctionOnSet(RowSums(y, N), Ends(N))
              = N * SumFunctionOnSet(Products(y, N), Ends(N))
                - SumFunctionOnSet(Ranks(N), Ends(N)) * SumFunctionOnSet(y, Ends(N))
         /\ \A j \in Ends(N) : RowSums(y, N)[j] \in Int
<1> DEFINE X(k) == SumFunctionOnSet(Ranks(N), Ends(k))
           Y(k) == SumFunctionOnSet(y, Ends(k))
           XY(k) == SumFunctionOnSet(Products(y, N), Ends(k))
           T(k) == SumFunctionOnSet(RowSums(y, N), Ends(k))
           F == {k \in 0..N : T(k) = k * XY(k) - X(k) * Y(k)}
<1>1. 0 \in F
  <2>1. T(0) = 0 /\ X(0) = 0 /\ Y(0) = 0 /\ XY(0) = 0
    BY NoEnds
  <2> HIDE DEF T, X, Y, XY
  <2> QED
    BY <2>1
<1>2. ASSUME NEW j \in Ends(N)
      PROVE  /\ j \in Nat /\ y[j] \in Int /\ Ranks(N)[j] = j /\ Products(y, N)[j] = j * y[j]
             /\ X(j) \in Int /\ Y(j) \in Int /\ XY(j) \in Int
             /\ X(j + 1) = j + X(j) /\ Y(j + 1) = y[j] + Y(j)
             /\ XY(j + 1) = j * y[j] + XY(j)
             /\ RowSums(y, N)[j] = j * j * y[j] - X(j) * y[j] - j * Y(j) + XY(j)
             /\ RowSums(y, N)[j] \in Int
  <2>1. j \in Nat /\ j < N /\ y[j] \in Int /\ j \in 0..j
    BY DEF Ends
  <2>2. \A i \in Ends(j + 1) : i \in Ends(N) /\ i \in Int /\ y[i] \in Int
    BY <2>1 DEF Ends
  <2>3. \A i \in Ends(j + 1) \cup {j} : Ranks(N)[i] = i /\ Products(y, N)[i] = i * y[i]
    BY <2>1, <2>2 DEF Ranks, Products, Ends
  <2>4. \A i \in Ends(j + 1) : Ranks(N)[i] \in Int /\ Products(y, N)[i] \in Int
    BY <2>2, <2>3
  <2>5. X(j) \in Int /\ X(j + 1) = j + X(j)
    BY <2>1, <2>3, <2>4, SumNext
  <2>6. Y(j) \in Int /\ Y(j + 1) = y[j] + Y(j)
    BY <2>1, <2>2, SumNext
  <2>7. XY(j) \in Int /\ XY(j + 1) = j * y[j] + XY(j)
    BY <2>1, <2>3, <2>4, SumNext
  <2>8. RowSums(y, N)[j] = SumFunctionOnSet(RowOf(y, j), Ends(j))
    BY DEF RowSums
  <2>9. SumFunctionOnSet(RowOf(y, j), Ends(j)) = j * j * y[j] - X(j) * y[j] - j * Y(j) + XY(j)
    BY <2>1, RowIdentity
  <2>10. j * j * y[j] - X(j) * y[j] - j * Y(j) + XY(j) \in Int
    <3> HIDE DEF X, Y, XY
    <3> QED
      BY <2>1, <2>5, <2>6, <2>7
  <2> QED
    BY <2>1, <2>3, <2>5, <2>6, <2>7, <2>8, <2>9, <2>10
<1>3. ASSUME NEW k \in Nat, k < N, k \in F
      PROVE  k + 1 \in F
  <2>1. k \in Ends(N) /\ \A i \in Ends(k + 1) : i \in Ends(N)
    BY <1>3 DEF Ends
  <2>2. \A i \in Ends(k + 1) : RowSums(y, N)[i] \in Int
    BY <1>2, <2>1
  <2>3. T(k + 1) = RowSums(y, N)[k] + T(k)
    BY <2>2, SumNext
  <2>4. T(k) = k * XY(k) - X(k) * Y(k)
    BY <1>3
  <2> DEFINE Grows(b, x, z, w) ==
               (k + 1) * (k * b + w) - (k + x) * (b + z)
                 = (k * k * b - x * b - k * z + w) + (k * w - x * z)
  <2>5. \A b, x, z, w \in Int : Grows(b, x, z, w)
    OBVIOUS
  <2>6. /\ y[k] \in Int /\ X(k) \in Int /\ Y(k) \in Int /\ XY(k) \in Int
        /\ X(k + 1) = k + X(k) /\ Y(k + 1) = y[k] + Y(k)
        /\ XY(k + 1) = k * y[k] + XY(k)
        /\ RowSums(y, N)[k] = k * k * y[k] - X(k) * y[k] - k * Y(k) + XY(k)
    BY <1>2, <2>1
  <2> HIDE DEF T, X, Y, XY
  <2>7. Grows(y[k], X(k), Y(k), XY(k))
    <3> HIDE DEF Grows
    <3> QED
      BY <2>5, <2>6
  <2>8. T(k + 1) = (k + 1) * XY(k + 1) - X(k + 1) * Y(k + 1)
    BY <2>3, <2>4, <2>6, <2>7, Zenon
  <2> QED
    BY <1>3, <2>8
<1>4. N \in F
  <2> HIDE DEF F
  <2> QED
    BY <1>1, <1>3, InductionUpTo
<1> QED
  BY <1>2, <1>4

(* The pairs of weeks, and the products of their differences.              *)
Pairs(n) == {ij \in Ends(n) \X Ends(n) : ij[1] < ij[2]}
Differences(y, n) == [ij \in Pairs(n) |-> (ij[2] - ij[1]) * (y[ij[2]] - y[ij[1]])]
Later(n) == [ij \in Pairs(n) |-> ij[2]]
Earlier(n) == [ij \in Pairs(n) |-> ij[1]]

LEMMA PairsAreFinite ==
  ASSUME NEW N \in Nat
  PROVE  IsFiniteSet(Ends(N)) /\ IsFiniteSet(Pairs(N))
<1>1. IsFiniteSet(Ends(N))
  BY FS_Interval DEF Ends
<1>2. IsFiniteSet(Ends(N) \X Ends(N))
  BY <1>1, FS_Product
<1>3. Pairs(N) \in SUBSET (Ends(N) \X Ends(N))
  BY DEF Pairs
<1> QED
  BY <1>1, <1>2, <1>3, FS_Subset

LEMMA DifferenceOfPair ==
  ASSUME NEW N \in Nat, NEW y, \A i \in Ends(N) : y[i] \in Int, NEW ij \in Pairs(N)
  PROVE  /\ ij[1] \in Ends(N) /\ ij[2] \in Ends(N) /\ ij[1] < ij[2] /\ ij = <<ij[1], ij[2]>>
         /\ Differences(y, N)[ij] \in Int
         /\ Differences(y, N)[ij] = RowOf(y, ij[2])[ij[1]]
         /\ Later(N)[ij] = ij[2] /\ Earlier(N)[ij] = ij[1]
<1>1. ij[1] \in Ends(N) /\ ij[2] \in Ends(N) /\ ij[1] < ij[2] /\ ij = <<ij[1], ij[2]>>
  BY DEF Pairs
<1>2. y[ij[1]] \in Int /\ y[ij[2]] \in Int /\ ij[1] \in Nat /\ ij[2] \in Nat
  BY <1>1 DEF Ends
<1>3. Differences(y, N)[ij] = (ij[2] - ij[1]) * (y[ij[2]] - y[ij[1]])
  BY DEF Differences
<1>4. RowOf(y, ij[2])[ij[1]] = (ij[2] - ij[1]) * (y[ij[2]] - y[ij[1]])
  BY <1>1, <1>2 DEF RowOf, Ends
<1>5. (ij[2] - ij[1]) * (y[ij[2]] - y[ij[1]]) \in Int
  BY <1>2
<1> QED
  BY <1>1, <1>3, <1>4, <1>5 DEF Later, Earlier

LEMMA PairsOfOneRow ==
  ASSUME NEW N \in Nat, NEW y, \A i \in Ends(N) : y[i] \in Int, NEW j \in Ends(N)
  PROVE  SumFunctionOnSet(Differences(y, N), Class(Pairs(N), Later(N), j))
           = SumFunctionOnSet(RowOf(y, j), Ends(j))
<1> DEFINE f == Differences(y, N)
           S == Class(Pairs(N), Later(N), j)
<1>1. j \in Nat /\ j < N
  BY DEF Ends
<1>2. IsFiniteSet(S) /\ IsFiniteSet(Ends(j)) /\ S \in SUBSET Pairs(N)
  BY <1>1, PairsAreFinite, FS_Subset DEF Class
<1>3. \A ij \in S : /\ f[ij] \in Int /\ Earlier(N)[ij] \in Ends(j) /\ ij[2] = j
                    /\ Earlier(N)[ij] = ij[1] /\ ij = <<ij[1], ij[2]>>
  BY <1>1, DifferenceOfPair DEF Class, Ends
<1>4. ASSUME NEW i \in Ends(j)
      PROVE  RowOf(y, j)[i] = SumFunctionOnSet(f, Class(S, Earlier(N), i))
  <2>1. <<i, j>> \in Pairs(N)
    BY <1>1 DEF Pairs, Ends
  <2>2. <<i, j>> \in S /\ f[<<i, j>>] \in Int /\ f[<<i, j>>] = RowOf(y, j)[i]
    BY <2>1, DifferenceOfPair DEF Class
  <2>3. Class(S, Earlier(N), i) = {<<i, j>>}
    BY <1>3, <2>2 DEF Class
  <2> HIDE DEF f
  <2> QED
    BY <2>2, <2>3, SumOfOne
<1> HIDE DEF f, S
<1>5. SumFunctionOnSet(RowOf(y, j), Ends(j)) = SumFunctionOnSet(f, S)
  BY <1>2, <1>3, <1>4, SumByKey
<1> QED
  BY <1>5 DEF f, S

LEMMA PairsByRow ==
  ASSUME NEW N \in Nat, NEW y, \A i \in Ends(N) : y[i] \in Int
  PROVE  SumFunctionOnSet(Differences(y, N), Pairs(N))
           = SumFunctionOnSet(RowSums(y, N), Ends(N))
<1>1. IsFiniteSet(Ends(N)) /\ IsFiniteSet(Pairs(N))
  BY PairsAreFinite
<1>2. \A ij \in Pairs(N) : Differences(y, N)[ij] \in Int /\ Later(N)[ij] \in Ends(N)
  BY DifferenceOfPair
<1>3. \A j \in Ends(N) : RowSums(y, N)[j]
                           = SumFunctionOnSet(Differences(y, N), Class(Pairs(N), Later(N), j))
  BY PairsOfOneRow DEF RowSums
<1> QED
  BY <1>1, <1>2, <1>3, SumByKey

(* The slope of the code, of any numbers at all.                           *)
LEMMA RegressionIdentity ==
  ASSUME NEW N \in Nat, NEW y, \A i \in Ends(N) : y[i] \in Int
  PROVE  /\ LinearRegression(y, N).num = SumFunctionOnSet(Differences(y, N), Pairs(N))
         /\ LinearRegression(y, N).den
              = SumFunctionOnSet(Differences(Ranks(N), N), Pairs(N))
<1> DEFINE r == Ranks(N)
<1>1. \A i \in Ends(N) : r[i] = i /\ r[i] \in Int
  BY DEF Ranks, Ends
<1>2. IsFiniteSet(Ends(N))
  BY PairsAreFinite
<1>3. ASSUME NEW z, \A i \in Ends(N) : z[i] \in Int
      PROVE  /\ Weighted(z, N) = SumFunctionOnSet(Products(z, N), Ends(N))
             /\ Plain(z, N) = SumFunctionOnSet(z, Ends(N))
             /\ N * Weighted(z, N) - Plain(r, N) * Plain(z, N)
                  = SumFunctionOnSet(Differences(z, N), Pairs(N))
  <2>1. Weighted(z, N) = SumFunctionOnSet(Products(z, N), Ends(N))
    BY DEF Weighted, SumFunction, Products, Ends
  <2>2. \A v : Plain(v, N) = SumFunctionOnSet(v, Ends(N))
    <3> TAKE v
    <3> DEFINE g == [i \in Ends(N) |-> v[i]]
    <3>1. DOMAIN g = Ends(N) /\ \A i \in Ends(N) : g[i] = v[i]
      OBVIOUS
    <3>2. Plain(v, N) = SumFunction(g)
      BY DEF Plain, Ends
    <3> HIDE DEF g
    <3> QED
      BY <1>2, <3>1, <3>2, SumOfColumn
  <2>3. SumFunctionOnSet(RowSums(z, N), Ends(N))
          = N * SumFunctionOnSet(Products(z, N), Ends(N))
            - SumFunctionOnSet(r, Ends(N)) * SumFunctionOnSet(z, Ends(N))
    BY <1>3, TriangleIdentity
  <2>4. SumFunctionOnSet(Differences(z, N), Pairs(N)) = SumFunctionOnSet(RowSums(z, N), Ends(N))
    BY <1>3, PairsByRow
  <2> QED
    BY <2>1, <2>2, <2>3, <2>4, Zenon
<1>4. LinearRegression(y, N).num = N * Weighted(y, N) - Plain(r, N) * Plain(y, N)
      /\ LinearRegression(y, N).den = N * Weighted(r, N) - Plain(r, N) * Plain(r, N)
  BY DEF LinearRegression
<1> QED
  BY <1>1, <1>3, <1>4, Zenon

LEMMA WeeklyHoursAreNumbers ==
  ASSUME TypeOK, NEW p \in Projects
  PROVE  /\ WeeksTracked(p) \in Nat
         /\ \A i \in Ends(WeeksTracked(p)) : WeeklyHours(p)[i] \in Int
<1> DEFINE L == OfProject(p)
           K == WeeksOf(L)
           burn == BurnRate(L)
<1>1. L \subseteq Rows /\ \A l \in Rows : Week(l) \in Int
  BY Columns DEF OfProject
<1>2. IsFiniteSet(K) /\ K \in SUBSET Int
  BY <1>1, KeysAreFinite DEF WeeksOf
<1>3. DOMAIN burn = K /\ WeeksTracked(p) = Cardinality(K) /\ Cardinality(K) \in Nat
  BY <1>2, FS_CardinalityType DEF BurnRate, WeeksTracked
<1>4. ASSUME NEW i \in Ends(Cardinality(K))
      PROVE  WeeklyHours(p)[i] \in Int
  <2> DEFINE v == CHOOSE w \in K : Rank(K, w) = i
  <2>1. v \in K
    <3>1. \E w \in K : Rank(K, w) = i
      BY <1>2, <1>4, EveryRank DEF Ends
    <3> QED
      BY <3>1
  <2>2. WeeklyHours(p)[i] = burn[v].hours
    BY <1>3 DEF WeeklyHours, Rank, Ends
  <2>3. burn[v].hours = Hours(L \cap OfWeek(v))
    BY <2>1 DEF BurnRate
  <2>4. L \cap OfWeek(v) \subseteq Rows
    BY <1>1
  <2>5. Hours(L \cap OfWeek(v)) \in Nat
    BY <2>4, HoursOf
  <2> QED
    BY <2>2, <2>3, <2>5
<1> QED
  BY <1>3, <1>4

LEMMA SlopeDenominator ==
  ASSUME NEW N \in Nat, N >= 2
  PROVE  /\ SumFunctionOnSet(Differences(Ranks(N), N), Pairs(N)) > 0
         /\ \A ij \in Pairs(N) :
              Differences(Ranks(N), N)[ij] = (ij[2] - ij[1]) * (ij[2] - ij[1])
<1> DEFINE d == Differences(Ranks(N), N)
<1>1. ASSUME NEW ij \in Pairs(N)
      PROVE  d[ij] = (ij[2] - ij[1]) * (ij[2] - ij[1]) /\ d[ij] \in Nat
  <2>1. ij[1] \in Ends(N) /\ ij[2] \in Ends(N) /\ ij[1] < ij[2]
    BY DEF Pairs
  <2>2. Ranks(N)[ij[1]] = ij[1] /\ Ranks(N)[ij[2]] = ij[2]
    BY <2>1 DEF Ranks, Ends
  <2>3. ij[2] - ij[1] \in Nat
    BY <2>1 DEF Ends
  <2>4. (ij[2] - ij[1]) * (ij[2] - ij[1]) \in Nat
    BY <2>3
  <2> QED
    BY <2>2, <2>4 DEF Differences
<1>2. <<0, 1>> \in Pairs(N)
  BY DEF Pairs, Ends
<1>3. d[<<0, 1>>] = 1
  BY <1>1, <1>2
<1>4. IsFiniteSet(Pairs(N)) /\ \A ij \in Pairs(N) : d[ij] \in Int
  BY <1>1, PairsAreFinite
<1> HIDE DEF d
<1>5. SumFunctionOnSet(d, Pairs(N)) \in Int /\ d[<<0, 1>>] <= SumFunctionOnSet(d, Pairs(N))
  BY <1>1, <1>2, <1>4, SumIsInt, SumOfOnePart
<1> QED
  BY <1>1, <1>3, <1>5 DEF d

LEMMA SlopeIsANumber ==
  ASSUME NEW N \in Nat, NEW y, \A i \in Ends(N) : y[i] \in Int
  PROVE  LinearRegression(y, N).num \in Int /\ LinearRegression(y, N).den \in Int
<1>1. \A i \in Ends(N) : Ranks(N)[i] \in Int
  BY DEF Ranks, Ends
<1>2. /\ \A ij \in Pairs(N) : Differences(y, N)[ij] \in Int
      /\ \A ij \in Pairs(N) : Differences(Ranks(N), N)[ij] \in Int
  BY <1>1, DifferenceOfPair
<1> QED
  BY <1>2, PairsAreFinite, RegressionIdentity, SumIsInt

(* If no pair of weeks rises, or falls, by more than a tenth of an hour    *)
(* for each week between, the slope does not either.                       *)
LEMMA SlopeIsWithinThePairs ==
  ASSUME NEW N \in Nat, NEW y, \A i \in Ends(N) : y[i] \in Int, NEW a \in Int, NEW b \in Nat,
         \A ij \in Pairs(N) : a * (y[ij[2]] - y[ij[1]]) <= b * (ij[2] - ij[1])
  PROVE  a * LinearRegression(y, N).num <= b * LinearRegression(y, N).den
<1> DEFINE f == Differences(y, N)
           g == Differences(Ranks(N), N)
<1>1. \A i \in Ends(N) : Ranks(N)[i] = i /\ Ranks(N)[i] \in Int
  BY DEF Ranks, Ends
<1>2. ASSUME NEW ij \in Pairs(N)
      PROVE  f[ij] \in Int /\ g[ij] \in Int /\ a * f[ij] <= b * g[ij]
  <2> DEFINE d == ij[2] - ij[1]
             e == y[ij[2]] - y[ij[1]]
  <2>1. ij[1] \in Ends(N) /\ ij[2] \in Ends(N) /\ ij[1] < ij[2]
    BY DEF Pairs
  <2>2. d \in Nat /\ e \in Int
    BY <2>1 DEF Ends
  <2>3. f[ij] = d * e /\ g[ij] = d * d
    BY <1>1, <2>1 DEF Differences
  <2>4. a * e <= b * d
    OBVIOUS
  <2> HIDE DEF d, e
  <2>5. a * (d * e) = d * (a * e) /\ b * (d * d) = d * (b * d)
    BY <2>2
  <2>6. d * (a * e) <= d * (b * d)
    <3>1. \A r, t \in Int : r <= t => d * r <= d * t
      BY <2>2
    <3>2. a * e \in Int /\ b * d \in Int
      BY <2>2
    <3> QED
      BY <2>4, <3>1, <3>2
  <2>7. d * e \in Int /\ d * d \in Int
    BY <2>2
  <2> HIDE DEF f, g
  <2> QED
    BY <2>3, <2>5, <2>6, <2>7
<1>3. IsFiniteSet(Pairs(N)) /\ b \in Int
  BY PairsAreFinite
<1>4. a * SumFunctionOnSet(f, Pairs(N)) <= b * SumFunctionOnSet(g, Pairs(N))
  <2> HIDE DEF f, g
  <2> QED
    BY <1>2, <1>3, SumsCompare, Zenon
<1>5. /\ LinearRegression(y, N).num = SumFunctionOnSet(f, Pairs(N))
      /\ LinearRegression(y, N).den = SumFunctionOnSet(g, Pairs(N))
  BY RegressionIdentity
<1> HIDE DEF f, g
<1> QED
  BY <1>4, <1>5, Zenon

LEMMA SlopeOfTheCode == ASSUME TypeOK PROVE SlopeIsLeastSquares
<1> SUFFICES ASSUME NEW p \in Projects, WeeksTracked(p) >= 2
             PROVE  LET y == WeeklyHours(p)
                        n == WeeksTracked(p)
                        pairs == {ij \in (0..(n - 1)) \X (0..(n - 1)) : ij[1] < ij[2]}
                        num == SumFunction([ij \in pairs |->
                                              (ij[2] - ij[1]) * (y[ij[2]] - y[ij[1]])])
                        den == SumFunction([ij \in pairs |->
                                              (ij[2] - ij[1]) * (ij[2] - ij[1])])
                        s == LinearRegression(y, n) IN
                    /\ s.den > 0 /\ s.num * den = num * s.den
                    /\ Trend(p) = "increasing" =>
                         \E ij \in pairs : 10 * (y[ij[2]] - y[ij[1]]) > Hour * (ij[2] - ij[1])
                    /\ Trend(p) = "decreasing" =>
                         \E ij \in pairs : 10 * (y[ij[1]] - y[ij[2]]) > Hour * (ij[2] - ij[1])
  BY DEF SlopeIsLeastSquares
<1> DEFINE y == WeeklyHours(p)
           n == WeeksTracked(p)
           squares == [ij \in Pairs(n) |-> (ij[2] - ij[1]) * (ij[2] - ij[1])]
           num == SumFunction(Differences(y, n))
           den == SumFunction(squares)
           s == LinearRegression(y, n)
<1>1. n \in Nat /\ n >= 2 /\ \A i \in Ends(n) : y[i] \in Int
  BY WeeklyHoursAreNumbers
<1>2. s.num = num
  BY <1>1, RegressionIdentity DEF SumFunction, Differences
<1>3. s.den = den /\ s.den > 0
  <2>1. s.den = SumFunctionOnSet(Differences(Ranks(n), n), Pairs(n)) /\ s.den > 0
    BY <1>1, RegressionIdentity, SlopeDenominator
  <2>2. DOMAIN squares = Pairs(n) /\ IsFiniteSet(Pairs(n))
        /\ \A ij \in Pairs(n) : squares[ij] = Differences(Ranks(n), n)[ij]
    BY <1>1, SlopeDenominator, PairsAreFinite
  <2> HIDE DEF squares
  <2> QED
    BY <2>1, <2>2, SumOfColumn
<1>4. s.num * den = num * s.den
  BY <1>2, <1>3, Zenon
<1>5. Trend(p) = CASE 10 * s.num > Hour * s.den -> "increasing"
                   [] 10 * s.num < -(Hour * s.den) -> "decreasing"
                   [] OTHER -> "stable"
  BY DEF Trend
<1>6. \A ij \in Pairs(n) : ij[1] \in Nat /\ ij[2] \in Nat /\ y[ij[1]] \in Int /\ y[ij[2]] \in Int
  BY <1>1 DEF Pairs, Ends
<1>7. s.num \in Int /\ s.den \in Int /\ Hour \in Nat /\ 10 \in Int /\ -10 \in Int
  BY <1>1, SlopeIsANumber DEF Hour
<1>8. ASSUME Trend(p) = "increasing"
      PROVE  \E ij \in Pairs(n) : 10 * (y[ij[2]] - y[ij[1]]) > Hour * (ij[2] - ij[1])
  <2> SUFFICES ASSUME \A ij \in Pairs(n) : ~(10 * (y[ij[2]] - y[ij[1]]) > Hour * (ij[2] - ij[1]))
               PROVE  FALSE
    OBVIOUS
  <2> HIDE DEF s, y, n
  <2>1. \A ij \in Pairs(n) : 10 * (y[ij[2]] - y[ij[1]]) <= Hour * (ij[2] - ij[1])
    BY <1>6, <1>7
  <2>2. 10 * s.num <= Hour * s.den
    BY <1>1, <1>7, <2>1, SlopeIsWithinThePairs, Zenon DEF s
  <2> QED
    BY <1>5, <1>7, <1>8, <2>2
<1>9. ASSUME Trend(p) = "decreasing"
      PROVE  \E ij \in Pairs(n) : 10 * (y[ij[1]] - y[ij[2]]) > Hour * (ij[2] - ij[1])
  <2> SUFFICES ASSUME \A ij \in Pairs(n) : ~(10 * (y[ij[1]] - y[ij[2]]) > Hour * (ij[2] - ij[1]))
               PROVE  FALSE
    OBVIOUS
  <2> HIDE DEF s, y, n
  <2>1. \A ij \in Pairs(n) : (-10) * (y[ij[2]] - y[ij[1]]) <= Hour * (ij[2] - ij[1])
    BY <1>6, <1>7
  <2>2. (-10) * s.num <= Hour * s.den
    BY <1>1, <1>7, <2>1, SlopeIsWithinThePairs, Zenon DEF s
  <2>3. ~(10 * s.num < -(Hour * s.den))
    BY <1>7, <2>2
  <2> QED
    BY <1>5, <1>9, <2>3
<1> QED
  BY <1>3, <1>4, <1>8, <1>9 DEF Pairs, Ends, Differences

(* The slope that decides the forecast is that of least squares, whatever  *)
(* the weekly hours, and it points up or down only if some two weeks do.   *)
THEOREM SlopeIsLeastSquaresHolds == Spec => []SlopeIsLeastSquares
BY TypeCorrect, SlopeOfTheCode, PTL
=============================================================================

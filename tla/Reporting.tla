----------------------------- MODULE Reporting -----------------------------
(***************************************************************************)
(* The reporting service (services/reporting-service/main.py) for one      *)
(* tenant: the fact table its subscriber keeps, the budgets, and the       *)
(* reports computed from both.                                             *)
(*                                                                         *)
(* A report is an operator on the tables as they are.  Hours are integers  *)
(* counting hundredths, as in TimeLogEntity; averages and percentages are  *)
(* compared by multiplying out, so they stay exact.  A log date is a       *)
(* number and seven of them make a week.  Every SELECT of a report sees    *)
(* the same table here.                                                    *)
(***************************************************************************)
EXTENDS Integers, FiniteSets, Functions, ReportingFacts

CONSTANTS
  Logs, Users, Projects, Dates, Categories,
  Approvals,    \* bound: what an approval may say of a log
  Budgets,      \* bound: the budgets that may be set
  Insights,     \* bound: the insights that may arrive
  Recent,       \* LIMIT of the query for the older quality scores
  Top,          \* LIMIT of the query for the top projects
  MaxEvents     \* bound: events handled

Said == [user : Users, project : Projects, date : Dates,
         hours : Nat, cost : Nat, billable : BOOLEAN]
Insight == [category : Categories, quality : Nat]
Budget == [hours : Nat, estimate : Nat]
Fact == [log : Said, insight : Insight \cup {None}, paid : BOOLEAN, amount : Nat]

ASSUME DatesAssumption == Dates \subseteq Nat
ASSUME InputAssumption ==
  Approvals \subseteq Said /\ Budgets \subseteq Budget /\ Insights \subseteq Insight
ASSUME NoneAssumption == None \notin Said \cup Insight \cup Budget \cup Nat \cup Fact
ASSUME FiniteAssumption == IsFiniteSet(Logs) /\ IsFiniteSet(Projects)    \* both are uuids
ASSUME LimitAssumption == Recent \in Nat \ {0} /\ Top \in Nat \ {0}

Hour == 100

VARIABLES
  facts,      \* time_facts
  budgets,    \* project_budgets
  handled,    \* number of events handled
  reapproved  \* the logs approved again after they were paid for

vars == <<facts, budgets, handled, reapproved>>
-----------------------------------------------------------------------------
(* Aggregates over a set L of logs that have a fact.                       *)

Rows == {l \in Logs : facts[l] # None}
Week(l) == facts[l].log.date \div 7
OfUser(u) == {l \in Rows : facts[l].log.user = u}
OfProject(p) == {l \in Rows : facts[l].log.project = p}
OfWeek(w) == {l \in Rows : Week(l) = w}

Hours(L) == SumFunction([l \in L |-> facts[l].log.hours])
Cost(L) == SumFunction([l \in L |-> facts[l].log.cost])
Paid(L) == SumFunction([l \in {k \in L : facts[k].paid} |-> facts[l].amount])
Billable(L) == {l \in L : facts[l].log.billable}
Scored(L) == {l \in L : facts[l].insight # None}
QualitySum(L) == SumFunction([l \in Scored(L) |-> facts[l].insight.quality])
UsersOf(L) == {facts[l].log.user : l \in L}
ProjectsOf(L) == {facts[l].log.project : l \in L}
WeeksOf(L) == {Week(l) : l \in L}

(* What ORDER BY key LIMIT k may return of S: any of those with one key.   *)
Limited(S, k, key) ==
  {T \in SUBSET S :
     /\ Cardinality(T) = IF Cardinality(S) < k THEN Cardinality(S) ELSE k
     /\ \A x \in T, y \in S \ T : key[x] <= key[y]}
-----------------------------------------------------------------------------
(* The reports that break totals down.                                     *)

Summary == [entries |-> Cardinality(Rows), hours |-> Hours(Rows),
            cost |-> Cost(Rows), paid |-> Paid(Rows)]

\* Variant with a fault: billable rows alone.
BurnRateBilled(L) ==
  [w \in WeeksOf(L) |->
     LET W == Billable(L) \cap OfWeek(w) IN
     [entries |-> Cardinality(W), hours |-> Hours(W), cost |-> Cost(W),
      billable |-> Hours(W)]]

(* Of the tenant or of one project; also the weeks of profitability and    *)
(* forecast.                                                               *)
BurnRate(L) ==
  [w \in WeeksOf(L) |->
     LET W == L \cap OfWeek(w) IN
     [entries |-> Cardinality(W), hours |-> Hours(W), cost |-> Cost(W),
      billable |-> Hours(Billable(W))]]

CategoryOf(l) == IF facts[l].insight = None THEN None ELSE facts[l].insight.category

Productivity(L) == [c \in {CategoryOf(l) : l \in L} |-> Hours({l \in L : CategoryOf(l) = c})]

Individual(u) ==
  LET L == OfUser(u) IN
  [entries |-> Cardinality(L), hours |-> Hours(L), cost |-> Cost(L),
   billable |-> Hours(Billable(L)),
   daily |-> [d \in {facts[l].log.date : l \in L} |-> Hours({l \in L : facts[l].log.date = d})],
   projects |-> [p \in ProjectsOf(L) |-> Hours(L \cap OfProject(p))]]

(* The projects with the most hours, in any order among equal ones.        *)
TopProjects ==
  Limited(ProjectsOf(Rows), Top, [p \in ProjectsOf(Rows) |-> -Hours(OfProject(p))])

(* capacity is 40 hours per user and week; utilisation is hours/capacity.  *)
Positive(n) == IF n = 0 THEN 1 ELSE n
Team ==
  [hours |-> [u \in UsersOf(Rows) |-> Hours(OfUser(u))],
   capacity |-> Positive(Cardinality(UsersOf(Rows))) * Positive(Cardinality(WeeksOf(Rows))) * 40 * Hour,
   tops |-> {[p \in T |-> Hours(OfProject(p))] : T \in TopProjects}]

(* profitability: the actual figures of a project, and executive's rows.   *)
Margin(L) == Paid(L) - Cost(L)
Profitability(p) ==
  LET L == OfProject(p) IN
  [hours |-> Hours(L), cost |-> Cost(L), revenue |-> Paid(L), margin |-> Margin(L),
   billable |-> Hours(Billable(L)), other |-> Hours(L \ Billable(L))]

Latest(W) == CHOOSE w \in W : \A v \in W : v <= w

(* Hours of the latest week that has entries, and the change to the one    *)
(* before it.                                                              *)
Digest ==
  LET weeks == WeeksOf(Rows)
      this == Latest(weeks)
      hours(w) == Hours(OfWeek(w)) IN
  [hours |-> hours(this),
   delta |-> IF weeks = {this} THEN 0 ELSE hours(this) - hours(Latest(weeks \ {this}))]
-----------------------------------------------------------------------------
(* The judgements.                                                         *)

(* executive: risk_score = 50 * ratio + max(0, 5 - average) * 10, which is *)
(* rounded to a tenth before it is compared; all multiplied by 20 * h * n. *)
(* No scores, or an average of 0, count as 5.                              *)
\* Variant with a fault: averages on the scale of the AI service.
RiskInPercent(L, limit) ==
  LET h == Positive(Hours(L))
      n == Positive(Cardinality(Scored(L)))
      q == IF QualitySum(L) = 0 THEN 50 * n ELSE QualitySum(L)
      poor == IF 50 * n > q THEN 50 * n - q ELSE 0 IN
  20 * (50 * Hours(L \ Billable(L)) * n + poor * h) >= (20 * limit - 1) * h * n

RiskReaches(L, limit) ==
  LET h == Positive(Hours(L))
      n == Positive(Cardinality(Scored(L)))
      q == IF QualitySum(L) = 0 THEN 5 * n ELSE QualitySum(L)
      poor == IF 5 * n > q THEN 5 * n - q ELSE 0 IN
  20 * (50 * Hours(L \ Billable(L)) * n + 10 * poor * h) >= (20 * limit - 1) * h * n

RiskLevel(p) ==
  CASE RiskReaches(OfProject(p), 40) -> "high"
    [] RiskReaches(OfProject(p), 20) /\ ~RiskReaches(OfProject(p), 40) -> "medium"
    [] OTHER -> "low"

(* wellness: the query for the recent scores averages all of them, its     *)
(* LIMIT applies to the one row of the result; the older ones are the      *)
(* first ten, any of them where dates are equal.                           *)
Oldest(L) == Limited(Scored(L), Recent, [l \in L |-> facts[l].log.date])

QualityDeclines(L, S) ==
  LET n == Cardinality(Scored(L))
      k == Cardinality(S) IN
  /\ QualitySum(L) > 0 /\ QualitySum(S) > 0
  /\ 2 * QualitySum(L) * k < 2 * QualitySum(S) * n - n * k

\* Variant with a fault: an older, lower bar.
OvertimePointsFrom40(L) ==
  LET weekly(h) == Hours(L) > h * Hour * Positive(Cardinality(WeeksOf(L))) IN
  CASE weekly(50) -> 40 [] weekly(45) /\ ~weekly(50) -> 30
    [] weekly(40) /\ ~weekly(45) -> 15 [] OTHER -> 0

OvertimePoints(L) ==
  LET weekly(h) == Hours(L) > h * Hour * Positive(Cardinality(WeeksOf(L))) IN
  CASE weekly(55) -> 40 [] weekly(50) /\ ~weekly(55) -> 30
    [] weekly(45) /\ ~weekly(50) -> 15 [] OTHER -> 0

(* strftime('%%w'), in a string that is not formatted, is the text "%w",   *)
(* which casts to 0: every entry counts as one of a Sunday.                *)
WeekendEntries(L) == L
WeekendPoints(L) ==
  IF Hours(WeekendEntries(L)) > 8 * Hour THEN 20 ELSE IF WeekendEntries(L) # {} THEN 10 ELSE 0

(* The scores that the order of equal dates may lead to.                   *)
WellnessScores(u) ==
  {OvertimePoints(OfUser(u)) + WeekendPoints(OfUser(u))
     + (IF QualityDeclines(OfUser(u), S) THEN 15 ELSE 0) : S \in Oldest(OfUser(u))}

WellnessLevel(score) ==
  CASE score >= 50 -> "critical" [] score \in 30..49 -> "at_risk"
    [] score \in 15..29 -> "watch" [] OTHER -> "healthy"
-----------------------------------------------------------------------------
(* The forecast.  The slope of the regression over the weeks of a project, *)
(* numbered from 0, as a quotient.                                         *)

Weighted(y, n) == SumFunction([i \in 0..(n - 1) |-> i * y[i]])
Plain(y, n) == SumFunction([i \in 0..(n - 1) |-> y[i]])
Ranks(n) == [i \in 0..(n - 1) |-> i]

\* Variant with a fault: the mean is not taken out of the products.
RawProducts(y, n) ==
  [num |-> n * Weighted(y, n),
   den |-> n * Weighted(Ranks(n), n) - Plain(Ranks(n), n) * Plain(Ranks(n), n)]

LinearRegression(y, n) ==
  [num |-> n * Weighted(y, n) - Plain(Ranks(n), n) * Plain(y, n),
   den |-> n * Weighted(Ranks(n), n) - Plain(Ranks(n), n) * Plain(Ranks(n), n)]

WeeklyHours(p) ==
  LET burn == BurnRate(OfProject(p))
      rank(w) == Cardinality({v \in DOMAIN burn : v < w}) IN
  [i \in 0..(Cardinality(DOMAIN burn) - 1) |->
     burn[CHOOSE w \in DOMAIN burn : rank(w) = i].hours]

WeeksTracked(p) == Cardinality(WeeksOf(OfProject(p)))

(* The direction, from a slope of more than a tenth of an hour per week.   *)
Trend(p) ==
  LET s == LinearRegression(WeeklyHours(p), WeeksTracked(p)) IN
  CASE 10 * s.num > Hour * s.den -> "increasing" [] 10 * s.num < -(Hour * s.den) -> "decreasing"
    [] OTHER -> "stable"

(* weeks_to_budget_exhaustion, or to_estimated_completion: the hours that   *)
(* remain over the weekly average; none unless some remain.                *)
WeeksLeft(p, limit) ==
  IF WeeksTracked(p) >= 2 /\ limit > Hours(OfProject(p)) /\ Hours(OfProject(p)) > 0
  THEN [num |-> (limit - Hours(OfProject(p))) * WeeksTracked(p), den |-> Hours(OfProject(p))]
  ELSE None

(* scope_creep_status; the percentage is rounded to a tenth first.         *)
ScopeCreep(p) ==
  LET e == IF budgets[p] = None THEN 0 ELSE budgets[p].estimate
      upTo(percent) == 2000 * (Hours(OfProject(p)) - e) <= (20 * percent + 1) * e IN
  CASE e = 0 -> "unknown" [] e > 0 /\ upTo(0) -> "on_track"
    [] e > 0 /\ ~upTo(0) /\ upTo(15) -> "minor"
    [] e > 0 /\ ~upTo(15) /\ upTo(30) -> "moderate"
    [] e > 0 /\ ~upTo(30) -> "severe"
-----------------------------------------------------------------------------
(* What changes the tables.                                                *)

Handles == handled < MaxEvents /\ handled' = handled + 1

TimeLogApproved(l, said) ==
  /\ Handles
  /\ facts' = Upserted(facts, l, said)
  /\ reapproved' = IF facts[l] # None /\ facts[l].paid THEN reapproved \cup {l} ELSE reapproved
  /\ UNCHANGED budgets

AIInsight(l, insight) ==
  /\ Handles
  /\ facts' = Enriched(facts, l, insight)
  /\ UNCHANGED <<budgets, reapproved>>

InvoicePaid ==
  /\ Handles
  /\ facts' = MarkedPaid(facts)
  /\ UNCHANGED <<budgets, reapproved>>

SetProjectBudget(p, b) ==
  /\ budgets' = [budgets EXCEPT ![p] = b]
  /\ UNCHANGED <<facts, handled, reapproved>>

Init ==
  /\ facts = [l \in Logs |-> None]
  /\ budgets = [p \in Projects |-> None]
  /\ handled = 0 /\ reapproved = {}

Next ==
  \/ \E l \in Logs : \/ \E said \in Approvals : TimeLogApproved(l, said)
                     \/ \E insight \in Insights : AIInsight(l, insight)
  \/ InvoicePaid
  \/ \E p \in Projects, b \in Budgets : SetProjectBudget(p, b)

Spec == Init /\ [][Next]_vars
-----------------------------------------------------------------------------
(* Properties.                                                             *)

\* The tables have the shape the service gives them; only paid facts are
\* approved again after their payment.
TypeOK ==
  /\ facts \in [Logs -> Fact \cup {None}]
  /\ budgets \in [Projects -> Budget \cup {None}]
  /\ reapproved \subseteq {l \in Rows : facts[l].paid}

\* Whichever report one reads, the same hours are in it, each once: those of
\* the weeks, of the categories, of the users and of the projects add up to
\* the summary, the list of top projects, which may be cut short, has at least
\* its share of them, the digest is about the last week of the burn rate, and
\* no project is both past its estimate and forecast to be completed.
Total(f) == SumFunction(f)
ReportsAgree ==
  LET burn == BurnRate(Rows) IN
  /\ Total([w \in DOMAIN burn |-> burn[w].hours]) = Summary.hours
  /\ Total([w \in DOMAIN burn |-> burn[w].cost]) = Summary.cost
  /\ Total([w \in DOMAIN burn |-> burn[w].entries]) = Summary.entries
  /\ Total([w \in DOMAIN burn |-> burn[w].billable]) = Hours(Billable(Rows))
  /\ Total(Productivity(Rows)) = Summary.hours
  /\ Total(Team.hours) = Summary.hours
  /\ Total([p \in ProjectsOf(Rows) |-> Profitability(p).hours]) = Summary.hours
  /\ \A top \in Team.tops :
       /\ Total(top) <= Summary.hours
       /\ Total(top) * Cardinality(ProjectsOf(Rows)) >= Summary.hours * Cardinality(DOMAIN top)
  /\ \A u \in UsersOf(Rows) :
       /\ Individual(u).hours = Team.hours[u]
       /\ Total(Individual(u).daily) = Team.hours[u]
       /\ Total(Individual(u).projects) = Team.hours[u]
  /\ Total([p \in Projects |-> Profitability(p).revenue]) = Summary.paid
  /\ \A p \in Projects : LET x == Profitability(p) IN x.billable + x.other = x.hours
  /\ Rows # {} => /\ Digest.hours = burn[Latest(DOMAIN burn)].hours
                   /\ Digest.delta <= Digest.hours
  /\ \A p \in Projects : ScopeCreep(p) \in {"minor", "moderate", "severe"} =>
       WeeksLeft(p, budgets[p].estimate) = None

\* "critical" says something of the hours: the points for weekends and for
\* declining quality alone do not add up to it, although every entry counts as
\* one of a weekend.
CriticalNeedsOvertime ==
  \A u \in UsersOf(Rows) :
    (\E score \in WellnessScores(u) : WellnessLevel(score) = "critical") =>
      Hours(OfUser(u)) > 45 * Hour * Cardinality(WeeksOf(OfUser(u)))

\* The delivery risk expects averages up to 5, the AI service gives scores up
\* to 100, and so quality does not count: unless the average is 5 or less, a
\* project is at high risk if and only if four fifths of its hours, after
\* rounding, are not billable.
RiskIsNonBillableShare ==
  \A p \in ProjectsOf(Rows) :
    LET L == OfProject(p)
        x == Profitability(p) IN
    QualitySum(L) \notin 1..(5 * Cardinality(Scored(L))) =>
      (RiskLevel(p) = "high" <=> x.hours > 0 /\ 1000 * x.other >= 799 * x.hours)

\* The slope is that of least squares: the products of differences over all
\* pairs of weeks, over their squares.  A project is said to increase only if
\* the hours of some week are above those of an earlier one by more than a
\* tenth of an hour for each week between, and to decrease if below.
SlopeIsLeastSquares ==
  \A p \in Projects : WeeksTracked(p) >= 2 =>
    LET y == WeeklyHours(p)
        n == WeeksTracked(p)
        pairs == {ij \in (0..(n - 1)) \X (0..(n - 1)) : ij[1] < ij[2]}
        num == SumFunction([ij \in pairs |-> (ij[2] - ij[1]) * (y[ij[2]] - y[ij[1]])])
        den == SumFunction([ij \in pairs |-> (ij[2] - ij[1]) * (ij[2] - ij[1])])
        s == LinearRegression(y, n) IN
    /\ s.den > 0 /\ s.num * den = num * s.den
    /\ Trend(p) = "increasing" =>
         \E ij \in pairs : 10 * (y[ij[2]] - y[ij[1]]) > Hour * (ij[2] - ij[1])
    /\ Trend(p) = "decreasing" =>
         \E ij \in pairs : 10 * (y[ij[1]] - y[ij[2]]) > Hour * (ij[2] - ij[1])

\* A project that earns more than it costs has a log that was approved again
\* after it was paid for, and costs less since: a payment books what the logs
\* cost when it is made, whatever approvals there were before.
MarginNeedsReapproval ==
  \A p \in Projects : Margin(OfProject(p)) > 0 =>
    \E l \in OfProject(p) \cap reapproved : facts[l].amount > facts[l].log.cost

\* A fact is paid for once, with the amount it cost then, whatever approvals,
\* insights and payments follow.
PaidAmountIsKept ==
  [][\A l \in Rows : facts[l].paid =>
       /\ facts'[l] # None /\ facts'[l].paid
       /\ facts'[l].amount = facts[l].amount]_vars
=============================================================================

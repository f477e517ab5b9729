----------------------------- MODULE MCReporting ---------------------------
(* Instances of Reporting for TLC.                                         *)
EXTENDS Reporting

CONSTANTS l1, l2, l3, u1, u2, p1, p2

Approval(u, p, d, h, c, b) ==
  [user |-> u, project |-> p, date |-> d, hours |-> h, cost |-> c, billable |-> b]

\* Long and short days of three weeks, for two users and two projects; from
\* the short day of the second week to that of the third it is 0.05 hours.
ThreeWeeks ==
  {Approval(u1, p1, 0, 2000, 40, TRUE), Approval(u1, p1, 1, 2400, 0, FALSE),
   Approval(u1, p1, 8, 400, 2, TRUE), Approval(u1, p2, 8, 2400, 24, FALSE),
   Approval(u2, p1, 15, 405, 3, TRUE)}
SomeBudget == {[hours |-> 3000, estimate |-> 2500]}
FewDates == {0, 1, 8, 15}

\* A description of one word and one of three.
OneAndThreeWords == {[category |-> "Development", quality |-> 45],
                 [category |-> "Meetings", quality |-> 15]}
=============================================================================

------------------------ MODULE MCTimesheetWorkflow ------------------------
(* Instances of TimesheetWorkflow for TLC.                                 *)
EXTENDS TimesheetWorkflow, TLC

CONSTANTS l1, l2, t1, t2, u1, u2

\* Any pair of dates, as the API accepts them.
AnyWeeks == Days \X Days
\* One-day weeks that do not overlap, as the web client sends them.
DisjointWeeks == {<<d, d>> : d \in Days}

\* Logs and timesheets are interchangeable identifiers.
Interchangeable == Permutations(Logs) \cup Permutations(Sheets)
=============================================================================

------------------------ MODULE MCTimesheetRequests ------------------------
(* Instances of TimesheetRequests for TLC.                                 *)
EXTENDS TimesheetRequests, TLC

CONSTANTS l1, l2, t1, t2, u1, w1, w2

\* One-day weeks that do not overlap.
DisjointWeeks == {<<d, d>> : d \in Days}

Decisions == {"approve_sheet", "reject_sheet", "approve_log", "reject_log"}
Recording == {"create", "submit"}
DecisionsAndRecording == Decisions \cup Recording
Submitting == {"create", "submit", "approve_sheet"}
AllOps == LogOps \cup SheetOps \cup {"create", "start", "submit"}

Interchangeable == Permutations(Logs) \cup Permutations(Sheets) \cup Permutations(Workers)
=============================================================================

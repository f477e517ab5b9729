-------------------------- MODULE MCProjectRequests ------------------------
(* Instances of ProjectRequests for TLC.                                   *)
EXTENDS ProjectRequests

CONSTANTS p1, w1, w2

\* A change of another column, and a status that can be left and one that
\* cannot.
HoldOrArchive == {None, "archived"}
=============================================================================

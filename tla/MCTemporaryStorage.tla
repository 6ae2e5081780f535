-------------------------- MODULE MCTemporaryStorage --------------------------
(* Two workloads that share one of two workspaces.                         *)
EXTENDS TemporaryStorage

CONSTANTS j1, j2, p1, p2, w1, w2

TwoJobs == {j1, j2}
TwoPaths == {p1, p2}
TwoWriters == {w1, w2}
SharedPath == [j \in TwoJobs |-> IF j = j1 THEN {p1, p2} ELSE {p1}]
=============================================================================

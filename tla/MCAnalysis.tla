----------------------------- MODULE MCAnalysis -----------------------------
(* Instances of Analysis: one user who runs two analyses, one through an   *)
(* API key, while a third request adds and spends points.                  *)
EXTENDS Analysis, TLC

CONSTANTS u1, r1, r2, r3, a1, a2, k1, other

MCCaller == [r \in Requests |-> u1]
MCTargets == [r \in Requests |-> {u1}]
MCKeyOf == [r \in ApiRequests |-> k1]
MCSubjects == {a1, a2, other}
MCChanges == {-1, 1}
=============================================================================

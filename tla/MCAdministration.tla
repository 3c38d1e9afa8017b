-------------------------- MODULE MCAdministration --------------------------
(* An instance of Administration: two processes; two administrators; a     *)
(* plan and a setting.                                                     *)
EXTENDS Administration, TLC

CONSTANTS u1, u2, p1, p2, r1, r2, plan, cost

MCStatus == [u \in Users |-> <<u, "status">>]
MCRole == [u \in Users |-> <<u, "role">>]
MCMasterCells == {<<w, "value">> : w \in {plan, cost}}
MCCells == MCMasterCells \cup {MCStatus[u] : u \in Users} \cup {MCRole[u] : u \in Users}
MCRowOf == [c \in MCCells |-> c[1]]
MCDefault == [c \in MCCells |->
  IF c[2] = "status" THEN "ACTIVE" ELSE IF c[2] = "role" THEN "ADMIN" ELSE "OFFERED"]
MCCaller == [r \in Requests |-> IF r = r2 THEN u2 ELSE u1]

MCForms ==
  {MCStatus[u2] :> "DISABLED", MCStatus[u2] :> "ACTIVE", MCRole[u2] :> "USER",
   MCStatus[u1] :> "DISABLED", <<plan, "value">> :> "WITHDRAWN"}
=============================================================================

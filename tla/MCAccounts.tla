----------------------------- MODULE MCAccounts -----------------------------
(* Instances of Accounts for TLC.  One user with two requests, one user   *)
(* without, and two administrators.                                        *)
EXTENDS Accounts, TLC

CONSTANTS u1, u2, u3, r1, r2, r3, bonus

MCSubjects == {bonus}
MCChanges == {-2, 0, 1}

(* A purchase and a charge: enough to lose one of them. *)
LossChanges == {-1, 2}

(* r1 and r2 are requests of u1, in r2 as an administrator who adjusts     *)
(* points, also their own; r3 is another administrator, u2 only a target.  *)
MCCaller == (r1 :> u1) @@ (r2 :> u1) @@ (r3 :> u3)
MCTargets == (r1 :> {u1}) @@ (r2 :> {u1, u2}) @@ (r3 :> {u1, u2})
=============================================================================

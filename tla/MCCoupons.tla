----------------------------- MODULE MCCoupons ------------------------------
(* Instances of Coupons: three users, one of them in two requests; one     *)
(* coupon for a single redemption and one without a limit.                 *)
EXTENDS Coupons, TLC

CONSTANTS u1, u2, u3, r1, r2, r3, r4, single, open

MCCaller == (r1 :> u1) @@ (r2 :> u1) @@ (r3 :> u2) @@ (r4 :> u3)
MCTargets == [r \in Requests |-> {MCCaller[r]}]
MCReward == (single :> 1) @@ (open :> 1)
MCLimit == (single :> 1) @@ (open :> NoLimit)
=============================================================================

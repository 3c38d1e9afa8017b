------------------------------ MODULE MCOrders ------------------------------
(* Instances of Orders: a buyer in two requests; an administrator who is   *)
(* that buyer, and another one; each of the two users has an order.        *)
EXTENDS Orders, TLC

CONSTANTS u1, u2, r1, r2, r3, r4, o1, o2

MCOrderUser == (o1 :> u1) @@ (o2 :> u2)
MCPointsGranted == (o1 :> 2) @@ (o2 :> 1)
MCChanges == {1, 2}

(* Two payments of the buyer u1, and the administrators u2 and u1: u2      *)
(* handles the order of u1, and u1 both orders.                            *)
MCCaller == (r1 :> u1) @@ (r2 :> u1) @@ (r3 :> u2) @@ (r4 :> u1)
MCTargets == [r \in Requests |-> IF r = r4 THEN Users ELSE {u1}]
=============================================================================

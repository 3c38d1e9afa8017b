------------------------------ MODULE MCLogins ------------------------------
(* Instances of Logins: one address in three requests, two days.           *)
EXTENDS Logins

CONSTANTS u1, r1, r2, r3

MCCaller == [r \in Requests |-> u1]
MCTargets == [r \in Requests |-> {u1}]
MCSubjects == {Joined} \cup Days
=============================================================================

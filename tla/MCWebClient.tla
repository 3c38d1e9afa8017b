---------------------------- MODULE MCWebClient -----------------------------
(* An instance of WebClient: two calls of one tab at a time.               *)
EXTENDS WebClient, TLC

CONSTANTS u1, r1, r2, b1

MCTabOf == [r \in Requests |-> b1]
=============================================================================

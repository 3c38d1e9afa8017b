-------------------------- MODULE MCRefreshTokens ---------------------------
(* Instances of RefreshTokens: tokens and requests are interchangeable.    *)
EXTENDS RefreshTokens, TLC

CONSTANTS u1, r1, r2, r3, t1, t2, t3, t4

MCSymmetry == Permutations(Requests) \cup Permutations(TokenIds)
=============================================================================

---------------------------- MODULE MCRateLimit -----------------------------
(* An instance of RateLimit: one key, two processes; processes are         *)
(* interchangeable.                                                        *)
EXTENDS RateLimit, TLC

CONSTANTS p1, p2, k1

MCLimit == [k \in Keys |-> 2]
MCSymmetry == Permutations(Processes)
=============================================================================

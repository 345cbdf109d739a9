---------------------------- MODULE MCTrustStore ----------------------------
(* TrustStore with three starts of the target and two runs of the            *)
(* controller, which differ in nothing but their names.                      *)
EXTENDS TrustStore, TLC

CONSTANTS t1, t2, t3, c1, c2

MCSymmetry == Permutations({t1, t2, t3}) \cup Permutations({c1, c2})
=============================================================================

--------------------------- MODULE MCFinalLineup ---------------------------
(* Two replicas: the worker w1 and an ordinary session s1 share the pool    *)
(* of p1; w2 has the one connection of p2.                                  *)
EXTENDS FinalLineup, TLC

CONSTANTS p1, p2, w1, w2, s1, c1, c2, c3

MCSymmetry == Permutations({c1, c2})

MCProcessOf == [x \in Session \cup Conn |-> IF x \in {w2, c3} THEN p2 ELSE p1]
=============================================================================

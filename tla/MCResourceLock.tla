--------------------------- MODULE MCResourceLock ---------------------------
(* Two replicas: p1 with two sessions and two connection slots, p2 with one  *)
(* of each.                                                                  *)
EXTENDS ResourceLock

CONSTANTS p1, p2, s1, s2, s3, c1, c2, c3

MCProcessOf == [x \in Session \cup Conn |-> IF x \in {s3, c3} THEN p2 ELSE p1]

=============================================================================

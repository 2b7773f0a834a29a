--------------------------- MODULE MCFixtureSync ---------------------------
(* Two syncs of one replica: s1, and s2, which is the repair job where the  *)
(* configuration says so.                                                   *)
EXTENDS FixtureSync

CONSTANTS m1, m2, s1, s2
=============================================================================

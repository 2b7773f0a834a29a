----------------------------- MODULE MCMatchData -----------------------------
(* Two refreshes of their own, one inside a fixture sync, and a reader.     *)
EXTENDS MatchData

CONSTANTS s1, s2, n1, r1
=============================================================================

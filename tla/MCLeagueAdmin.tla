----------------------------- MODULE MCLeagueAdmin -----------------------------
(* Two admins and a reader; a league that is there and one to be registered; *)
(* two seasons, of which the provider may list one, or call both current.    *)
EXTENDS LeagueAdmin, TLC

CONSTANTS l1, l2, n1, n2, y1, y2, a1, a2

MCSeed == [l \in {l1, l2} |-> IF l = l1 THEN [of |-> l1, name |-> n1] ELSE NoRow]
MCGiven(listed, current) == [listed |-> listed, current |-> current]
MCTable ==
    (l1 :> {MCGiven({y1, y2}, {y1}), MCGiven({y2}, {y2}), MCGiven({y1, y2}, {y1, y2})})
    @@ (l2 :> {MCGiven({y1, y2}, {y1, y2})})
MCMaxView == (l1 :> 1) @@ (l2 :> 0)
MCAsked == {l1, Grouped}
MCSymmetry == Permutations({a1, a2})
=============================================================================

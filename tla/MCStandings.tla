------------------------------ MODULE MCStandings ------------------------------
(* One job and two daily syncs of one replica; tables of two teams: whole, *)
(* with a team that has no name, and one the projection rejects.           *)
EXTENDS Standings

CONSTANTS t1, t2, p1, j, d1, d2, r1

MCHome == [s \in {j, d1, d2} |-> p1]
MCTable(teams, named, regular) ==
    [teams |-> teams, named |-> named, regular |-> regular]
MCAnswer ==
    {MCTable({t1, t2}, {t1, t2}, TRUE), MCTable({t1, t2}, {t2}, TRUE),
     MCTable({t1}, {t1}, FALSE)}
=============================================================================

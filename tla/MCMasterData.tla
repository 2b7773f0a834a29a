------------------------------ MODULE MCMasterData ------------------------------
(* Two syncers whose responses give the coaches of a and b in opposite     *)
(* orders; a coach who may be of both, known under two ids.                 *)
EXTENDS MasterData, TLC

CONSTANTS a, b, f1, f2, s1, s2, k1, k2, k3, k4, k5, k6, n1, n2, n3, n4, n5

MCRow(kind, key, name) == [kind |-> kind, key |-> key, name |-> name]
MCReferee == MCRow("referee", k1, n1)
MCVenue == MCRow("venue", k2, n2)
MCCoach == MCRow("coach", k3, n3)
MCOther == MCRow("coach", k4, n4)
MCRenumbered == MCRow("coach", k5, n3)
MCPlayer == MCRow("player", k6, n5)
MCRecord == {MCReferee, MCVenue, MCCoach, MCOther, MCRenumbered, MCPlayer}
MCStep(what, of) == [do |-> what, of |-> of]
MCResponse ==
    (s1 :> <<
        <<MCStep("referee", MCReferee), MCStep("coach", a), MCStep("coach", b),
          MCStep("match", f1)>>,
        <<MCStep("venue", MCVenue), MCStep("match", f2), MCStep("context", a),
          MCStep("player", MCPlayer)>> >>) @@
    (s2 :> <<
        <<MCStep("referee", MCReferee), MCStep("venue", MCVenue),
          MCStep("coach", b), MCStep("coach", a), MCStep("match", f1),
          MCStep("player", MCPlayer)>> >>)
MCGives == (a :> {MCCoach, MCOther}) @@ (b :> {MCRenumbered})
=============================================================================

------------------------------ MODULE MCProjection ------------------------------
(* Projection with two syncers and two entries, and with boards of odds that *)
(* reach every branch of the conversion.                                     *)
EXTENDS Projection, TLC

Lines(market, line, one, two) ==
    {[market |-> market, line |-> line, side |-> FirstSide(market), odd |-> one],
     [market |-> market, line |-> line, side |-> SecondSide(market), odd |-> two]}
Outcome(side, odd) == [market |-> Winner, line |-> 0, side |-> side, odd |-> odd]
Outcomes(home, away) == {Outcome("home", home), Outcome("draw", 320), Outcome("away", away)}

\* Two lines to choose from; a favourite at home; corners beside the rest.
AtHome == Outcomes(180, 410) \cup Lines(Handicap, -125, 202, 188)
            \cup Lines(Handicap, -75, 150, 255) \cup Lines(Goals, 225, 183, 199)
            \cup Lines(Corners, 950, 200, 190)
\* A favourite away whose odds on the line are the longer ones; an odd line.
Away == Outcomes(410, 180) \cup Lines(Handicap, 75, 166, 221)
          \cup {[market |-> Handicap, line |-> 25, side |-> "home", odd |-> 200]}
\* A tie between two lines, no favourite named, equal odds.
Tied == Lines(Handicap, -25, 190, 200) \cup Lines(Handicap, 25, 200, 190)
          \cup Lines(Goals, 250, 190, 190)
Level == Outcomes(180, 410) \cup Lines(Handicap, 0, 187, 195)
\* Below the ladder; at and above its top; a handicap that is not a number of quarters.
Below == Outcomes(180, 410) \cup Lines(Handicap, -25, 290, 170)
Top == Outcomes(110, 990) \cup Lines(Handicap, -2500, 150, 265) \cup Lines(Goals, 2500, 195, 200)
Third == Lines(Handicap, -30, 190, 200)
OnlyCorners == Lines(Corners, 950, 200, 190)
Void == Outcomes(0, 410)

MCBoard == {AtHome, Away, Tied, Level, Below, Top, Third, OnlyCorners, Void, {}}
MCSymmetry == Permutations(Syncer) \cup Permutations(Entry)
=============================================================================

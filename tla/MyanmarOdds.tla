------------------------------ MODULE MyanmarOdds ------------------------------
(***************************************************************************)
(* The conversion of a pair of decimal odds on a line into Myanmar odds    *)
(* (myanmar_odds/): a label on a ladder of goals, such as 1+80 or 2=.      *)
(* Odds and handicaps are numbers of hundredths: 190 is 1.90, 25 is 0.25.  *)
(* A difference of two odds of two decimals is a whole number of           *)
(* hundredths, which the round of calculate_diff restores.                 *)
(***************************************************************************)
EXTENDS Integers

MinIndex == 10
MaxIndex == 25 * 200 + 100
MaxHandicap == 2500

\* A label: "<goal><sign><offset>", the goal left out when it is 0.
Label == [goal: 0..25, sign: {"-", "+", "="}, offset: Nat]
Draw == [goal |-> 0, sign |-> "D", offset |-> 0]
OutOfRange == [goal |-> 0, sign |-> "out", offset |-> 0]

Gap(a, b) == IF a < b THEN b - a ELSE a - b

\* get_base_index raises ValueError for any other handicap.
Supported(handicap) == handicap % 25 = 0 /\ handicap <= MaxHandicap
BaseIndex(handicap) == 2 * handicap

\* round(index / 10.0) * 10: a tie goes to the even ten.
RoundTen(index) ==
    LET ten == index \div 10
        up == index % 10 > 5 \/ (index % 10 = 5 /\ ten % 2 = 1)
    IN  10 * (IF up THEN ten + 1 ELSE ten)

\* generate_ladder_map, at a multiple of ten: from 90 below a goal to 100 above.
Rung(index) ==
    LET goal == (index + 90) \div 200
    IN  [goal |-> goal, offset |-> Gap(200 * goal, index),
         sign |-> IF index > 200 * goal THEN "-" ELSE IF index = 200 * goal THEN "=" ELSE "+"]

LadderLabel(index) ==
    IF index \in MinIndex..MaxIndex THEN Rung(RoundTen(index)) ELSE OutOfRange

\* other_side_label: what the other side of the line is labelled.
OtherSide(label) ==
    [label EXCEPT !.sign = CASE @ = "+" -> "-" [] @ = "-" -> "+" [] OTHER -> @]

\* Who is the favourite: the team the caller names, else the lower odds.
MarketSide(home, away, favourite) ==
    IF favourite \in {"HOME", "AWAY"} THEN favourite
    ELSE IF home = away THEN "DRAW" ELSE IF home < away THEN "HOME" ELSE "AWAY"

\* The odds of the favourite, of the away team when there is none, move the
\* index up when they are the lower ones and down when they are not.
MarketIndex(home, away, handicap, side) ==
    LET supported == IF side = "HOME" THEN home < away ELSE away < home
    IN  BaseIndex(handicap) + IF supported THEN Gap(home, away) ELSE -Gap(home, away)

\* convert_to_myanmar_odds, for a supported handicap or none.
MarketLabel(home, away, handicap, side) ==
    IF handicap # 0 THEN LadderLabel(MarketIndex(home, away, handicap, side))
    ELSE IF home = away THEN Draw
    ELSE [goal |-> 0, offset |-> Gap(home, away), sign |-> IF side = "HOME" THEN "-" ELSE "+"]
=============================================================================

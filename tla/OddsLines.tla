------------------------------- MODULE OddsLines -------------------------------
(***************************************************************************)
(* What is kept of a bookmaker's board (odds_service.py): of each of four  *)
(* markets the line whose two odds are nearest to 2.00, with both sides    *)
(* labelled by MyanmarOdds.  A board is a set of quotes; a line is the key *)
(* two quotes are paired by: the handicap with the sign it is written      *)
(* with, or the total, in hundredths.                                      *)
(***************************************************************************)
EXTENDS MyanmarOdds

Market == {1, 4, 5, 45}     \* other markets of the board are passed over
Winner == 1
Handicap == 4
Goals == 5
Corners == 45
Side == [market \in Market |->
           CASE market = Winner -> {"home", "draw", "away"}
             [] market = Handicap -> {"home", "away"}
             [] OTHER -> {"over", "under"}]
FirstSide(market) == IF market = Handicap THEN "home" ELSE "over"
SecondSide(market) == IF market = Handicap THEN "away" ELSE "under"

NoLabel == [goal |-> 0, sign |-> "none", offset |-> 0]

\* What the parsing of an answer leaves: a quote is of a side of its market,
\* and of two for one side of a line the dictionaries keep the last.
Parsed(board) ==
    /\ \A quote \in board : quote.market \in Market =>
          /\ quote.side \in Side[quote.market] /\ quote.line \in Int /\ quote.odd \in Int
          /\ quote.market = Winner => quote.line = 0
    /\ \A p, q \in board :
          p.market = q.market /\ p.line = q.line /\ p.side = q.side => p = q

OddAt(board, market, line, side) ==
    (CHOOSE quote \in board :
        quote.market = market /\ quote.line = line /\ quote.side = side).odd

Quotes(board, market) == {quote \in board : quote.market = market}

\* The lines that have every side.
WholeLines(board, market) ==
    {line \in {quote.line : quote \in Quotes(board, market)} :
        Side[market] \subseteq {quote.side : quote \in {q \in Quotes(board, market) : q.line = line}}}

\* The distance of a line from even odds, in both sides.
Distance(board, market, line) ==
    Gap(OddAt(board, market, line, FirstSide(market)), 200)
      + Gap(OddAt(board, market, line, SecondSide(market)), 200)

\* The lines that may be selected: those nearest to even odds; which of several
\* depends on their order and on the rounding of the floats compared.
MainLines(board, market) ==
    LET whole == WholeLines(board, market) IN
    IF market = Winner THEN whole
    ELSE {line \in whole : \A other \in whole :
              Distance(board, market, line) <= Distance(board, market, other)}

\* The favourite of the match winner market; equal odds make it the away team.
Favourite(board) ==
    LET side == {quote.side : quote \in Quotes(board, Winner)}
        odd(s) == (CHOOSE q \in Quotes(board, Winner) : q.side = s).odd
    IN  IF {"home", "away"} \subseteq side
        THEN IF odd("home") < odd("away") THEN "HOME" ELSE "AWAY"
        ELSE "none"

Labelled == {Handicap, Goals}
Size(line) == IF line < 0 THEN -line ELSE line

\* The first side of a line a label cannot be found for makes the sync fail.
Raises(main) ==
    \E market \in Labelled \cap DOMAIN main : ~Supported(Size(main[market]))

\* (Variant: the label goes to the first side whoever the favourite is.)
LabelsFirst(board, market, line) ==
    LET home == OddAt(board, market, line, FirstSide(market))
        away == OddAt(board, market, line, SecondSide(market))
        side == MarketSide(home, away, IF market = Goals THEN "none" ELSE Favourite(board))
        label == MarketLabel(home, away, Size(line), side)
    IN  <<label, OtherSide(label)>>

\* The labels of both sides: the favourite's is the one of the market, goals
\* have theirs on the over; without a favourite both sides have the same.
Labels(board, market, line) ==
    LET home == OddAt(board, market, line, FirstSide(market))
        away == OddAt(board, market, line, SecondSide(market))
        side == MarketSide(home, away, IF market = Goals THEN "none" ELSE Favourite(board))
        label == MarketLabel(home, away, Size(line), side)
    IN  CASE market = Goals \/ side = "HOME" -> <<label, OtherSide(label)>>
          [] market # Goals /\ side = "AWAY" -> <<OtherSide(label), label>>
          [] OTHER -> <<label, label>>

LabelOf(board, market, line, side) ==
    IF market \notin Labelled THEN NoLabel
    ELSE Labels(board, market, line)[IF side = FirstSide(market) THEN 1 ELSE 2]

\* _filter_main_lines: the records kept, for a choice of the main lines.
Kept(board, main) ==
    {[market |-> q.market, line |-> q.line, side |-> q.side, odd |-> q.odd,
      label |-> LabelOf(board, q.market, q.line, q.side)] :
        q \in {quote \in board : quote.market \in DOMAIN main /\ main[quote.market] = quote.line}}

\* The choices of main lines: one for each market that has a whole line.
Mains(board) ==
    LET markets == {market \in Market : WholeLines(board, market) # {}}
    IN  {main \in [markets -> UNION {MainLines(board, market) : market \in markets}] :
            \A market \in markets : main[market] \in MainLines(board, market)}
=============================================================================

---------------------------- MODULE MCPositions ----------------------------
(***************************************************************************)
(* Positions for TLC: one decimal place instead of eight and 11-bit        *)
(* integers instead of 64-bit ones.  As in the code, MaxInt is nine to ten *)
(* times MaxAmount, the product of two amounts can exceed it once          *)
(* rescaled, and 10^MaxPower is the largest power an unsigned one holds.   *)
(***************************************************************************)
EXTENDS Positions

\* The same amounts written in several ways, amounts around both bounds, more
\* places than the scale has, exponents that make up for it, and digits and
\* powers around the limits of mulPow10 and of an unsigned integer.
MCTexts ==
    {Malformed, Text(TRUE, 5, 0, 0)}
    \cup {Text(FALSE, 7, 1, 0), Text(FALSE, 70, 2, 0), Text(FALSE, 7, 2, 1),
          Text(FALSE, 25, 1, 0), Text(FALSE, 250, 0, -2)}
    \cup {Text(FALSE, 11, 0, 0), Text(FALSE, 11, 1, 1), Text(FALSE, 111, 1, 0)}
    \cup {Text(FALSE, 25, 2, 0), Text(FALSE, 1, 0, -2), Text(FALSE, 1, 0, 2)}
    \cup {Text(FALSE, d, 0, e) : d \in {0, 3, 2047}, e \in {-4, 3, 4}}
    \cup {Text(FALSE, 206, 0, 0), Text(FALSE, 5000, 3, 0), Text(FALSE, 1, 0, 5)}

\* A text that is in order, to pair the others with.
MCPlain == {Text(FALSE, 7, 1, 0)}

MCRequests == (MCTexts \X MCPlain) \cup (MCPlain \X MCTexts)

MCAmounts == {1, 7, 25, 110}
MCCalls == (MCAmounts \X MCAmounts) \cup {<<0, 7>>, <<7, -1>>, <<111, 7>>, <<7, 111>>}

\* No trade yet; positions that trades of MaxAmount have brought near both
\* ends of the range; profit near the end of the range.
MCOpenings ==
    {[position |-> 0, averageCost |-> 0, realizedPnL |-> 0],
     [position |-> 990, averageCost |-> 7, realizedPnL |-> 0],
     [position |-> -1024, averageCost |-> 7, realizedPnL |-> -30],
     [position |-> 25, averageCost |-> 1, realizedPnL |-> 1000]}
=============================================================================

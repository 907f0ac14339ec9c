---------------------------- MODULE MCBoardReferee ----------------------------
\* Small boards for BoardReferee: a few squares in a row, on which white's pieces
\* go up and black's go down, so that every game ends.
EXTENDS BoardReferee

Line(n, white, black) ==
    [s \in 1..n |-> IF s \in white THEN "w" ELSE IF s \in black THEN "b" ELSE "none"]

Up(n) == {<<i, i + 1>>: i \in 1..(n - 1)}
Down(n) == {<<i + 1, i>>: i \in 1..(n - 1)}

\* one piece each, one square at a time
StepsSquares == 1..4
StepsSetup == Line(4, {1}, {4})
StepsReach == [s \in Sides |-> IF s = "w" THEN Up(4) ELSE Down(4)]

NoCastles == [s \in Sides |-> {}]

\* white's king on 1 castles over the square between it and its rook on 4
CastleSquares == 1..5
CastleSetup == Line(5, {1, 4}, {5})
CastleReach ==
    [s \in Sides |-> IF s = "w" THEN {<<1, 2>>, <<4, 5>>} ELSE {<<5, 3>>, <<5, 4>>}]
CastleCastles ==
    [s \in Sides |-> IF s = "w" THEN {[king |-> <<1, 3>>, rook |-> <<4, 2>>]} ELSE {}]
=============================================================================

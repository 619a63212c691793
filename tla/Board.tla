------------------------------- MODULE Board -------------------------------
(***************************************************************************)
(* The 3x3 board of TicTacToeCoordinator and the pure functions over it:   *)
(* check_winner, get_default_move and the fallback search of play_game.    *)
(* A board is a function from <<row, col>> to "X", "O" or None.            *)
(***************************************************************************)
EXTENDS Naturals, FiniteSets, SequencesExt

NoMark == "none"             \* Python None in a board cell
Marks  == {"X", "O"}
Cells  == (0..2) \X (0..2)
Boards == [Cells -> Marks \cup {NoMark}]

EmptyBoard == [c \in Cells |-> NoMark]

Row(i) == << <<i, 0>>, <<i, 1>>, <<i, 2>> >>
Col(j) == << <<0, j>>, <<1, j>>, <<2, j>> >>
(* The lines in the order check_winner tests them. *)
WinLines == << Row(0), Row(1), Row(2), Col(0), Col(1), Col(2),
               << <<0, 0>>, <<1, 1>>, <<2, 2>> >>,
               << <<0, 2>>, <<1, 1>>, <<2, 0>> >> >>

Complete(b, l) == b[l[1]] # NoMark /\ b[l[1]] = b[l[2]] /\ b[l[2]] = b[l[3]]

(* A faulty variant: the draw test comes before the line tests. *)
check_winner_drawFirst(b) ==
    LET i == SelectInSeq(WinLines, LAMBDA l : Complete(b, l)) IN
    IF \A c \in Cells : b[c] # NoMark THEN "Draw"
    ELSE IF i > 0 THEN b[WinLines[i][1]] ELSE NoMark

(* The mark of the first complete line, "Draw" on a full board, else None. *)
check_winner(b) ==
    LET i == SelectInSeq(WinLines, LAMBDA l : Complete(b, l)) IN
    IF i > 0 THEN b[WinLines[i][1]]
    ELSE IF \A c \in Cells : b[c] # NoMark THEN "Draw" ELSE NoMark

EmptyCells(b) == {c \in Cells : b[c] = NoMark}

Center  == {<<1, 1>>}
Corners == {<<0, 0>>, <<0, 2>>, <<2, 0>>, <<2, 2>>}
Edges   == {<<0, 1>>, <<1, 0>>, <<1, 2>>, <<2, 1>>}

(* A faulty variant: corners are preferred to the center. *)
get_default_move_cornersFirst(b) ==
    LET empty  == EmptyCells(b)
        groups == << Corners \cap empty, Center \cap empty, Edges \cap empty,
                     empty >>
    IN  IF empty = {} THEN {<<0, 0>>}
        ELSE groups[SelectInSeq(groups, LAMBDA g : g # {})]

(* The moves get_default_move may return: random.choice over the first    *)
(* non-empty group of center, corners, edges; (0, 0) on a full board.     *)
get_default_move(b) ==
    LET empty  == EmptyCells(b)
        groups == << Center \cap empty, Corners \cap empty, Edges \cap empty,
                     empty >>
    IN  IF empty = {} THEN {<<0, 0>>}
        ELSE groups[SelectInSeq(groups, LAMBDA g : g # {})]

(* The moves an agent may suggest.  Both agents search the reply for      *)
(* r'\\{.*\\}', a pattern that needs literal backslashes, and json.loads  *)
(* rejects whatever it matches, so every path ends in get_default_move.   *)
(* Module Suggestion models those steps; MCBoard checks this.       *)
SuggestedMoves(b) == get_default_move(b)

RowMajor == << <<0, 0>>, <<0, 1>>, <<0, 2>>, <<1, 0>>, <<1, 1>>, <<1, 2>>,
               <<2, 0>>, <<2, 1>>, <<2, 2>> >>

(* A faulty variant: the row-major search forgets the emptiness test. *)
FallbackMove_anyCell(b, c, d) ==
    IF d # c THEN d
    ELSE LET i == SelectInSeq(RowMajor, LAMBDA e : e # c)
         IN  IF i > 0 THEN RowMajor[i] ELSE d

(* The fallback after a rejected move c: the default move d, or, when d   *)
(* is c, the first empty cell other than c in row-major order if any.     *)
FallbackMove(b, c, d) ==
    IF d # c THEN d
    ELSE LET i == SelectInSeq(RowMajor, LAMBDA e : b[e] = NoMark /\ e # c)
         IN  IF i > 0 THEN RowMajor[i] ELSE d

Other(p) == IF p = "X" THEN "O" ELSE "X"

Count(b, p) == Cardinality({c \in Cells : b[c] = p})

=============================================================================

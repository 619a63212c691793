------------------------------- MODULE MCBoard -------------------------------
(***************************************************************************)
(* The pure functions of module Board against reference definitions       *)
(* written from the specification (spec.md sections 5 and 8), over every   *)
(* assignment of X, O and None to the nine cells, reachable in play or     *)
(* not.  The board is a variable that never changes, so that the checks    *)
(* are invariants over the 3^9 initial states.  The agents' reply parsing *)
(* (module Suggestion) is checked on two of the boards against every       *)
(* reply text of up to MaxTokens tokens and a failed request.              *)
(***************************************************************************)
EXTENDS Suggestion

VARIABLE b

Init == b \in Boards
Next == UNCHANGED b
Spec == Init /\ [][Next]_b

(* Reference: the marks that fill some row, column or diagonal. *)
LineOwners(brd) == {brd[l[1]] : l \in {l \in ToSet(WinLines) : Complete(brd, l)}}

(* Reference priority of the deterministic picker: center, corner, edge. *)
Priority(c) == IF c \in Center THEN 0 ELSE IF c \in Corners THEN 1 ELSE 2

(* check_winner (lines 464-491) returns the mark of a complete line when   *)
(* there is one, "Draw" exactly when the board is full with no such line, *)
(* and None otherwise, whichever order it tests the lines in.             *)
WinnerMatchesReference ==
    IF LineOwners(b) # {} THEN check_winner(b) \in LineOwners(b)
    ELSE check_winner(b) = IF EmptyCells(b) = {} THEN "Draw" ELSE NoMark

(* Every move get_default_move (lines 400-434) may return is an empty     *)
(* cell of the best priority among the empty cells, and each such cell    *)
(* may be returned.                                                       *)
DefaultMoveIsBestEmptyCell ==
    EmptyCells(b) # {} =>
        get_default_move(b) =
            {c \in EmptyCells(b) : \A e \in EmptyCells(b) : Priority(c) <= Priority(e)}

(* The fallback of play_game (lines 628-641) after a rejected move c is    *)
(* an empty cell other than c whenever the board has one.                  *)
FallbackAvoidsRejectedCell ==
    \A c \in EmptyCells(b), d \in get_default_move(b) :
        EmptyCells(b) \ {c} # {} => FallbackMove(b, c, d) \in EmptyCells(b) \ {c}

(* The shortest text the agents' pattern can match is 4 tokens: a        *)
(* backslash, "{", a backslash, "}"; 5 fits an object body between them.  *)
MaxTokens == 5
Replies   == {Reply(FALSE, <<>>)} \cup {Reply(TRUE, s) : s \in SeqOf(Tokens, MaxTokens)}
(* The empty board, and one whose (0, 0) is taken, so that a suggested     *)
(* cell may be free or occupied.                                           *)
SuggestionBoards == {EmptyBoard, [EmptyBoard EXCEPT ![<<0, 0>>] = "X"]}

(* Board!SuggestedMoves, which the game models use for the agents' moves,  *)
(* is get_default_move: whatever an agent replies, get_move_from_agent1/2  *)
(* (lines 267-363) end in get_default_move, because their pattern and      *)
(* json.loads never yield a move.  This holds for the code as written and  *)
(* is a finding: the JSON move the prompt asks for is never used.          *)
SuggestionIsDefault ==
    b \in SuggestionBoards =>
        \A r \in Replies : get_move_from_agent(b, r) = get_default_move(b)

=============================================================================

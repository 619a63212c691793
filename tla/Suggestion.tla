----------------------------- MODULE Suggestion -----------------------------
(***************************************************************************)
(* How get_move_from_agent1 and get_move_from_agent2 turn an agent's HTTP  *)
(* reply into a move.  Both run the same steps on the reply text: search   *)
(* it with re.search(r'\\{.*\\}', content), json.loads the match, read     *)
(* "row" and "col", test is_valid_move_candidate, and fall back to         *)
(* get_default_move on every failure, exceptions included.                 *)
(*                                                                         *)
(* The reply text is a sequence of tokens, each standing for a piece of    *)
(* text that the regex and the parser treat alike: a backslash, a brace,   *)
(* a newline, other text, or the inside of a JSON object with given keys.  *)
(***************************************************************************)
EXTENDS Board

NoInt == -1          \* Python None for row or col

(* "m00" is "row": 0, "col": 0; "m30" is "row": 3, "col": 0; "mrow" has   *)
(* only "row": 1.                                                          *)
Bodies   == {"m00", "m30", "mrow"}
Tokens   == {"bs", "lb", "rb", "nl", "txt"} \cup Bodies
RowOf    == [m00 |-> 0, m30 |-> 3, mrow |-> 1]
ColOf    == [m00 |-> 0, m30 |-> 0, mrow |-> NoInt]

(* The replies: requests.post raised (timeout, refused connection) or the  *)
(* status was not 200, or the text of a 200 reply.                         *)
Reply(ok, content) == [ok |-> ok, content |-> content]

(* Where r'\\{.*\\}' matches s: a backslash and "{", then any characters   *)
(* except a newline, then a backslash and "}".                             *)
Spans(s, open, close) ==
    {ij \in (1..Len(s)) \X (1..Len(s)) :
        LET i == ij[1]  j == ij[2] IN
        /\ j >= i + Len(open)
        /\ j + Len(close) - 1 <= Len(s)
        /\ SubSeq(s, i, i + Len(open) - 1) = open
        /\ SubSeq(s, j, j + Len(close) - 1) = close
        /\ \A k \in i..j + Len(close) - 1 : s[k] # "nl"}

(* re.search: the leftmost start, and from it the longest match (.* is    *)
(* greedy).  <<>> when nothing matches.                                   *)
Search(s, open, close) ==
    LET S == Spans(s, open, close) IN
    IF S = {} THEN <<>>
    ELSE LET i == Min({ij[1] : ij \in S})
             j == Max({ij[2] : ij \in {x \in S : x[1] = i}})
         IN  SubSeq(s, i, j + Len(close) - 1)

(* A faulty variant: the pattern written without the doubled backslashes, *)
(* r'\{.*\}', which matches a brace-delimited object.                     *)
json_match_unescaped(s) == Search(s, <<"lb">>, <<"rb">>)

json_match(s) == Search(s, <<"bs", "lb">>, <<"bs", "rb">>)

(* json.loads of the matched text: "{" body "}" gives an object with the  *)
(* body's keys, "{}" an empty object; anything else raises.               *)
json_loads(m) ==
    IF Len(m) = 3 /\ m[1] = "lb" /\ m[2] \in Bodies /\ m[3] = "rb" THEN m[2]
    ELSE IF m = <<"lb", "rb">> THEN "empty"
    ELSE "error"

(* row = int(move.get("row")) if "row" in move else None, and so for col. *)
MoveRow(move) == IF move \in Bodies THEN RowOf[move] ELSE NoInt
MoveCol(move) == IF move \in Bodies THEN ColOf[move] ELSE NoInt

(* Both given, both within 0..2, and the cell empty. *)
is_valid_move_candidate(b, row, col) ==
    /\ row # NoInt /\ col # NoInt
    /\ row \in 0..2 /\ col \in 0..2
    /\ b[<<row, col>>] = NoMark

(* The moves get_move_from_agent1/2 may return for a reply on board b. *)
get_move_from_agent(b, reply) ==
    LET m    == json_match(reply.content)
        move == json_loads(m)
        row  == MoveRow(move)
        col  == MoveCol(move)
    IN  IF /\ reply.ok /\ m # <<>> /\ move # "error"
           /\ is_valid_move_candidate(b, row, col)
        THEN {<<row, col>>}
        ELSE get_default_move(b)

=============================================================================

--------------------------- MODULE GameCoordinator ---------------------------
(***************************************************************************)
(* The game side of TicTacToeCoordinator: start_game, get_game_state and   *)
(* the play_game loop with the execute_move policy and one fallback move   *)
(* per rejected ply.  Each RPC is abstract: the request is written (or the *)
(* write fails), and later the call yields any response the engine could  *)
(* have printed, or a TimeoutError.  The reply is not tied to the request: *)
(* module Coordinator, which drives the real pipes, implements this spec.  *)
(* Everything before play_game (readiness wait, pubkey query) is the one   *)
(* pc "init", which ends by fixing require_onchain or by raising.          *)
(***************************************************************************)
EXTENDS Board, Responses

max_moves                == 9
max_consecutive_failures == 3

VARIABLES
    pc,                    \* where the coordinator's thread is
    require_onchain,       \* on-chain enforcement policy
    episode_id,            \* result of kdapp_start_episode ("none" before)
    board,                 \* game_board
    current_player,
    move_count,
    consecutive_failures,
    move,                  \* the <<row, col>> being submitted
    reply,                 \* "idle", "pending", or the outcome of the call
    error                  \* the exception that ended the run, if any

vars == <<pc, require_onchain, episode_id, board, current_player, move_count,
          consecutive_failures, move, reply, error>>

Terminal == {"done", "raised"}
Outcomes == Results \cup {NoResult, "timeout"}
Returned == reply \in Results \cup {NoResult}
Raised   == reply \in {"timeout", "pipe"}

(* row and col are dead once a ply is over; the model forgets them. *)
NoMove == <<0, 0>>

(* send_mcp_request writes a request, or fails on a dead process. *)
Call == reply' \in {"pending", "pipe"}

(* The verdict of execute_move on the response it read. *)
execute_move(r) ==
    /\ r # NoResult
    /\ (r = "null" => ~require_onchain)
    /\ (require_onchain => extract_tx_hash(r))

(* Faulty variants of definitions below, each a plausible slip in the     *)
(* code, that the properties of the runs must tell from the real ones.    *)
update_board_keepsPlayer(c) ==
    /\ board' = [board EXCEPT ![c] = current_player]
    /\ UNCHANGED current_player
    /\ move_count' = move_count + 1
    /\ consecutive_failures' = 0

(* An accepted move: update_board, switch players, count, reset failures. *)
update_board(c) ==
    /\ board' = [board EXCEPT ![c] = current_player]
    /\ current_player' = Other(current_player)
    /\ move_count' = move_count + 1
    /\ consecutive_failures' = 0

gameVars == <<board, current_player, move_count, consecutive_failures>>

Init ==
    /\ pc = "init"
    /\ require_onchain = FALSE
    /\ episode_id = "none"
    /\ board = EmptyBoard
    /\ current_player = "X"
    /\ move_count = 0
    /\ consecutive_failures = 0
    /\ move = NoMove
    /\ reply = "idle"
    /\ error = "none"

(* __init__ ends: require_onchain = not offline_mode_detected. *)
Configure ==
    /\ pc = "init"
    /\ require_onchain' \in BOOLEAN
    /\ pc' = "startGame"
    /\ UNCHANGED <<episode_id, gameVars, move, reply, error>>

(* __init__ raises RuntimeError: the server never looked ready. *)
StartupFails ==
    /\ pc = "init"
    /\ pc' = "raised"
    /\ error' = "StartupTimeout"
    /\ UNCHANGED <<require_onchain, episode_id, gameVars, move, reply>>

(* The engine's answer arrives, or the call's deadline passes. *)
Respond ==
    /\ reply = "pending"
    /\ reply' \in Outcomes
    /\ UNCHANGED <<pc, require_onchain, episode_id, gameVars, move, error>>

(* start_game: has_onchain_capability is always True, so it always sends. *)
start_game ==
    /\ pc = "startGame"
    /\ reply = "idle"
    /\ Call
    /\ UNCHANGED <<pc, require_onchain, episode_id, gameVars, move, error>>

StartGameDone ==
    /\ pc = "startGame"
    /\ Returned
    /\ \/ /\ reply # NoResult
          /\ episode_id' = reply
          /\ pc' = "getState"
          /\ Call
       \/ /\ reply = NoResult
          /\ pc' = "done"
          /\ reply' = "idle"
          /\ UNCHANGED episode_id
    /\ UNCHANGED <<require_onchain, gameVars, move, error>>

GetStateDone ==
    /\ pc = "getState"
    /\ Returned
    /\ pc' = "loop"
    /\ reply' = "idle"
    /\ UNCHANGED <<require_onchain, episode_id, gameVars, move, error>>

PlayTurn ==
    /\ pc = "loop"
    /\ move_count < max_moves
    /\ consecutive_failures < max_consecutive_failures
    /\ check_winner(board) = NoMark
    /\ \E c \in SuggestedMoves(board) : move' = c
    /\ pc' = "move1"
    /\ Call
    /\ UNCHANGED <<require_onchain, episode_id, gameVars, error>>

GameOver_offByOne ==
    /\ pc = "loop"
    /\ \/ move_count >= max_moves - 1
       \/ consecutive_failures >= max_consecutive_failures
       \/ check_winner(board) # NoMark
    /\ pc' = "done"
    /\ UNCHANGED <<require_onchain, episode_id, gameVars, move, reply, error>>

GameOver ==
    /\ pc = "loop"
    /\ \/ move_count >= max_moves
       \/ consecutive_failures >= max_consecutive_failures
       \/ check_winner(board) # NoMark
    /\ pc' = "done"
    /\ UNCHANGED <<require_onchain, episode_id, gameVars, move, reply, error>>

MoveDone_noCount ==
    /\ pc = "move1"
    /\ Returned
    /\ \/ /\ execute_move(reply)
          /\ update_board(move)
          /\ pc' = "loop"
          /\ move' = NoMove
          /\ reply' = "idle"
       \/ /\ ~execute_move(reply)
          /\ \E d \in get_default_move(board) :
                move' = FallbackMove(board, move, d)
          /\ pc' = "move2"
          /\ Call
          /\ UNCHANGED gameVars
    /\ UNCHANGED <<require_onchain, episode_id, error>>

MoveDone ==
    /\ pc = "move1"
    /\ Returned
    /\ \/ /\ execute_move(reply)
          /\ update_board(move)
          /\ pc' = "loop"
          /\ move' = NoMove
          /\ reply' = "idle"
       \/ /\ ~execute_move(reply)
          /\ consecutive_failures' = consecutive_failures + 1
          /\ \E d \in get_default_move(board) :
                move' = FallbackMove(board, move, d)
          /\ pc' = "move2"
          /\ Call
          /\ UNCHANGED <<board, current_player, move_count>>
    /\ UNCHANGED <<require_onchain, episode_id, error>>

FallbackDone_countsTwice ==
    /\ pc = "move2"
    /\ Returned
    /\ \/ /\ execute_move(reply)
          /\ update_board(move)
       \/ /\ ~execute_move(reply)
          /\ consecutive_failures' = consecutive_failures + 1
          /\ UNCHANGED <<board, current_player, move_count>>
    /\ pc' = "loop"
    /\ move' = NoMove
    /\ reply' = "idle"
    /\ UNCHANGED <<require_onchain, episode_id, error>>

FallbackDone ==
    /\ pc = "move2"
    /\ Returned
    /\ \/ /\ execute_move(reply)
          /\ update_board(move)
       \/ /\ ~execute_move(reply)
          /\ UNCHANGED gameVars
    /\ pc' = "loop"
    /\ move' = NoMove
    /\ reply' = "idle"
    /\ UNCHANGED <<require_onchain, episode_id, error>>

Propagate ==
    /\ pc \in {"startGame", "getState", "move1", "move2"}
    /\ Raised
    /\ pc' = "raised"
    /\ error' = reply
    /\ UNCHANGED <<require_onchain, episode_id, gameVars, move, reply>>

Finished ==
    /\ pc \in Terminal
    /\ UNCHANGED vars

CoordinatorStep ==
    \/ Configure \/ StartupFails \/ start_game \/ StartGameDone
    \/ GetStateDone \/ PlayTurn \/ GameOver \/ MoveDone \/ FallbackDone
    \/ Propagate

Next == CoordinatorStep \/ Respond \/ Finished

Spec == Init /\ [][Next]_vars

(* The thread runs whenever it can; every call ends (Coordinator's run    *)
(* checks CallsComplete for the real channel).                             *)
FairSpec == Spec /\ WF_vars(CoordinatorStep) /\ WF_vars(Respond)

-----------------------------------------------------------------------------
(* Properties *)

TypeOK ==
    /\ pc \in Terminal \cup
              {"init", "startGame", "getState", "loop", "move1", "move2"}
    /\ require_onchain \in BOOLEAN
    /\ episode_id \in Results \cup {"none"}
    /\ board \in Boards
    /\ current_player \in Marks
    /\ move_count \in 0..max_moves
    /\ consecutive_failures \in 0..max_consecutive_failures
    /\ move \in Cells
    /\ reply \in Outcomes \cup {"idle", "pending", "pipe"}
    /\ error \in {"none", "StartupTimeout", "timeout", "pipe"}

(* A mark, once on the board, is never replaced: neither an agent move    *)
(* nor the fallback of play_game lines 629-641 is ever an occupied cell.  *)
MarksNeverOverwritten ==
    [][\A c \in Cells : board[c] # NoMark => board'[c] = board[c]]_board

(* Sides alternate strictly: X has as many marks as O when X is to move,  *)
(* one more when O is to move, whatever mix of agent, fallback and        *)
(* rejected moves play_game went through.                                 *)
TurnOrder ==
    Count(board, "X") = Count(board, "O") + (IF current_player = "X" THEN 0 ELSE 1)

(* A started game that play_game leaves without a winner or a draw was    *)
(* abandoned on the failure ceiling, never by the move ceiling.           *)
UnfinishedGameWasAbandoned ==
    (pc = "done" /\ episode_id # "none" /\ check_winner(board) = NoMark)
        => consecutive_failures = max_consecutive_failures

(* Once play_game is in its loop the run ends, even against an engine     *)
(* that rejects every move.                                               *)
GameLoopTerminates == pc = "loop" ~> pc \in Terminal

=============================================================================

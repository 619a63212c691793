----------------------------- MODULE Coordinator -----------------------------
(***************************************************************************)
(* TicTacToeCoordinator (tictactoe_coordinator.py): the readiness wait of  *)
(* __init__, the pubkey query, start_game and get_game_state, and the      *)
(* play_game loop with its execute_move policy and one fallback move per   *)
(* rejected ply.  The coordinator is one thread; it drives the engine only *)
(* through send_mcp_request of module RpcChannel.                          *)
(***************************************************************************)
EXTENDS RpcChannel, Board

CONSTANT MaxPlies   \* bound on the plies of play_game the model explores

ASSUME MaxPlies \in Nat

max_moves                == 9
max_consecutive_failures == 3

VARIABLES
    pc,                     \* where the coordinator's single thread is
    offline_mode_detected,  \* the readiness line mentioned 'offline mode'
    require_onchain,        \* on-chain enforcement policy
    episode_id,             \* result of kdapp_start_episode ("none" before)
    board,                  \* game_board as a function of <<row, col>>
    current_player,
    move_count,
    consecutive_failures,
    move,                   \* the <<row, col>> of the move being submitted
    error,                  \* the exception that ended the run, if any
    plies                   \* plies of play_game begun (bounded by MaxPlies)

coordVars == <<pc, offline_mode_detected, require_onchain, episode_id, board,
               current_player, move_count, consecutive_failures, move, error,
               plies>>
vars == <<chanVars, coordVars>>
gameVars == <<board, current_player, move_count, consecutive_failures>>

StartupPcs == {"startCheck", "startRead", "startFailed"}
Terminal   == {"done", "raised"}

-----------------------------------------------------------------------------
(* Move policy *)

has_onchain_capability == TRUE

(* row and col are dead once a ply is over; the model forgets them. *)
NoMove == <<0, 0>>

(* The verdict of execute_move on the response line it read. *)
execute_move(line) ==
    /\ line.result # NoResult
    /\ (line.result = "null" => ~require_onchain)
    /\ (require_onchain => extract_tx_hash(line.result))

(* Faulty variants of definitions below, each a plausible slip in the     *)
(* code, that the properties of the runs must tell from the real ones.    *)
update_board_keepsPlayer(c) ==
    /\ board' = [board EXCEPT ![c] = current_player]
    /\ UNCHANGED current_player
    /\ move_count' = move_count + 1
    /\ consecutive_failures' = 0

(* An accepted move: update_board, switch players, count, reset failures. *)
update_board(c) ==
    /\ board' = [board EXCEPT ![c] = current_player]
    /\ current_player' = Other(current_player)
    /\ move_count' = move_count + 1
    /\ consecutive_failures' = 0

-----------------------------------------------------------------------------
Init ==
    /\ ChanInit
    /\ pc = "startCheck"
    /\ offline_mode_detected = FALSE
    /\ require_onchain = FALSE
    /\ episode_id = "none"
    /\ board = EmptyBoard
    /\ current_player = "X"
    /\ move_count = 0
    /\ consecutive_failures = 0
    /\ move = NoMove
    /\ error = "none"
    /\ plies = 0

(* Top of the readiness loop: give up once the 90 s window has passed.    *)
StartupCheck ==
    /\ pc = "startCheck"
    /\ pc' = IF expired THEN "startFailed" ELSE "startRead"
    /\ UNCHANGED <<chanVars, offline_mode_detected, require_onchain, episode_id,
                   gameVars, move, error, plies>>

(* One blocking readline of the startup output; the first line with a     *)
(* readiness marker ends the wait.  At end of file the loop sleeps.       *)
StartupRead ==
    /\ pc = "startRead"
    /\ \/ /\ stdout # <<>>
          /\ stdout' = Tail(stdout)
          /\ IF Head(stdout).text \in Markers
               THEN /\ offline_mode_detected' = (Head(stdout).text = "offline")
                    /\ pc' = "pubkeys"
               ELSE /\ pc' = "startCheck"
                    /\ UNCHANGED offline_mode_detected
       \/ /\ EOF
          /\ pc' = "startCheck"
          /\ UNCHANGED <<stdout, offline_mode_detected>>
    /\ UNCHANGED <<engine, script, node, stdin, logs, rpc, expired,
                   require_onchain, episode_id, gameVars, move, error, plies>>

(* Not ready: stdout.read() drains the pipe, which returns only at end of *)
(* file, then RuntimeError is raised.                                     *)
StartupFail ==
    /\ pc = "startFailed"
    /\ engine = "exited"
    /\ stdout' = <<>>
    /\ pc' = "raised"
    /\ error' = "StartupTimeout"
    /\ UNCHANGED <<engine, script, node, stdin, logs, rpc, expired,
                   offline_mode_detected, require_onchain, episode_id,
                   gameVars, move, plies>>

(* __init__, lines 69-96: query the agent pubkeys; every exception is     *)
(* caught, and the policy is set from the readiness line.                 *)
FetchPubkeys ==
    /\ pc = "pubkeys"
    /\ rpc.phase = "idle"
    /\ send_mcp_request("pubkeys")
    /\ UNCHANGED coordVars

PubkeysDone ==
    /\ pc = "pubkeys"
    /\ Returned \/ Raised
    /\ Consume
    /\ require_onchain' = ~offline_mode_detected
    /\ pc' = "startGame"
    /\ UNCHANGED <<engine, script, node, stdin, stdout, logs,
                   offline_mode_detected, episode_id, gameVars, move, error, plies>>

(* start_game, lines 497-516.  The refusal for a missing on-chain         *)
(* capability is dead code: has_onchain_capability is always True.        *)
start_game ==
    /\ pc = "startGame"
    /\ rpc.phase = "idle"
    /\ ~(require_onchain /\ ~has_onchain_capability)
    /\ send_mcp_request("start")
    /\ UNCHANGED coordVars

(* Lines 518-534: a response with a result starts the game and the        *)
(* episode state is queried at once; an error response ends play_game.    *)
StartGameDone ==
    /\ pc = "startGame"
    /\ Returned
    /\ \/ /\ Reply.result # NoResult
          /\ episode_id' = Reply.result
          /\ pc' = "getState"
          /\ send_mcp_request("state")
       \/ /\ Reply.result = NoResult
          /\ pc' = "done"
          /\ Consume
          /\ UNCHANGED <<engine, script, node, stdin, stdout, logs, episode_id>>
    /\ UNCHANGED <<offline_mode_detected, require_onchain, gameVars, move, error, plies>>

(* get_game_state, lines 205-218: the state is only logged. *)
GetStateDone ==
    /\ pc = "getState"
    /\ Returned
    /\ Consume
    /\ pc' = "loop"
    /\ UNCHANGED <<engine, script, node, stdin, stdout, logs,
                   offline_mode_detected, require_onchain, episode_id,
                   gameVars, move, error, plies>>

(* play_game, lines 588-611: while moves and failures are under their     *)
(* ceilings and check_winner finds no result, the side to move submits    *)
(* its agent's move.                                                      *)
PlayTurn ==
    /\ pc = "loop"
    /\ plies < MaxPlies
    /\ plies' = plies + 1
    /\ move_count < max_moves
    /\ consecutive_failures < max_consecutive_failures
    /\ check_winner(board) = NoMark
    /\ \E c \in SuggestedMoves(board) : move' = c
    /\ pc' = "move1"
    /\ send_mcp_request("move")
    /\ UNCHANGED <<offline_mode_detected, require_onchain, episode_id,
                   gameVars, error>>

(* The loop ends on a ceiling or a result; lines 655-665 only print.      *)
GameOver ==
    /\ pc = "loop"
    /\ \/ move_count >= max_moves
       \/ consecutive_failures >= max_consecutive_failures
       \/ check_winner(board) # NoMark
    /\ pc' = "done"
    /\ UNCHANGED <<chanVars, offline_mode_detected, require_onchain,
                   episode_id, gameVars, move, error, plies>>

(* Lines 613-641: an accepted move is played; a rejected one counts a     *)
(* failure and the fallback move is submitted at once.                    *)
MoveDone ==
    /\ pc = "move1"
    /\ Returned
    /\ \/ /\ execute_move(Reply)
          /\ update_board(move)
          /\ pc' = "loop"
          /\ Consume
          /\ move' = NoMove
          /\ UNCHANGED <<engine, script, node, stdin, stdout, logs>>
       \/ /\ ~execute_move(Reply)
          /\ consecutive_failures' = consecutive_failures + 1
          /\ \E d \in get_default_move(board) :
                move' = FallbackMove(board, move, d)
          /\ pc' = "move2"
          /\ send_mcp_request("move")
          /\ UNCHANGED <<board, current_player, move_count>>
    /\ UNCHANGED <<offline_mode_detected, require_onchain, episode_id, error, plies>>

FallbackDone_countsTwice ==
    /\ pc = "move2"
    /\ Returned
    /\ \/ /\ execute_move(Reply)
          /\ update_board(move)
       \/ /\ ~execute_move(Reply)
          /\ consecutive_failures' = consecutive_failures + 1
          /\ UNCHANGED <<board, current_player, move_count>>
    /\ pc' = "loop"
    /\ Consume
    /\ move' = NoMove
    /\ UNCHANGED <<engine, script, node, stdin, stdout, logs,
                   offline_mode_detected, require_onchain, episode_id, error, plies>>

(* Lines 643-653: the fallback is played if accepted, else the ply is     *)
(* given up with the side to move unchanged.                              *)
FallbackDone ==
    /\ pc = "move2"
    /\ Returned
    /\ \/ /\ execute_move(Reply)
          /\ update_board(move)
       \/ /\ ~execute_move(Reply)
          /\ UNCHANGED gameVars
    /\ pc' = "loop"
    /\ Consume
    /\ move' = NoMove
    /\ UNCHANGED <<engine, script, node, stdin, stdout, logs,
                   offline_mode_detected, require_onchain, episode_id, error, plies>>

(* TimeoutError and BrokenPipeError are caught nowhere outside the pubkey *)
(* query: they leave execute_move, start_game and play_game and end the   *)
(* run.                                                                   *)
Propagate ==
    /\ pc \in {"startGame", "getState", "move1", "move2"}
    /\ Raised
    /\ pc' = "raised"
    /\ error' = rpc.phase
    /\ UNCHANGED <<chanVars, offline_mode_detected, require_onchain,
                   episode_id, gameVars, move, plies>>

(* Wall-clock time passes the deadline of the current wait.  start_time  *)
(* and start are read just before the first check (lines 37-39, 553-555), *)
(* so the time that counts passes inside a readline that waits on an      *)
(* empty pipe: blocked while the engine is alive, or returning '' at end  *)
(* of file, after which the loop sleeps.                                  *)
Tick ==
    /\ rpc.phase = "read" \/ pc = "startRead"
    /\ stdout = <<>>
    /\ ~expired
    /\ expired' = TRUE
    /\ UNCHANGED <<engine, script, node, stdin, stdout, logs, rpc,
                   coordVars>>

(* The run is over and the program returns, or play_game has begun the   *)
(* MaxPlies plies the model explores.                                     *)
Finished ==
    /\ \/ pc \in Terminal
       \/ pc = "loop" /\ plies >= MaxPlies
    /\ UNCHANGED vars

CoordinatorNext ==
    \/ StartupCheck \/ StartupRead \/ StartupFail
    \/ FetchPubkeys \/ PubkeysDone \/ start_game \/ StartGameDone
    \/ GetStateDone \/ PlayTurn \/ GameOver \/ MoveDone \/ FallbackDone
    \/ Propagate
    \/ (CheckDeadline \/ ReadLine) /\ UNCHANGED coordVars

Next ==
    \/ CoordinatorNext
    \/ EngineNext /\ UNCHANGED coordVars
    \/ Tick
    \/ Finished

(* One thread runs whenever it can, and time passes: a wait that keeps    *)
(* returning to readline on an empty pipe, even across end-of-file        *)
(* sleeps, reaches its deadline (strong fairness, as Tick is off between  *)
(* readlines).  The engine is assumed to print its startup output and to  *)
(* answer every request it reads; it may still log, stall, or die.        *)
EngineFairness ==
    /\ WF_vars(EnginePrintStartup /\ UNCHANGED coordVars)
    /\ WF_vars(EngineStartupDone /\ UNCHANGED coordVars)
    /\ WF_vars(EngineRespond /\ UNCHANGED coordVars)

ClientFairSpec == Init /\ [][Next]_vars /\ WF_vars(CoordinatorNext) /\ SF_vars(Tick)

FairSpec == ClientFairSpec /\ EngineFairness

-----------------------------------------------------------------------------
(* Properties *)

TypeOK ==
    /\ engine \in {"starting", "serving", "exited"}
    /\ node \in {"connected", "offline", "none"}
    /\ stdin \in Seq([method : Methods, stale : BOOLEAN])
    /\ logs \in 0..MaxLogLines
    /\ rpc.phase \in RpcPhases
    /\ expired \in BOOLEAN
    /\ pc \in StartupPcs \cup Terminal \cup
              {"pubkeys", "startGame", "getState", "loop", "move1", "move2"}
    /\ offline_mode_detected \in BOOLEAN
    /\ require_onchain \in BOOLEAN
    /\ episode_id \in Results \cup {"none"}
    /\ board \in Boards
    /\ current_player \in Marks
    /\ move_count \in 0..max_moves
    /\ consecutive_failures \in 0..max_consecutive_failures
    /\ move \in Cells
    /\ error \in {"none", "StartupTimeout", "timeout", "pipe"}
    /\ plies \in 0..MaxPlies

(* Every send_mcp_request call ends: with a response, a TimeoutError or a *)
(* BrokenPipeError.                                                       *)
CallsComplete == Waiting ~> ~Waiting

(* The response a call returns is the engine's answer to that call's own  *)
(* request (spec 4.2: at most one request in flight).                     *)
RepliesAnswerRequests == Returned => ~Reply.stale

(* On-chain enforcement is on exactly when the engine is connected to a   *)
(* node; the comment at line 95 says it is auto-disabled in offline mode. *)
EnforcementMatchesNode ==
    pc \in {"startGame", "getState", "loop", "move1", "move2"}
        => (require_onchain <=> node = "connected")

(* Only a startup timeout ends the run: a TimeoutError of a call is a     *)
(* rejected move and a broken pipe an RpcError, both absorbed by the     *)
(* state machine (spec 7); the code lets them leave execute_move.        *)
OnlyStartupTimeoutEscalates == error \in {"none", "StartupTimeout"}

(* The readiness wait of __init__ ends: the server is found ready or      *)
(* RuntimeError reports the startup timeout (spec 4.1).                   *)
StartupEnds == <>(pc \notin StartupPcs)

-----------------------------------------------------------------------------
(* Refinement: over the real pipes, the coordinator behaves as the game   *)
(* spec with abstract calls.  Everything before play_game is its "init";  *)
(* a call in progress is "pending"; a finished call is its outcome.       *)

AbsPc == IF pc \in StartupPcs \cup {"pubkeys"} THEN "init" ELSE pc

AbsReply ==
    IF pc \in StartupPcs \cup {"pubkeys"} THEN "idle"
    ELSE CASE rpc.phase = "idle" -> "idle"
           [] Waiting            -> "pending"
           [] Returned           -> Reply.result
           [] Raised             -> rpc.phase

GC == INSTANCE GameCoordinator WITH pc <- AbsPc, reply <- AbsReply

(* Every step of the coordinator over the pipes is a step of the game     *)
(* spec: the game logic checked there holds for the real channel.         *)
GameRefinement == GC!Spec

=============================================================================

# TLA+ models of the kdapp TicTacToe coordinator

This directory holds TLA+ models of `src/examples/kdapp-mcp-server/tictactoe_coordinator.py`, of its test client `test_move.py`, of the agent key store it shares with `generate_agent_keys.py`, and of the thread lifecycle test `kaspa-auth/tests/test_simple_server.py`.
That program drives two language-model agents through a game of tic-tac-toe.
The game itself runs in an external engine, `cargo run --bin kdapp-mcp-server`, which the program reaches only
through line-delimited JSON-RPC over the engine's stdin and stdout. The program is one thread.
What is hard about it is the channel, not the 3x3 game:
- the engine starts asynchronously and interleaves build and log text with its JSON answers;
- every request carries the same id;
- the deadlines are checked only between blocking reads.

## 1. Inventory

### Parts of the system and how they interact

| Part | Code | State | Operations |
|---|---|---|---|
| ProcessSupervisor | `__init__` lines 13-66 | the child process, the merged stdout pipe, `start_time`, `ready`, `offline_mode_detected` | spawn; readiness loop (blocking `readline`, marker test, offline test, 50 ms sleep at end of file); after 90 s `stdout.read()`, then `RuntimeError` |
| RpcChannel | `send_mcp_request` lines 536-572 | the stdin and stdout pipes, `start` | write and flush one request with id 1 (a dead process raises `BrokenPipeError`); loop: a deadline test (5 s, `TimeoutError`), a blocking `readline`, a 10 ms sleep on `''`, the first line that parses as JSON is returned, any other line is skipped |
| MCP engine (Rust, outside `src/`) | — | its startup output, the requests it has not read, its node connection | prints cargo lines, then "connected ..." or "... offline mode", or fails to build and exits; reads one request and prints one JSON answer; logs; may die |
| GameCoordinator | lines 69-96, 173-261, 497-534, 574-669 | `require_onchain`, `episode_id`, `game_board`, `current_player`, the locals `move_count`, `consecutive_failures`, `row/col` | pubkey query (every exception swallowed); `start_game` → `get_game_state`; `play_game` loop: winner test, agent move, `execute_move`; on rejection count a failure, take `get_default_move`, steer it away from the rejected cell, submit once more |
| Board algorithms | `check_winner` 464-491, `get_default_move` 400-434, fallback search 628-641 | the board | pure functions |
| Suggestion sources | `get_move_from_agent1/2` 268-363 | — | HTTP POST (30 s), regex, `json.loads`, else `get_default_move` |
| Key store | 105-113, 129-170, `generate_agent_keys.py` | `agent_keys/agentN-wallet.key` and `agent_keys/agentN/key.json` on disk, shared by every run of both programs | load: 32-byte wallet file, else parse key.json, else create; create is a truncating `open(.., 'w')` and then `json.dump`; the generator always creates |
| Host lookup | 115-127 | — | reads `/etc/resolv.conf` to build the agents' URLs |
| `test_move.py` | whole file | a second client | same readiness loop, 10 s call deadline, five calls in order, `terminate()` in `finally` |
| `kaspa-auth/tests/test_simple_server.py` | whole file | an HTTP server thread | start, one GET, `shutdown`, join |

The coordinator calls the engine through RpcChannel. The engine is the only other actor: it prints while the coordinator reads, and it may answer late or die. The suggestion sources are called synchronously from the same thread. Their result reaches the game only as a cell.

### Hard behaviours in the code (hazards in PROJECT.json)

- **No correlation** (line 540). Every request has id 1. Any JSON line on stdout answers the current call.
- **Swallowed timeout** (line 78). The pubkey query catches every exception, including its own `TimeoutError`. The late answer stays in the pipe. From then on, every call reads the answer to the previous call.
- **Readiness order** (line 46). Cargo's `Finished dev` / ``Running `target`` lines are readiness markers, and they come before the engine's own line. The offline flag is taken only from the matched line, so with a verbose cargo it is never set. `require_onchain` is then wrong for an offline engine.
- **Blocking reads under deadlines** (lines 39, 61, 555-557). The deadlines are tested between lines. `readline` on an open, silent pipe never returns. After the startup deadline, `stdout.read()` waits for end of file from an engine that is waiting for a request.
- **Uncaught call failures** (lines 549, 556). These end the run from `start_game`, `get_game_state` and `execute_move`. Spec §7 says only `StartupTimeout` escalates.
- **The ply state machine** (lines 588-653). It has two ceilings, one fallback per ply, a player switch on each accept, and a failure count that is reset on each accept.
- **Dead code**. The agents' pattern `r'\\{.*\\}'` can only match text that starts with a backslash, and `json.loads` rejects that. So every agent move is `get_default_move()`; `SuggestionIsDefault` checks this over every reply of up to 5 tokens. `has_onchain_capability` is always true.
- **Check-then-create on key files** (lines 156-169). A key is created only when none loads, but nothing makes the check and the write one step. A write is a truncation followed by a dump, so a killed run leaves an empty file behind.
- **No teardown**. The process is never terminated, though spec §5 asks for termination on every exit path. There is no state after exit to check this against, so it is recorded here rather than as a property.

### What makes each part correct

- Channel: every call ends, and the answer a call returns is the answer to its own request.
- Supervisor: startup ends, and the enforcement policy matches the engine's node connection.
- Game: no mark is overwritten; sides alternate; an unfinished game was abandoned only on the failure ceiling; the loop ends; only a startup timeout ends the run.
- Board: check_winner, get_default_move and the fallback follow their definitions in spec §5 and §8.

## 2. Modules

| Module | Models | State (VARIABLES) and actions |
|---|---|---|
| `Responses` | the four tool calls and the abstract values of a response's `result` | `extract_tx_hash` (178-203); `ResultsFor` is the engine's possible answers (spec-modelled) |
| `Board` | the board and its pure functions | `check_winner`, `get_default_move`, `FallbackMove` (628-641), `SuggestedMoves` (268-363, reduced to `get_default_move`) |
| `RpcChannel` | the pipes, the engine and the client half of `send_mcp_request` | `engine`, `script` (startup lines still to print), `node`, `stdin`, `stdout`, `logs`, `rpc` (the call in progress: phase and line read), `expired` (the current wait's deadline has passed). Actions: `send_mcp_request`, `CheckDeadline`, `ReadLine`, and the engine's `EnginePrintStartup`, `EngineStartupDone`, `EngineRespond`, `EngineLog`, `EngineExit` |
| `GameCoordinator` | the game with abstract calls: a call is "pending" and later yields any outcome, including `"timeout"`, or fails with `"pipe"` | `pc`, `require_onchain`, `episode_id`, `board`, `current_player`, `move_count`, `consecutive_failures`, `move`, `reply`, `error`; one action per step of `__init__`/`start_game`/`play_game` |
| `Coordinator` | the whole program: RpcChannel ∥ Board ∥ the coordinator's steps over the real pipes | adds `pc`, `offline_mode_detected`, the game variables and `plies`. Actions: `StartupCheck`, `StartupRead`, `StartupFail`, `FetchPubkeys`, `PubkeysDone`, `start_game`, `StartGameDone`, `GetStateDone`, `PlayTurn`, `GameOver`, `MoveDone`, `FallbackDone`, `Propagate`, `Tick`, `Finished` |
| `SimpleTester` | `test_move.py`: a second client of the engine over `RpcChannel` | adds `tpc`, `episode_id`, `signalled` (terminate() was called) and `error`. Actions: `StartupCheck`, `StartupRead`, `StartupFail` (as in the coordinator, without the offline test), `RunTest`, `Proceed` (the list, pubkeys and first-move answers, each followed by the next call), `StartDone` (`start_response['result']`, whose KeyError on an error response goes to `finally`), `Move2Done`, `CallFails` (TimeoutError or BrokenPipeError goes to `finally`), `EngineTerminated` (SIGTERM), `Tick`, `Finished` |
| `ServerLifecycle` | `test_simple_server.py`: the test thread and the `run_server` thread, with socketserver's `serve_forever`/`shutdown` handshake as its environment | `mpc`, `spc`, `listening`, `backlog`, `responded`, `shutdownRequest` and `isShutDown` (socketserver's two private flags), `timer` (countdowns in 0.1 s ticks for the sleep, the response timeout, the join timeout and the select poll), and the ghost `starved` (a tick passed while some thread had a step it could take). Test actions: `Construct`, `StartThread`, `Sleep`, `Request`, `GetResponse`, `ResponseTimeout`, `Shutdown`, `ShutdownReturns`, `ServerClose`, `Join`, `JoinTimeout`. Server actions: `ServeForever`, `LoopTest`, `Select`, `ServeExit`, `ThreadExit`. Then `Tick` |
| `Suggestion` | `get_move_from_agent1/2` and `is_valid_move_candidate`, as pure operators | The reply is a failed request or a token sequence: backslash, `{`, `}`, newline, other text, and three object bodies (`row` 0 and `col` 0; `row` 3 and `col` 0; `row` only). Operators: `Search` (re.search: leftmost start, greedy, no newline), `json_match` (the code's pattern), `json_loads`, `MoveRow`/`MoveCol`, `is_valid_move_candidate`, `get_move_from_agent` |
| `KeyStore` | the key files and the runs of both programs that touch them | `wallet` (per agent: absent, 32 bytes, other), `file` (per agent: absent, corrupt, or a key identity), `proc` (each run's step and agent), `addr` (the address each run holds per agent), `nextKey`. Coordinator actions: `CoordStart`, `Load`, `CoordOpen` (truncate), `CoordDump`, `CoordExit`. Generator actions: `GenStart`, `GenOpen`, `GenDump`. Environment: `Crash` (a kill at any step) |
| `MCBoard`, `MCGameCoordinator`, `MCCoordinator`, `MCSimpleTester`, `MCKeyStore` | instantiations for TLC | |

How the models correspond to the code:
- Each action is one continuation of the single thread, from one blocking point to the next. For example, `MoveDone` is lines 613-641 up to the write of the fallback request, and that write (`send_mcp_request`) is part of the same action.
- A call's read loop is split into `CheckDeadline` (line 555) and `ReadLine` (557-572), because `readline` blocks and the engine moves in between.
- The locals that die at the end of a ply (`row`, `col`) are reset to `NoMove`.
- Wall-clock time is the boolean `expired`. `Tick` sets it only while a `readline` waits on an empty pipe (blocked on a live engine, or returning `''` at end of file before the loop sleeps). Each new call or wait clears it. The code reads `start_time`/`start` just before the first deadline check (lines 37-39, 553-555), so that check never fails; the deadline can only be seen passed after a `readline` has returned.
- The ghost `stale` flag on requests and responses marks what a later write has superseded. The code has no such field: it exists so that a property can say whose answer a call read.

Refinement: `Coordinator` implements `GameCoordinator` under the mapping
- `pc` ↦ `"init"` for everything before `start_game`;
- `reply` ↦ `"pending"` while a call reads, the line's result once it has returned, or the exception.

So `GameRefinement` carries the game's safety properties (`TurnOrder`, `MarksNeverOverwritten`, `UnfinishedGameWasAbandoned`), which are checked on whole games in `MCGameCoordinator`, over to the real channel. It does not carry `GameLoopTerminates`: the property is `GC!Spec`, which has no fairness, and the few plies explored over the pipes cannot show a whole game end. The channel model itself can only be explored for a few plies.

## 3. Runs

| Run | cfg | Expect | What it shows |
|---|---|---|---|
| board_reference | `MCBoard.cfg` | pass (19,683 states) | `check_winner`, `get_default_move` and the fallback agree with the spec's definitions (winner = the mark of some complete line; Draw iff full without one; best-priority empty cell; a fallback other than the rejected cell whenever one exists) on all 3^9 boards, including unreachable ones. It also checks the agents' reply parsing (`SuggestionIsDefault`) on the empty board and on one with `(0, 0)` taken, against every reply of up to 5 tokens and a failed request. An agent's move is always `get_default_move`. That is the fact `Board!SuggestedMoves` relies on, and it is a finding: the pattern `r'\\{.*\\}'` needs a literal backslash before each brace, so the JSON object the prompt asks for (lines 281-282, spec §6) is never used |
| game | `MCGameCoordinator.cfg` | pass (~960k states) | over whole games, with any answer, timeout or broken pipe at every call: `MarksNeverOverwritten`, `TurnOrder`, `UnfinishedGameWasAbandoned`, `GameLoopTerminates` |
| channel | `MCCoordinator.cfg` | pass (~261k states) | startup scripts with and without cargo lines, an online, offline or failed engine, one log line, a crash at any time, 4 plies: every call ends (`CallsComplete`) and the program refines the game spec (`GameRefinement`) |
| desync | `MCCoordinatorDesync.cfg` | violation of `RepliesAnswerRequests` | the pubkey call's `readline` waits past 5 s until a log line arrives, the call times out and the exception is swallowed → its late answer is returned to `start_game` |
| offline_markers | `MCCoordinatorOffline.cfg` | violation of `EnforcementMatchesNode` | cargo's lines end the wait before the offline line; enforcement is on for an offline engine |
| startup_hang | `MCCoordinatorStartupHang.cfg` | violation of `StartupEnds` | a cold build: the 90 s pass while `readline` waits between two `Compiling` lines; the next one fails the check, and `stdout.read()` waits for an end of file the live server never gives |
| silent_engine | `MCCoordinatorStall.cfg` | violation of `CallsComplete` under `ClientFairSpec` | an engine that never answers blocks the call: the 5 s deadline is never re-tested |
| escalation | `MCCoordinatorEscalation.cfg` | violation of `OnlyStartupTimeoutEscalates` | a broken pipe or timeout during the game ends the run |
| keystore | `MCKeyStore.cfg` | pass (18,786 states) | two coordinator runs and one generator run, one after another in any order, each killable at any step, from any mix of wallet files and present, missing or corrupt key.json files. A coordinator past its key setup holds the address the disk gives each agent, so a half-written file is always repaired (`AddressMatchesDisk`). Only the generator replaces a complete key (`KeyStable`) |
| key_race | `MCKeyStoreRace.cfg` | violation of `KeyStable` | two coordinators started together on key files that do not load (missing, or empty after a killed run; the code takes the same path for both): both decide to create, and the second truncates the key the first has already written and uses |
| tester | `MCSimpleTester.cfg` | pass (1,872 states) | `test_move.py` against the same engines: both moves are sent in the episode its own start call created (`MovesUseStartedEpisode`). Once the script has ended, by any path, the engine process exits (`TesterStopsEngine`) |
| server_lifecycle | `ServerLifecycle.cfg` | pass (422 states) | the test fails on a timeout (`getresponse()` at line 28, the join at line 35) only if a tick passed while a thread could have run (`TimeoutsNeedStarvation`): a GET sent before the loop first runs waits in the backlog and is answered, and `shutdown()` lets the thread end before the 2 s join. With prompt scheduling the test passes |

Each property of a passing run is paired in PROJECT.json with a mutant: a plausible slip in the mapped code that TLC must then report. The slips used are:
- counting a failure twice;
- not switching players;
- an off-by-one in the move ceiling;
- a fallback search that ignores occupancy;
- a read loop that never times out;
- testing for a draw before testing the lines;
- preferring corners to the center;
- in `test_move.py`, reading the episode id with `.get`;
- swallowing a call's exception;
- terminating the engine only on the normal path;
- in `test_simple_server.py`, `t.join(timeout=2)` placed before `server.shutdown()`;
- in the key store, returning None for a key.json that does not parse;
- never reading key.json;
- in the suggestion sources, the pattern written as `r'\{.*\}'`.

### Bounds

- **MaxPlies = 4** in `MCCoordinator`. It bounds the plies explored over the real pipes. Four plies reach every kind of ply: accepted, rejected with an accepted fallback, and rejected twice. They also reach the stale answers that desync produces. Whole games are covered through refinement and the game run.
- **MaxLogLines = 1**. One log line while serving is enough for `ReadLine` to skip a non-JSON line in the middle of a call.
- **Scripts**. `MCScripts` holds the startup outputs that matter:
  - online and offline, each with cargo lines and without;
  - a failed build (one log line, then exit).

  `MCVerboseScripts` is the offline engine with cargo lines. `MCColdBuildScripts` is a cold build: two `Compiling` lines before cargo's markers, so that the deadline can pass between two lines that carry no marker.
- **Results**. Each call's results are one value for each way the code distinguishes a response:
  - an error object;
  - a null result;
  - a dict with a transaction id, with a nested receipt, or with neither;
  - the pubkey and state dicts;
  - an episode id.
- **Ceilings**. The game ceilings are the code's own: 9 moves and 3 failures.
- **`MCSimpleTester`** uses an online engine with and without cargo lines, an offline engine and a failed build. The tester makes exactly five calls, so no further bound is needed.
- **Replies in `MCBoard`**: every reply of up to 5 tokens. Four tokens are the shortest text the code's pattern can match (a backslash, `{`, a backslash, `}`), and five fit an object body between the escaped braces. Two boards are used: the empty one, and one whose `(0, 0)` is taken, so that a suggested cell can be occupied.
- **`MCKeyStore`** has three runs: two coordinators and one generator. That is enough for a coordinator to load what an earlier coordinator or the generator wrote, and for a run to meet a file another run's kill left behind. Every pair of initial wallet and key.json states is enumerated. Keys are fresh numbers, at most one per agent per run, so they are bounded by the runs themselves.
- **Ticks in `ServerLifecycle`** are the code's own durations in units of 0.1 s: the sleep is 1, the select poll is 5, and both timeouts are 20. With these values a timeout fires only after its real duration, and the poll can time out many times within one timeout.

### Fairness

- The coordinator is one thread that never waits on anything but the pipes, so it gets weak fairness on its steps.
- Time passes (`SF(Tick)`). `Tick` is enabled only inside a `readline` on an empty pipe and is disabled between readlines, so a wait that spins at end of file enables it only intermittently; strong fairness says that such a wait still reaches its deadline, as the real clock does.
- The engine's startup output and its answers to requests it has read are assumed fair (`EngineFairness`). This assumption is the engine's contract, not the coordinator's code: `silent_engine` drops it and shows what the coordinator then does.
- Logging and crashing are never forced.
- `Finished` is the program's return: a terminal state is final, not a deadlock.
- `KeyStore` states safety only and assumes no fairness: a run may be killed at any step, and a run may never start.
- In `SimpleTester`, time is strongly fair for the same reason, and the engine exits on SIGTERM (`WF(EngineTerminated)`). This is how the OS handles a process that does not catch the signal.
- In `ServerLifecycle`, each thread is weakly fair, and so are time and the two timeouts. Nothing bounds how long a runnable thread waits, so a timeout may fire before a thread it races runs. The model therefore admits `ResponseTimeout` and `JoinTimeout` (the assert that `t.is_alive()` fails), and the ghost `starved` records whether a tick passed while a thread was runnable.

## 4. Not modelled

- **Key files, host lookup, printing, prompt text.** These are file I/O and formatting, and no decision depends on them.
- **The engine's game rules and the wording of its responses.** The engine lies outside `src/`. Its answers are any result the method can have.
- **A log line that is a bare JSON value.** The read loop would return it as the response. Spec §2 says the first JSON *object* is the response, but §4.2 and §8 say the first line that parses, and nothing shows the engine printing such a line. It remains a hazard with a note.
- **HTTP suggestion calls and prompt text.** The call is modelled only as success or failure. The prompt built by `format_board_for_prompt` and `get_strategic_analysis` is formatting.
- **Key material and the host lookup.** A key is an identity. The hashing, the hex formatting and the `real_...` address string are left out, because no decision depends on them. `get_windows_host_ip` only builds the agents' URLs.
- **The coordinator's startup before the key setup.** A startup `RuntimeError` (line 66) ends the run before it touches a key file. In `KeyStore` that is the same as `Crash` before `Load`.
- **A node connection that changes during a run.** `RpcChannel` fixes the node at startup. The game run's abstract engine answers regardless of the node, so it covers an engine that loses the node mid-game. There, `GameLoopTerminates` and `UnfinishedGameWasAbandoned` show that the game ends by abandonment.
- **socketserver's handler internals.** The request handler is reduced to one step that writes the response.

## 5. Plan for later sittings

Done in the second sitting: `test_move.py` (`SimpleTester`) and `test_simple_server.py` (`ServerLifecycle`). Done in the third: the key store (`KeyStore`). Done in the fourth: the suggestion sources (`Suggestion`, checked in `board_reference`), and the join race. Done in the fifth: deadlines that can pass only inside a waiting `readline`, a cold-build startup hang, and `TimeoutsNeedStarvation` for the server test.

1. Let the engine's node connection drop and return during a game. Check whether abandonment then follows, as a liveness property.
2. Widen `MCCoordinator` (more log lines, a second crash point) where the state count allows it. Consider a symmetry-free abstraction of `stdout` that would allow more plies.

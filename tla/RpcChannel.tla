----------------------------- MODULE RpcChannel -----------------------------
(***************************************************************************)
(* The line-delimited JSON-RPC channel of tictactoe_coordinator.py: the    *)
(* engine subprocess (`cargo run --bin kdapp-mcp-server`, a black box) and *)
(* the two pipes the coordinator owns, stdin for requests and one stdout   *)
(* that carries stderr too, plus the client side of send_mcp_request.      *)
(*                                                                         *)
(* Every request goes out with the constant wire id 1, so nothing on the   *)
(* wire ties a response to its request.  The model marks, as a ghost,     *)
(* every request and response that a later call has superseded (stale),  *)
(* only so that properties can say whether a returned line answers the    *)
(* call that read it.                                                      *)
(***************************************************************************)
EXTENDS Naturals, Sequences, SequencesExt, Responses

CONSTANTS
    Scripts,      \* the startup outputs the engine process may print
    MaxLogLines   \* bound on incidental log lines printed while serving

(* Startup line kinds, by the readiness marker they contain (lines 31-38): *)
(* "build" = cargo's 'Finished dev', "run" = cargo's 'Running `target',    *)
(* "connected" = 'connected to kaspa node successfully', "offline" =       *)
(* 'server continues in offline mode', "log" = anything else.              *)
Texts   == {"log", "build", "run", "connected", "offline"}
Markers == {"build", "run", "connected", "offline"}

ASSUME Scripts \subseteq Seq(Texts) /\ MaxLogLines \in Nat

TextLine(t)      == [json |-> FALSE, text |-> t, result |-> NoResult,
                     stale |-> FALSE]
JsonLine(req, r) == [json |-> TRUE, text |-> "json", result |-> r,
                     stale |-> req.stale]
NoLine           == TextLine("none")

VARIABLES
    engine,   \* "starting", "serving" or "exited"
    script,   \* startup lines the engine has still to print
    node,     \* the node connection the script ends with: "connected", "offline", "none"
    stdin,    \* requests written and not yet read by the engine
    stdout,   \* lines printed by the engine and not yet read by the coordinator
    logs,     \* incidental log lines printed so far while serving
    rpc,      \* the send_mcp_request call in progress
    expired   \* the deadline of the current wait has passed

chanVars == <<engine, script, node, stdin, stdout, logs, rpc, expired>>

RpcPhases == {"idle", "check", "read", "returned", "timeout", "pipe"}
IdleRpc   == [phase |-> "idle", line |-> NoLine]

NodeOf(s) == IF "connected" \in ToSet(s) THEN "connected"
             ELSE IF "offline" \in ToSet(s) THEN "offline" ELSE "none"

ChanInit ==
    /\ script \in Scripts
    /\ node = NodeOf(script)
    /\ engine = "starting"
    /\ stdin = <<>>
    /\ stdout = <<>>
    /\ logs = 0
    /\ rpc = IdleRpc
    /\ expired = FALSE

Waiting   == rpc.phase \in {"check", "read"}
Returned  == rpc.phase = "returned"
Raised    == rpc.phase \in {"timeout", "pipe"}
Reply     == rpc.line
EOF       == stdout = <<>> /\ engine = "exited"

(* send_mcp_request writes one request line and flushes it.  Once the     *)
(* process has exited the write fails with BrokenPipeError.  Callers     *)
(* issue it only when no call is in progress.  Ghost: whatever earlier    *)
(* requests and responses are still in the pipes become stale.            *)
Superseded(s) == [i \in DOMAIN s |-> [s[i] EXCEPT !.stale = s[i].json]]

send_mcp_request(m) ==
    /\ expired' = FALSE
    /\ stdout' = Superseded(stdout)
    /\ \/ /\ engine # "exited"
          /\ stdin' = Append([i \in DOMAIN stdin |->
                                 [stdin[i] EXCEPT !.stale = TRUE]],
                             [method |-> m, stale |-> FALSE])
          /\ rpc' = [IdleRpc EXCEPT !.phase = "check"]
       \/ /\ engine = "exited"
          /\ rpc' = [IdleRpc EXCEPT !.phase = "pipe"]
          /\ UNCHANGED stdin
    /\ UNCHANGED <<engine, script, node, logs>>

(* A faulty variant: the read loop never consults its deadline. *)
CheckDeadline_noTimeout ==
    /\ rpc.phase = "check"
    /\ rpc' = [rpc EXCEPT !.phase = "read"]
    /\ UNCHANGED <<engine, script, node, stdin, stdout, logs, expired>>

(* The deadline test at the top of each iteration of the read loop.       *)
CheckDeadline ==
    /\ rpc.phase = "check"
    /\ \/ expired /\ rpc' = [rpc EXCEPT !.phase = "timeout"]
       \/ ~expired /\ rpc' = [rpc EXCEPT !.phase = "read"]
    /\ UNCHANGED <<engine, script, node, stdin, stdout, logs, expired>>

(* One blocking readline: the first line that parses as JSON is the       *)
(* response, any other line is skipped; at end of file readline returns   *)
(* '' and the loop sleeps and goes round.  On an open, empty pipe         *)
(* readline blocks, so the action is disabled.                            *)
ReadLine ==
    /\ rpc.phase = "read"
    /\ \/ /\ stdout # <<>>
          /\ stdout' = Tail(stdout)
          /\ rpc' = IF Head(stdout).json
                      THEN [rpc EXCEPT !.phase = "returned", !.line = Head(stdout)]
                      ELSE [rpc EXCEPT !.phase = "check"]
       \/ /\ EOF
          /\ rpc' = [rpc EXCEPT !.phase = "check"]
          /\ UNCHANGED stdout
    /\ UNCHANGED <<engine, script, node, stdin, logs, expired>>

(* The caller takes the outcome of the call and the channel is idle again; *)
(* the deadline belonged to that call.                                    *)
Consume == rpc' = IdleRpc /\ expired' = FALSE

-----------------------------------------------------------------------------
(* The engine process, a black box behind its pipes.                       *)

EnginePrintStartup ==
    /\ engine = "starting"
    /\ script # <<>>
    /\ stdout' = Append(stdout, TextLine(Head(script)))
    /\ script' = Tail(script)
    /\ UNCHANGED <<engine, node, stdin, logs, rpc, expired>>

(* After its startup output the server reads requests, or the build       *)
(* failed and the process exits.                                          *)
EngineStartupDone ==
    /\ engine = "starting"
    /\ script = <<>>
    /\ engine' = IF node = "none" THEN "exited" ELSE "serving"
    /\ stdin' = IF node = "none" THEN <<>> ELSE stdin
    /\ UNCHANGED <<script, node, stdout, logs, rpc, expired>>

(* The server reads one request line and prints one JSON response to it.  *)
EngineRespond ==
    /\ engine = "serving"
    /\ stdin # <<>>
    /\ \E r \in ResultsFor(Head(stdin).method, node = "connected") :
          stdout' = Append(stdout, JsonLine(Head(stdin), r))
    /\ stdin' = Tail(stdin)
    /\ UNCHANGED <<engine, script, node, logs, rpc, expired>>

EngineLog ==
    /\ engine = "serving"
    /\ logs < MaxLogLines
    /\ stdout' = Append(stdout, TextLine("log"))
    /\ logs' = logs + 1
    /\ UNCHANGED <<engine, script, node, stdin, rpc, expired>>

(* The server process dies; requests it has not read are lost, lines it   *)
(* printed stay in the pipe.                                               *)
EngineExit ==
    /\ engine = "serving"
    /\ engine' = "exited"
    /\ stdin' = <<>>
    /\ UNCHANGED <<script, node, stdout, logs, rpc, expired>>

EngineNext ==
    EnginePrintStartup \/ EngineStartupDone \/ EngineRespond \/ EngineLog
    \/ EngineExit

=============================================================================

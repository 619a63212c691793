---------------------------- MODULE SimpleTester ----------------------------
(***************************************************************************)
(* SimpleTester of test_move.py: a second client of the engine over the    *)
(* same pipes (module RpcChannel).  __init__ waits for a readiness marker  *)
(* as the coordinator does; run_test then makes five calls in a fixed      *)
(* order -- tools/list, the agent pubkeys, kdapp_start_episode and two     *)
(* moves in that episode -- and its finally block terminates the process  *)
(* whatever ended the calls.  No exception is caught: a TimeoutError, a    *)
(* BrokenPipeError or the KeyError of an error response to the start call *)
(* runs the finally block and leaves run_test.                             *)
(***************************************************************************)
EXTENDS RpcChannel

VARIABLES
    tpc,          \* where the tester's single thread is
    episode_id,   \* start_response['result'] ("none" before)
    signalled,    \* server_process.terminate() has been called
    error         \* the exception that ended the test, if any

testerVars == <<tpc, episode_id, signalled, error>>
vars == <<chanVars, testerVars>>

StartupPcs == {"startCheck", "startRead", "startFailed"}
CallPcs    == {"list", "pubkeys", "start", "move1", "move2"}

(* The request each call of run_test sends, and the call that follows it. *)
MethodAt  == [list |-> "list", pubkeys |-> "pubkeys", start |-> "start",
              move1 |-> "move", move2 |-> "move"]
Following == [list |-> "pubkeys", pubkeys |-> "start", start |-> "move1",
              move1 |-> "move2"]

Init ==
    /\ ChanInit
    /\ tpc = "startCheck"
    /\ episode_id = "none"
    /\ signalled = FALSE
    /\ error = "none"

(* Top of the readiness loop: the 90 s window has passed or not. *)
StartupCheck ==
    /\ tpc = "startCheck"
    /\ tpc' = IF expired THEN "startFailed" ELSE "startRead"
    /\ UNCHANGED <<chanVars, episode_id, signalled, error>>

(* One blocking readline; any marker ends __init__.  There is no offline  *)
(* test here.  At end of file the loop sleeps.                            *)
StartupRead ==
    /\ tpc = "startRead"
    /\ \/ /\ stdout # <<>>
          /\ stdout' = Tail(stdout)
          /\ tpc' = IF Head(stdout).text \in Markers THEN "ready" ELSE "startCheck"
       \/ /\ EOF
          /\ tpc' = "startCheck"
          /\ UNCHANGED stdout
    /\ UNCHANGED <<engine, script, node, stdin, logs, rpc, expired,
                   episode_id, signalled, error>>

(* stdout.read() returns at end of file; RuntimeError leaves __init__     *)
(* before run_test and its finally block exist.                           *)
StartupFail ==
    /\ tpc = "startFailed"
    /\ engine = "exited"
    /\ stdout' = <<>>
    /\ tpc' = "raised"
    /\ error' = "StartupTimeout"
    /\ UNCHANGED <<engine, script, node, stdin, logs, rpc, expired,
                   episode_id, signalled>>

(* run_test begins with tools/list. *)
RunTest ==
    /\ tpc = "ready"
    /\ rpc.phase = "idle"
    /\ tpc' = "list"
    /\ send_mcp_request(MethodAt["list"])
    /\ UNCHANGED <<episode_id, signalled, error>>

(* The finally block: terminate() signals the process; the exception, if *)
(* any, leaves run_test.                                                  *)
Terminate(e) ==
    /\ tpc' = "done"
    /\ signalled' = TRUE
    /\ error' = e
    /\ Consume
    /\ UNCHANGED <<engine, script, node, stdin, stdout, logs, episode_id>>

(* The answers to tools/list, the pubkeys and the first move are only     *)
(* printed; the next call is sent.  pk_resp.get('result', {}) accepts an  *)
(* error response.                                                        *)
Proceed ==
    /\ tpc \in {"list", "pubkeys", "move1"}
    /\ Returned
    /\ tpc' = Following[tpc]
    /\ send_mcp_request(MethodAt[Following[tpc]])
    /\ UNCHANGED <<episode_id, signalled, error>>

(* A faulty variant: the result is read with .get, so an error response   *)
(* starts the moves with no episode.                                      *)
StartDone_get ==
    /\ tpc = "start"
    /\ Returned
    /\ episode_id' = Reply.result
    /\ tpc' = "move1"
    /\ send_mcp_request(MethodAt["move1"])
    /\ UNCHANGED <<signalled, error>>

(* episode_id = start_response['result']: an error response has no       *)
(* result, and the KeyError runs the finally block.                      *)
StartDone ==
    /\ tpc = "start"
    /\ Returned
    /\ \/ /\ Reply.result # NoResult
          /\ episode_id' = Reply.result
          /\ tpc' = "move1"
          /\ send_mcp_request(MethodAt["move1"])
          /\ UNCHANGED <<signalled, error>>
       \/ /\ Reply.result = NoResult
          /\ Terminate("KeyError")

(* The second move's answer is printed and run_test ends normally. *)
Move2Done ==
    /\ tpc = "move2"
    /\ Returned
    /\ Terminate("none")

(* Faulty variants: the call's exception is swallowed and the test goes  *)
(* on, as the coordinator's pubkey query does; or the process is only    *)
(* terminated on the normal path.                                        *)
CallFails_swallowed ==
    /\ tpc \in CallPcs \ {"move2"}
    /\ Raised
    /\ tpc' = Following[tpc]
    /\ send_mcp_request(MethodAt[Following[tpc]])
    /\ UNCHANGED <<episode_id, signalled, error>>

CallFails_noFinally ==
    /\ tpc \in CallPcs
    /\ Raised
    /\ tpc' = "done"
    /\ error' = rpc.phase
    /\ Consume
    /\ UNCHANGED <<engine, script, node, stdin, stdout, logs, episode_id,
                   signalled>>

(* A TimeoutError or BrokenPipeError of any call runs the finally block. *)
CallFails ==
    /\ tpc \in CallPcs
    /\ Raised
    /\ Terminate(rpc.phase)

(* SIGTERM ends the process; requests it has not read are lost. *)
EngineTerminated ==
    /\ signalled
    /\ engine # "exited"
    /\ engine' = "exited"
    /\ stdin' = <<>>
    /\ UNCHANGED <<script, node, stdout, logs, rpc, expired, testerVars>>

(* Wall-clock time passes the deadline of the current wait, inside a     *)
(* readline that waits on an empty pipe (start_time and start are read   *)
(* before the first check, lines 21-31 and 66-68, so it never fails).    *)
Tick ==
    /\ rpc.phase = "read" \/ tpc = "startRead"
    /\ stdout = <<>>
    /\ ~expired
    /\ expired' = TRUE
    /\ UNCHANGED <<engine, script, node, stdin, stdout, logs, rpc, testerVars>>

(* The script has returned. *)
Finished ==
    /\ tpc \in {"done", "raised"}
    /\ UNCHANGED vars

TesterNext ==
    \/ StartupCheck \/ StartupRead \/ StartupFail \/ RunTest
    \/ Proceed \/ StartDone \/ Move2Done \/ CallFails
    \/ (CheckDeadline \/ ReadLine) /\ UNCHANGED testerVars

Next ==
    \/ TesterNext
    \/ EngineNext /\ UNCHANGED testerVars
    \/ EngineTerminated
    \/ Tick
    \/ Finished

(* The tester's thread runs whenever it can and time passes (strongly    *)
(* fair, as Tick is off between readlines); the engine                    *)
(* prints its startup output, answers what it reads, and dies on SIGTERM. *)
FairSpec ==
    /\ Init /\ [][Next]_vars
    /\ WF_vars(TesterNext) /\ SF_vars(Tick) /\ WF_vars(EngineTerminated)
    /\ WF_vars(EnginePrintStartup /\ UNCHANGED testerVars)
    /\ WF_vars(EngineStartupDone /\ UNCHANGED testerVars)
    /\ WF_vars(EngineRespond /\ UNCHANGED testerVars)

-----------------------------------------------------------------------------
(* Properties *)

TypeOK ==
    /\ engine \in {"starting", "serving", "exited"}
    /\ stdin \in Seq([method : Methods, stale : BOOLEAN])
    /\ rpc.phase \in RpcPhases
    /\ tpc \in StartupPcs \cup CallPcs \cup {"ready", "done", "raised"}
    /\ episode_id \in Results \cup {"none"}
    /\ signalled \in BOOLEAN
    /\ error \in {"none", "StartupTimeout", "KeyError", "timeout", "pipe"}

(* Both moves are sent in the episode that the engine started in answer  *)
(* to this test's own kdapp_start_episode request: with constant id 1,   *)
(* an answer left over from an earlier call would be taken for it.       *)
MovesUseStartedEpisode ==
    tpc \in {"move1", "move2"} => episode_id = "episode"

(* Once the script has ended, by any path, the engine process goes away:  *)
(* run_test's finally block terminates it, or, when __init__ raised, the  *)
(* drain had already waited for its exit.                                 *)
TesterStopsEngine == tpc \in {"done", "raised"} ~> engine = "exited"

=============================================================================

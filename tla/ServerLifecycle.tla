--------------------------- MODULE ServerLifecycle ---------------------------
(***************************************************************************)
(* kaspa-auth/tests/test_simple_server.py: the test thread starts an       *)
(* HTTPServer's serve_forever in a daemon thread (run_server), makes one   *)
(* GET with a 2 s socket timeout, then calls shutdown(), server_close()    *)
(* and join(timeout=2) and asserts that the thread has ended.              *)
(*                                                                         *)
(* The server thread runs Python's socketserver loop, taken here as the    *)
(* environment of the test: serve_forever clears the __is_shut_down       *)
(* event, loops on select while __shutdown_request is false, and in its   *)
(* finally block resets the request and sets the event; shutdown() sets   *)
(* the request and waits on the event.  The constructor binds and listens, *)
(* so a connection made before the loop runs waits in the backlog.         *)
(*                                                                         *)
(* Time is counted in ticks of 0.1 s.  Every timed wait of the two threads *)
(* has a countdown that Tick lowers; no bound holds on how long a thread  *)
(* waits to be scheduled, so a timeout may beat a runnable thread.         *)
(***************************************************************************)
EXTENDS Naturals

SleepTicks   == 1    \* time.sleep(0.1)
PollTicks    == 5    \* serve_forever(poll_interval=0.5)
TimeoutTicks == 20   \* HTTPConnection(timeout=2) and join(timeout=2)

VARIABLES
    mpc,              \* where the test thread is
    spc,              \* where the server thread is
    listening,        \* the server socket is open
    backlog,          \* a connection with its request is waiting
    responded,        \* the handler has written the response
    shutdownRequest,  \* socketserver's __shutdown_request
    isShutDown,       \* socketserver's __is_shut_down event
    timer,            \* ticks left of each timed wait: sleep, resp, join, poll
    starved           \* ghost: a tick passed while some thread could have run

vars == <<mpc, spc, listening, backlog, responded, shutdownRequest, isShutDown,
          timer, starved>>
Timers == {"sleep", "resp", "join", "poll"}

TestEnds == {"passed", "assertFailed", "timedOut"}

Init ==
    /\ mpc = "construct"
    /\ spc = "new"
    /\ listening = FALSE
    /\ backlog = FALSE
    /\ responded = FALSE
    /\ shutdownRequest = FALSE
    /\ isShutDown = FALSE
    /\ timer = [t \in Timers |-> 0]
    /\ starved = FALSE

-----------------------------------------------------------------------------
(* The test thread *)

(* HTTPServer(("127.0.0.1", 0), ...) binds and listens. *)
Construct ==
    /\ mpc = "construct"
    /\ listening' = TRUE
    /\ mpc' = "start"
    /\ UNCHANGED <<spc, backlog, responded, shutdownRequest, isShutDown, timer, starved>>

(* t.start() returns once the thread exists, not once it serves. *)
StartThread ==
    /\ mpc = "start"
    /\ spc' = "started"
    /\ mpc' = "sleep"
    /\ timer' = [timer EXCEPT !.sleep = SleepTicks]
    /\ UNCHANGED <<listening, backlog, responded, shutdownRequest, isShutDown, starved>>

(* time.sleep(0.1) ends. *)
Sleep ==
    /\ mpc = "sleep"
    /\ timer.sleep = 0
    /\ mpc' = "request"
    /\ UNCHANGED <<spc, listening, backlog, responded, shutdownRequest, isShutDown, timer, starved>>

(* conn.request("GET", "/"): the connection is accepted by the kernel and *)
(* the request waits for the server loop.                                 *)
Request ==
    /\ mpc = "request"
    /\ listening
    /\ backlog' = TRUE
    /\ mpc' = "await"
    /\ timer' = [timer EXCEPT !.resp = TimeoutTicks]
    /\ UNCHANGED <<spc, listening, responded, shutdownRequest, isShutDown, starved>>

(* getresponse() returns the 200 response; the status assert holds and   *)
(* the connection is closed.                                              *)
GetResponse ==
    /\ mpc = "await"
    /\ responded
    /\ mpc' = "shutdown"
    /\ timer' = [timer EXCEPT !.resp = 0]
    /\ UNCHANGED <<spc, listening, backlog, responded, shutdownRequest, isShutDown, starved>>

(* The 2 s socket timeout fires first: socket.timeout leaves the test,   *)
(* and the daemon thread is left serving.                                 *)
ResponseTimeout ==
    /\ mpc = "await"
    /\ ~responded
    /\ timer.resp = 0
    /\ mpc' = "timedOut"
    /\ UNCHANGED <<spc, listening, backlog, responded, shutdownRequest, isShutDown, timer, starved>>

(* A faulty variant: t.join(timeout=2) placed before server.shutdown(). *)
Shutdown_joinFirst ==
    /\ mpc = "shutdown"
    /\ mpc' = "join"
    /\ timer' = [timer EXCEPT !.join = TimeoutTicks]
    /\ UNCHANGED <<spc, listening, backlog, responded, shutdownRequest, isShutDown, starved>>

(* server.shutdown(): set the request, then block on the event. *)
Shutdown ==
    /\ mpc = "shutdown"
    /\ shutdownRequest' = TRUE
    /\ mpc' = "shutdownWait"
    /\ UNCHANGED <<spc, listening, backlog, responded, isShutDown, timer, starved>>

ShutdownReturns ==
    /\ mpc = "shutdownWait"
    /\ isShutDown
    /\ mpc' = "close"
    /\ UNCHANGED <<spc, listening, backlog, responded, shutdownRequest, isShutDown, timer, starved>>

(* server.server_close() closes the listening socket. *)
ServerClose ==
    /\ mpc = "close"
    /\ listening' = FALSE
    /\ mpc' = "join"
    /\ timer' = [timer EXCEPT !.join = TimeoutTicks]
    /\ UNCHANGED <<spc, backlog, responded, shutdownRequest, isShutDown, starved>>

(* t.join(timeout=2) returns when the thread ends; assert not alive. *)
Join ==
    /\ mpc = "join"
    /\ spc = "dead"
    /\ mpc' = "passed"
    /\ timer' = [timer EXCEPT !.join = 0]
    /\ UNCHANGED <<spc, listening, backlog, responded, shutdownRequest, isShutDown, starved>>

(* The join's 2 s pass with the thread alive: the assert fails. *)
JoinTimeout ==
    /\ mpc = "join"
    /\ spc # "dead"
    /\ timer.join = 0
    /\ mpc' = "assertFailed"
    /\ UNCHANGED <<spc, listening, backlog, responded, shutdownRequest, isShutDown, timer, starved>>

-----------------------------------------------------------------------------
(* The server thread: run_server(server) calls server.serve_forever(). *)

ServeForever ==
    /\ spc = "started"
    /\ isShutDown' = FALSE
    /\ spc' = "loop"
    /\ UNCHANGED <<mpc, listening, backlog, responded, shutdownRequest, timer, starved>>

(* while not __shutdown_request: *)
LoopTest ==
    /\ spc = "loop"
    /\ \/ shutdownRequest /\ spc' = "exit" /\ UNCHANGED timer
       \/ ~shutdownRequest /\ spc' = "select"
          /\ timer' = [timer EXCEPT !.poll = PollTicks]
    /\ UNCHANGED <<mpc, listening, backlog, responded, shutdownRequest, isShutDown, starved>>

(* select(poll_interval) returns at once on a waiting connection, else   *)
(* after 0.5 s; then the request flag is tested before the connection is *)
(* handled (_handle_request_noblock writes the response).                 *)
Select ==
    /\ spc = "select"
    /\ backlog \/ timer.poll = 0
    /\ timer' = [timer EXCEPT !.poll = 0]
    /\ \/ /\ shutdownRequest
          /\ spc' = "exit"
          /\ UNCHANGED <<backlog, responded>>
       \/ /\ ~shutdownRequest
          /\ backlog
          /\ backlog' = FALSE
          /\ responded' = TRUE
          /\ spc' = "loop"
       \/ /\ ~shutdownRequest
          /\ ~backlog
          /\ spc' = "loop"
          /\ UNCHANGED <<backlog, responded>>
    /\ UNCHANGED <<mpc, listening, shutdownRequest, isShutDown, starved>>

(* finally: __shutdown_request = False; __is_shut_down.set() *)
ServeExit ==
    /\ spc = "exit"
    /\ shutdownRequest' = FALSE
    /\ isShutDown' = TRUE
    /\ spc' = "return"
    /\ UNCHANGED <<mpc, listening, backlog, responded, timer, starved>>

(* run_server returns and the thread ends. *)
ThreadExit ==
    /\ spc = "return"
    /\ spc' = "dead"
    /\ UNCHANGED <<mpc, listening, backlog, responded, shutdownRequest, isShutDown, timer, starved>>

-----------------------------------------------------------------------------
(* The steps of each thread that take no time. *)
TestStep ==
    Construct \/ StartThread \/ Sleep \/ Request \/ GetResponse \/ Shutdown
    \/ ShutdownReturns \/ ServerClose \/ Join

ServerStep == ServeForever \/ LoopTest \/ Select \/ ServeExit \/ ThreadExit

(* 0.1 s pass; every running countdown goes down.  The ghost records a   *)
(* tick that passed while a thread had a step it could take.             *)
Tick ==
    /\ \E t \in Timers : timer[t] > 0
    /\ timer' = [t \in Timers |-> IF timer[t] > 0 THEN timer[t] - 1 ELSE 0]
    /\ starved' = (starved \/ ENABLED (TestStep \/ ServerStep))
    /\ UNCHANGED <<mpc, spc, listening, backlog, responded, shutdownRequest,
                   isShutDown>>

(* The test function has returned or raised. *)
Done ==
    /\ mpc \in TestEnds
    /\ UNCHANGED vars

Next == TestStep \/ ResponseTimeout \/ JoinTimeout \/ ServerStep \/ Tick \/ Done

(* Both threads are scheduled and time passes; nothing bounds how long a  *)
(* runnable thread waits, so a timeout may fire before it runs.          *)
Spec ==
    /\ Init /\ [][Next]_vars
    /\ WF_vars(TestStep) /\ WF_vars(ServerStep) /\ WF_vars(Tick)
    /\ WF_vars(ResponseTimeout) /\ WF_vars(JoinTimeout)

-----------------------------------------------------------------------------
(* Properties *)

(* The test fails on one of its timeouts, getresponse() at line 28 or    *)
(* the join at line 35, only if a thread that could run was kept off the *)
(* processor for a whole tick: with prompt scheduling the GET that waits *)
(* in the backlog is answered, and shutdown() has let the thread leave   *)
(* serve_forever before the join starts its 2 s.                         *)
TimeoutsNeedStarvation == mpc \in {"timedOut", "assertFailed"} => starved

=============================================================================

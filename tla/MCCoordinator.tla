--------------------------- MODULE MCCoordinator ---------------------------
(* Model-checking instance of Coordinator. *)
EXTENDS Coordinator

(* What `cargo run` prints before the server reads stdin: cargo's          *)
(* 'Finished dev' and 'Running `target' lines, then the server's node      *)
(* line; with CARGO_TERM_QUIET only the server's line; a failed build.    *)
MCScripts ==
    { <<"build", "run", "connected">>, <<"build", "run", "offline">>,
      <<"connected">>, <<"offline">>, <<"log">> }

(* Cargo's default output, for a server that cannot reach a node. *)
MCVerboseScripts == { <<"build", "run", "offline">> }

(* A cold build: cargo prints "Compiling" lines (no marker) for a long    *)
(* while before 'Finished dev', and the server then connects and serves.  *)
MCColdBuildScripts == { <<"log", "log", "build", "run", "connected">> }

MCMaxLogLines == 1
MCMaxPlies == 4
=============================================================================

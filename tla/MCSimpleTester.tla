--------------------------- MODULE MCSimpleTester ---------------------------
(* test_move.py against the engine startup outputs of MCCoordinator. *)
EXTENDS SimpleTester

MCScripts == {<<"build", "run", "connected">>, <<"build", "run", "offline">>,
              <<"connected">>, <<"log">>}
MCMaxLogLines == 1

=============================================================================

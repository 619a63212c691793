------------------------- MODULE MCGameCoordinator -------------------------
(* Model-checking instance of GameCoordinator: the whole 3x3 game. *)
EXTENDS GameCoordinator
=============================================================================

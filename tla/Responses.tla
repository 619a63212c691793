----------------------------- MODULE Responses -----------------------------
(***************************************************************************)
(* The engine's JSON-RPC methods as tictactoe_coordinator.py calls them,   *)
(* the abstract values of the "result" field of their responses, and how   *)
(* the coordinator reads a transaction id out of a result.                 *)
(***************************************************************************)

(* kdapp_get_agent_pubkeys, kdapp_start_episode, kdapp_get_episode_state, *)
(* kdapp_execute_command, and tools/list (test_move.py only).             *)
Methods == {"pubkeys", "start", "state", "move", "list"}

(* NoResult is an {"error": ...} response, which has no "result" field.   *)
(* "null" is a present but null result; "episode" an integer episode id;  *)
(* the others are dicts: the tool list, agent pubkeys, episode state, a  *)
(* move result with a tx field, with a nested receipt, or with neither.   *)
NoResult == "noResult"
Results  == {"keys", "episode", "stateDict", "null", "tx", "receipt", "notx",
             "tools"}

(* extract_tx_hash finds a transaction id: a truthy tx_hash, txid, tx,    *)
(* transaction or hash field, a receipt's tx_hash, txid or hash, or a     *)
(* string result of 8 characters or more.  A null result has none.        *)
extract_tx_hash(r) == r \in {"tx", "receipt"}

(* What the engine answers to a method.  A move produces a transaction    *)
(* only when the engine is connected to a node.                           *)
ResultsFor(m, connected) ==
    CASE m = "pubkeys" -> {"keys", NoResult}
      [] m = "start"   -> {"episode", NoResult}
      [] m = "state"   -> {"stateDict", NoResult}
      [] m = "list"    -> {"tools", NoResult}
      [] m = "move"    -> IF connected THEN {"tx", "receipt", NoResult}
                                       ELSE {"null", "notx", NoResult}

=============================================================================

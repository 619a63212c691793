----------------------------- MODULE MCKeyStore -----------------------------
(* Three runs: two coordinators and one generate_agent_keys.py.  In       *)
(* MCKeyStore.cfg they run one after another, in any order; in            *)
(* MCKeyStoreRace.cfg two coordinators are started together.              *)
EXTENDS KeyStore

CONSTANTS c1, c2, g1

MCProcs == {c1, c2, g1}
MCKind  == [p \in {c1, c2, g1} |-> IF p = g1 THEN "gen" ELSE "coord"]

MCRaceProcs == {c1, c2}
=============================================================================

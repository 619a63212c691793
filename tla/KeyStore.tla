------------------------------ MODULE KeyStore ------------------------------
(***************************************************************************)
(* The agent key store on disk, shared by the runs of two programs:        *)
(*  - tictactoe_coordinator.py, whose __init__ calls _load_or_create_agent *)
(*    for agent1 and then agent2: a 32-byte agent_keys/agentN-wallet.key   *)
(*    gives a "real_..." address; otherwise agent_keys/agentN/key.json is  *)
(*    read; if that fails, a new demo key is written to key.json;          *)
(*  - generate_agent_keys.py, which writes a new key.json for agent1 and   *)
(*    then agent2, whatever is there.                                      *)
(* Writing opens the file with mode 'w', which truncates it, then dumps    *)
(* the JSON.  A run may be killed at any step, and the files keep what     *)
(* was written.  A key is an identity (a positive number).               *)
(***************************************************************************)
EXTENDS Integers, FiniteSets

CONSTANTS
    Procs,        \* the program runs
    Kind,         \* Kind[p] \in {"coord", "gen"}
    Concurrent    \* may a run start while another is still running?

Agents == 1..2                       \* agent1, agent2, in the order loaded

(* Every write uses a fresh key; a run writes at most one per agent. *)
MaxKeys == Cardinality(Agents) * (1 + Cardinality(Procs))
KeyIds == 1..MaxKeys

(* key.json holds a key, or is missing, or does not parse (empty, or a   *)
(* prefix of a dump).  An address is a key, the wallet-derived "real_..." *)
(* address, or None.  The four markers are distinct from every key.      *)
Absent   == -1
Corrupt  == -2
Real     == -3
None     == 0
FileVals == {Absent, Corrupt} \cup KeyIds
Ended    == {"idle", "done", "crashed"}

VARIABLES
    wallet,    \* agentN-wallet.key: "absent", "key32", or "other" (any other length)
    file,      \* agentN/key.json
    proc,      \* each run: the step it is at and the agent it handles
    addr,      \* the address each run holds for each agent
    nextKey    \* the next fresh key

vars == <<wallet, file, proc, addr, nextKey>>

(* Before any run: the wallet files are whatever the user placed; each    *)
(* key.json is absent, holds its key, or was left corrupt by a killed run. *)
Init ==
    /\ wallet \in [Agents -> {"absent", "key32", "other"}]
    /\ file \in {f \in [Agents -> FileVals] :
                    \A i \in Agents : f[i] \in {Absent, Corrupt, i}}
    /\ proc = [p \in Procs |-> [at |-> "idle", i |-> 1]]
    /\ addr = [p \in Procs |-> [i \in Agents |-> None]]
    /\ nextKey = Cardinality(Agents) + 1

CanStart(p) ==
    /\ proc[p].at = "idle"
    /\ Concurrent \/ \A q \in Procs : proc[q].at \in Ended

(* The run goes on to the second agent, or past the key setup (after the *)
(* second agent: the coordinator's "running", the generator's "done").    *)
Next_agent(p, after) ==
    proc' = [proc EXCEPT ![p] = IF @.i = 1 THEN [at |-> IF Kind[p] = "coord"
                                                       THEN "load" ELSE "open",
                                                 i |-> 2]
                                           ELSE [at |-> after, i |-> 2]]

-----------------------------------------------------------------------------
(* tictactoe_coordinator.py *)

(* __init__ reaches the key setup: os.makedirs for both agent folders. *)
CoordStart(p) ==
    /\ Kind[p] = "coord"
    /\ CanStart(p)
    /\ proc' = [proc EXCEPT ![p].at = "load"]
    /\ UNCHANGED <<wallet, file, addr, nextKey>>

(* A faulty variant: a key.json that does not parse gives a None address. *)
Load_noneOnError(p) ==
    LET i == proc[p].i IN
    /\ Kind[p] = "coord" /\ proc[p].at = "load"
    /\ \/ /\ wallet[i] = "key32"
          /\ addr' = [addr EXCEPT ![p][i] = Real]
          /\ Next_agent(p, "running")
       \/ /\ wallet[i] # "key32" /\ file[i] # Absent
          /\ addr' = [addr EXCEPT ![p][i] = IF file[i] = Corrupt THEN None
                                            ELSE file[i]]
          /\ Next_agent(p, "running")
       \/ /\ wallet[i] # "key32" /\ file[i] = Absent
          /\ proc' = [proc EXCEPT ![p].at = "open"]
          /\ UNCHANGED addr
    /\ UNCHANGED <<wallet, file, nextKey>>

(* A faulty variant: key.json is never read, a demo key is always made. *)
Load_ignoreDemo(p) ==
    LET i == proc[p].i IN
    /\ Kind[p] = "coord" /\ proc[p].at = "load"
    /\ \/ /\ wallet[i] = "key32"
          /\ addr' = [addr EXCEPT ![p][i] = Real]
          /\ Next_agent(p, "running")
       \/ /\ wallet[i] # "key32"
          /\ proc' = [proc EXCEPT ![p].at = "open"]
          /\ UNCHANGED addr
    /\ UNCHANGED <<wallet, file, nextKey>>

(* _load_or_create_agent up to the create: a 32-byte wallet file gives   *)
(* the real address; else a key.json that loads gives its address; any   *)
(* other outcome (no file, a read or parse error) falls through to       *)
(* creating a new demo key.                                               *)
Load(p) ==
    LET i == proc[p].i IN
    /\ Kind[p] = "coord" /\ proc[p].at = "load"
    /\ \/ /\ wallet[i] = "key32"
          /\ addr' = [addr EXCEPT ![p][i] = Real]
          /\ Next_agent(p, "running")
       \/ /\ wallet[i] # "key32" /\ file[i] \in KeyIds
          /\ addr' = [addr EXCEPT ![p][i] = file[i]]
          /\ Next_agent(p, "running")
       \/ /\ wallet[i] # "key32" /\ file[i] \notin KeyIds
          /\ proc' = [proc EXCEPT ![p].at = "open"]
          /\ UNCHANGED addr
    /\ UNCHANGED <<wallet, file, nextKey>>

(* open(keyfile, 'w') truncates key.json. *)
CoordOpen(p) ==
    LET i == proc[p].i IN
    /\ Kind[p] = "coord" /\ proc[p].at = "open"
    /\ file' = [file EXCEPT ![i] = Corrupt]
    /\ proc' = [proc EXCEPT ![p].at = "dump"]
    /\ UNCHANGED <<wallet, addr, nextKey>>

(* json.dump of the new demo key (the next fresh one) and the close of the *)
(* with block; its address is returned.                                   *)
CoordDump(p) ==
    LET i == proc[p].i IN
    /\ Kind[p] = "coord" /\ proc[p].at = "dump"
    /\ file' = [file EXCEPT ![i] = nextKey]
    /\ addr' = [addr EXCEPT ![p][i] = nextKey]
    /\ nextKey' = nextKey + 1
    /\ Next_agent(p, "running")
    /\ UNCHANGED wallet

(* The rest of the run (modelled by Coordinator) ends. *)
CoordExit(p) ==
    /\ Kind[p] = "coord" /\ proc[p].at = "running"
    /\ proc' = [proc EXCEPT ![p].at = "done"]
    /\ UNCHANGED <<wallet, file, addr, nextKey>>

-----------------------------------------------------------------------------
(* generate_agent_keys.py *)

(* os.makedirs('agent_keys'); create_agent_key('agent1') begins. *)
GenStart(p) ==
    /\ Kind[p] = "gen"
    /\ CanStart(p)
    /\ proc' = [proc EXCEPT ![p].at = "open"]
    /\ UNCHANGED <<wallet, file, addr, nextKey>>

(* create_agent_key: open(keyfile, 'w') truncates key.json. *)
GenOpen(p) ==
    LET i == proc[p].i IN
    /\ Kind[p] = "gen" /\ proc[p].at = "open"
    /\ file' = [file EXCEPT ![i] = Corrupt]
    /\ proc' = [proc EXCEPT ![p].at = "dump"]
    /\ UNCHANGED <<wallet, addr, nextKey>>

(* json.dump of the new demo key, close, and the printed address. *)
GenDump(p) ==
    LET i == proc[p].i IN
    /\ Kind[p] = "gen" /\ proc[p].at = "dump"
    /\ file' = [file EXCEPT ![i] = nextKey]
    /\ addr' = [addr EXCEPT ![p][i] = nextKey]
    /\ nextKey' = nextKey + 1
    /\ Next_agent(p, "done")
    /\ UNCHANGED wallet

-----------------------------------------------------------------------------
(* A run is killed (Ctrl-C, or the coordinator's startup RuntimeError     *)
(* before the key setup); the files keep what was written.               *)
Crash(p) ==
    /\ proc[p].at \notin Ended
    /\ proc' = [proc EXCEPT ![p].at = "crashed"]
    /\ UNCHANGED <<wallet, file, addr, nextKey>>

(* Every run has ended. *)
Finished ==
    /\ \A p \in Procs : proc[p].at \in Ended \ {"idle"}
    /\ UNCHANGED vars

Next ==
    \/ \E p \in Procs :
          \/ CoordStart(p) \/ Load(p) \/ CoordOpen(p) \/ CoordDump(p)
          \/ CoordExit(p)
          \/ GenStart(p) \/ GenOpen(p) \/ GenDump(p)
          \/ Crash(p)
    \/ Finished

Spec == Init /\ [][Next]_vars

-----------------------------------------------------------------------------
(* Properties *)

(* A coordinator past its key setup holds, for each agent, the address    *)
(* the disk gives that agent: the real one for a 32-byte wallet file,     *)
(* else the key in key.json.  So a run killed mid-write, leaving an empty *)
(* or cut-off key.json, is repaired by the next coordinator run.          *)
AddressMatchesDisk ==
    \A p \in Procs :
        Kind[p] = "coord" /\ proc[p].at = "running" =>
            \A i \in Agents :
                addr[p][i] = IF wallet[i] = "key32" THEN Real ELSE file[i]

(* A complete key in key.json is replaced only by generate_agent_keys.py:  *)
(* the coordinator creates a key only when none loads.                     *)
KeyStable ==
    [][\A i \in Agents :
          file[i] \in KeyIds /\ file'[i] # file[i] =>
              \E p \in Procs : Kind[p] = "gen" /\ proc[p].at = "open"
                               /\ proc[p].i = i]_file

=============================================================================

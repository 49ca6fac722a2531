--------------------------- MODULE AdapterRegistry ---------------------------
(***************************************************************************)
(* The registry of council adapters (adapters/registry.ts): which adapters *)
(* were registered when the process started, and which of them the API may *)
(* call now.  Kill switches are environment variables, fixed while the     *)
(* process runs; the enabled flags are in a file that is read on every     *)
(* call and that operators edit while the process runs.                    *)
(***************************************************************************)
EXTENDS Naturals

CONSTANTS
  NumCouncils,  \* councils in data/council-registry.json, in the order of the file
  Envs          \* the environments a process may be started in

Council == 1 .. NumCouncils

ASSUME RegistryAssumption ==
  /\ NumCouncils \in Nat
  /\ Envs # {}
  /\ Envs \subseteq [global : BOOLEAN,          \* ADAPTER_KILL_SWITCH_GLOBAL
                     killed : SUBSET Council,   \* ADAPTER_KILL_SWITCH_<COUNCIL>
                     osKey : BOOLEAN]           \* OS_PLACES_API_KEY is set

VARIABLES
  env,         \* the environment of the running process
  configFile,  \* adapter-config.json: whether it can be read, and who is off in it
  registered   \* councils whose adapter is in the registry's map

registryVars == <<env, configFile, registered>>

(* The file may be missing, or half written by an operator's editor. *)
ConfigFile == {f \in [readable : BOOLEAN, off : SUBSET Council] : f.readable \/ f.off = {}}

RegistryTypeOK ==
  /\ env \in Envs
  /\ configFile \in ConfigFile
  /\ registered \subseteq Council

(* config[councilId]?.enabled === false; a file that cannot be read or     *)
(* parsed is taken for an empty one.                                       *)
Off(file, k) == file.readable /\ k \in file.off

(* Fault: the variable's name keeps the hyphens of the council's id, which *)
(* no shell can set.                                                       *)
KilledByGlobal(e, k) == e.global

(* The check of the kill switches, which register() and get() both make.   *)
Killed(e, k) == e.global \/ k \in e.killed

(* initializeAdapters: register() for every adapter. *)
Register(e, file) == {k \in Council : ~Killed(e, k) /\ ~Off(file, k)}

RegistryInit ==
  /\ env \in Envs
  /\ configFile \in ConfigFile
  /\ registered = Register(env, configFile)

(* isCouncilSupported: has() looks at the map and at the file. *)
Has(k) == k \in registered /\ ~Off(configFile, k)

(* getAdapter: get() returns an adapter rather than throws.  It looks at   *)
(* the kill switches, the file and the map.                                *)
Available(k) == ~Killed(env, k) /\ Has(k)

(* External: an operator writes the file; readers may find it half written. *)
EditConfig == configFile' \in ConfigFile /\ UNCHANGED <<env, registered>>

(* The process is started again. *)
RegistryRestart ==
  /\ env' \in Envs
  /\ registered' = Register(env', configFile)
  /\ UNCHANGED configFile

-----------------------------------------------------------------------------
(* What an operator means by switching an adapter on: neither kill switch  *)
(* of the process is set, and the file, if it can be read, does not say    *)
(* that the adapter is off.                                                *)
SwitchedOn(k) == ~env.global /\ k \notin env.killed /\ ~Off(configFile, k)
=============================================================================

-------------------------- MODULE CannelloniManager --------------------------
(***************************************************************************)
(* EDGAR's CAN tunnels.  With every cluster assignment the CanManager      *)
(* starts a generation of CannelloniManagers that share a termination      *)
(* token; each of them keeps one `cannelloni` process alive until it reads *)
(* the token as true.  A server process needs its port for itself.         *)
(***************************************************************************)
EXTENDS Naturals, FiniteSets

CONSTANTS
    Peers,     \* PeerIds; their VPN addresses are distinct
    Ports,     \* CAN server ports
    MaxGeneration, \* bound on the assignments applied
    MaxCrashes     \* bound on processes that fail for reasons of their own

ASSUME CannelloniAssumption == MaxGeneration \in Nat /\ MaxCrashes \in Nat

VARIABLES
    generation,  \* which AtomicBool cannelloni_termination_token holds
    terminated,  \* the AtomicBools that are true
    cannelloni,  \* the managers of this run of EDGAR, by generation and remote peer
    crashes

caVars == <<generation, terminated, cannelloni, crashes>>

Generations == 0 .. MaxGeneration
ManagerIds  == Generations \X Peers
Manager == [pc     : {"spawn", "monitor", "ended", "failed"},
            proc   : {"none", "starting", "serving", "exited"},
            server : BOOLEAN,
            port   : Ports]

NoManagers == [m \in {} |-> 0]

CAInit ==
    /\ generation = 0 /\ terminated = {}
    /\ cannelloni = NoManagers
    /\ crashes = 0

CATypeOK ==
    /\ generation \in Generations /\ terminated \subseteq Generations
    /\ DOMAIN cannelloni \subseteq ManagerIds
    /\ \A m \in DOMAIN cannelloni : cannelloni[m] \in Manager
    /\ crashes \in 0 .. MaxCrashes

----------------------------------------------------------------------------
(* setup_remote_routing_server and setup_remote_routing_client: the old     *)
(* token is set to true and replaced, then one manager is spawned for each  *)
(* port of `endpoints`, a function from remote peers to ports.              *)

NewManager(server, port) ==
    [pc |-> "spawn", proc |-> "none", server |-> server, port |-> port]

SpawnManagers(server, endpoints) ==
    /\ generation < MaxGeneration
    /\ generation' = generation + 1
    /\ cannelloni' = [m \in DOMAIN cannelloni \cup ({generation + 1} \X DOMAIN endpoints) |->
                        IF m[1] = generation + 1 THEN NewManager(server, endpoints[m[2]])
                        ELSE cannelloni[m]]
    /\ UNCHANGED crashes

\* A mutant: the token is replaced without being set, so that the old
\* generation is never told.
ReplaceTokenOnly(server, endpoints) ==
    UNCHANGED terminated /\ SpawnManagers(server, endpoints)

SetupRemoteRouting(server, endpoints) ==
    terminated' = terminated \cup {generation} /\ SpawnManagers(server, endpoints)

----------------------------------------------------------------------------
(* CannelloniManager::run, one action per turn of its two loops.            *)

Step(m, pc, proc) == cannelloni' = [cannelloni EXCEPT ![m].pc = pc, ![m].proc = proc]

\* Spawning the process fails only if the program cannot be run; the manager
\* then gives up.
Spawn(m) ==
    /\ m \in DOMAIN cannelloni /\ cannelloni[m].pc = "spawn"
    /\ \/ Step(m, "monitor", "starting") /\ UNCHANGED crashes
       \/ /\ crashes < MaxCrashes
          /\ crashes' = crashes + 1
          /\ Step(m, "failed", "none")
    /\ UNCHANGED <<generation, terminated>>

\* monitor_process: the exit status comes first and the token second.  A
\* process that exited is restarted after a second, whatever the token says.
RestartExited(m) ==
    /\ m \in DOMAIN cannelloni /\ cannelloni[m].pc = "monitor"
    /\ cannelloni[m].proc = "exited"
    /\ Step(m, "spawn", "none")
    /\ UNCHANGED <<generation, terminated, crashes>>

KillCannelloniProcess(m) ==
    /\ m \in DOMAIN cannelloni /\ cannelloni[m].pc = "monitor"
    /\ cannelloni[m].proc # "exited" /\ m[1] \in terminated
    /\ Step(m, "ended", "none")
    /\ UNCHANGED <<generation, terminated, crashes>>

Serving(m) == cannelloni[m].proc = "serving"

\* The program (external): a server exits if its port is taken, a client does not listen.
Start(m) ==
    /\ m \in DOMAIN cannelloni /\ cannelloni[m].proc = "starting"
    /\ IF cannelloni[m].server
          /\ \E n \in DOMAIN cannelloni :
                Serving(n) /\ cannelloni[n].server /\ cannelloni[n].port = cannelloni[m].port
       THEN Step(m, cannelloni[m].pc, "exited")
       ELSE Step(m, cannelloni[m].pc, "serving")
    /\ UNCHANGED <<generation, terminated, crashes>>

Crash(m) ==
    /\ m \in DOMAIN cannelloni /\ cannelloni[m].proc \in {"starting", "serving"}
    /\ crashes < MaxCrashes
    /\ crashes' = crashes + 1
    /\ Step(m, cannelloni[m].pc, "exited")
    /\ UNCHANGED <<generation, terminated>>

\* EDGAR ends: its service's processes end with it, and a new run starts with
\* a new token.
CannelloniKilled ==
    /\ generation' = 0 /\ terminated' = {} /\ cannelloni' = NoManagers
    /\ UNCHANGED crashes

CannelloniNext(m) ==
    Spawn(m) \/ RestartExited(m) \/ KillCannelloniProcess(m) \/ Start(m) \/ Crash(m)

=============================================================================

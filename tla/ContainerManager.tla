-------------------------- MODULE ContainerManager ---------------------------
(***************************************************************************)
(* EDGAR's test execution.  The ExecutorManager spawns one                 *)
(* ContainerManager for every container executor of a configuration and    *)
(* keeps the sending ends of their termination channels.  A manager starts *)
(* a container, looks at it every second, uploads its results and removes  *)
(* its results directory once the container exited.  Containers belong to  *)
(* the container engine and outlive EDGAR.                                 *)
(***************************************************************************)
EXTENDS Naturals, SequencesExt

CONSTANTS
    Executors,     \* container executors of this peer, by container name
    WithUrl,       \* the executors with a results URL
    MaxManagers,   \* bound on managers spawned
    MaxSignals,    \* bound on the times a container signals results
    MaxFailures    \* bound on failing commands and uploads

ASSUME ExecutorAssumption ==
    /\ WithUrl \subseteq Executors /\ IsFiniteSet(Executors)
    /\ {MaxManagers, MaxSignals, MaxFailures} \subseteq Nat

VARIABLES
    channels,    \* tx_termination_channels: managers that can still be told
    executions,  \* ContainerManagers spawned so far, see Execution
    containers,  \* state of every container the engine knows, by name
    failures

exVars == <<channels, executions, containers, failures>>

\* A container's name is its executor's name and a counter.
ContainerNames == Executors \X (1 .. MaxManagers)
NoContainer == <<>>
Execution == [executor : Executors,
              pc       : {"createDir", "determineName", "start", "terminate", "results",
                          "inspect", "cleanup", "ended", "failed", "lost"},
              told     : BOOLEAN,   \* its channel changed or was closed
              name     : ContainerNames \cup {NoContainer},
              uploaded : BOOLEAN,   \* results_uploaded
              dir      : BOOLEAN,   \* results_dir exists
              ready    : BOOLEAN,   \* it holds .results_ready
              signals  : 0 .. MaxSignals,
              received : BOOLEAN]   \* history: the server has results of this execution

EXInit ==
    /\ channels = {} /\ executions = <<>>
    /\ containers = [n \in {} |-> ""] /\ failures = 0

EXTypeOK ==
    /\ channels \subseteq DOMAIN executions
    /\ executions \in Seq(Execution) /\ Len(executions) <= MaxManagers
    /\ DOMAIN containers \subseteq ContainerNames
    /\ \A n \in DOMAIN containers : containers[n] \in {"running", "exited"}
    /\ failures \in 0 .. MaxFailures

----------------------------------------------------------------------------
(* ExecutorManager: terminate_executors, then create_new_executors.         *)

NewExecution(e) ==
    [executor |-> e, pc |-> "createDir", told |-> FALSE, name |-> NoContainer,
     uploaded |-> FALSE, dir |-> FALSE, ready |-> FALSE, signals |-> 0, received |-> FALSE]

ReplaceExecutors(es) ==
    /\ Len(executions) + Cardinality(es) <= MaxManagers
    /\ LET told == [x \in DOMAIN executions |->
                      IF x \in channels THEN [executions[x] EXCEPT !.told = TRUE]
                      ELSE executions[x]]
           new  == SetToSeq(es)
       IN  executions' = told \o [i \in DOMAIN new |-> NewExecution(new[i])]
    /\ channels' = DOMAIN executions' \ DOMAIN executions
    /\ UNCHANGED <<containers, failures>>

----------------------------------------------------------------------------
(* ContainerManager::run                                                    *)

At(x, pc) == x \in DOMAIN executions /\ executions[x].pc = pc
Goto(x, pc) == executions' = [executions EXCEPT ![x].pc = pc]

CreateResultsDir(x) ==
    /\ At(x, "createDir")
    /\ executions' = [executions EXCEPT ![x].pc = "determineName", ![x].dir = TRUE]
    /\ UNCHANGED containers

\* The engine never removes a container, so the first free name is the one
\* whose inspection failed last.
DetermineName(x) ==
    /\ At(x, "determineName")
    /\ LET e == executions[x].executor
           free == {i \in 1 .. MaxManagers : <<e, i>> \notin DOMAIN containers}
       IN  executions' = [executions EXCEPT ![x].pc = "start", ![x].name = <<e, Min(free)>>]
    /\ UNCHANGED containers

\* The engine refuses a name that was taken since it was determined.
StartContainer(x) ==
    /\ At(x, "start")
    /\ LET n == executions[x].name
       IN  \/ /\ n \in DOMAIN containers
              /\ Goto(x, "failed")
              /\ UNCHANGED containers
           \/ /\ n \notin DOMAIN containers
              /\ containers' = [c \in DOMAIN containers \cup {n} |->
                                  IF c = n THEN "running" ELSE containers[c]]
              /\ Goto(x, "terminate")

\* A mutant: a closed channel counts as unchanged.  terminate_executors sends
\* and drops the sender at once, so that no change is ever seen.
StopUnlessClosed(x) ==
    /\ At(x, "terminate")
    /\ Goto(x, "results")
    /\ UNCHANGED containers

\* The channel is never marked as seen: once told, the container is stopped
\* in every turn.
StopIfTold(x) ==
    /\ At(x, "terminate")
    /\ containers' = IF executions[x].told
                     THEN [containers EXCEPT ![executions[x].name] = "exited"] ELSE containers
    /\ Goto(x, "results")

\* The collection is created and the archive put there; there is nothing to
\* do for an executor without a URL.
Put(execution) ==
    [execution EXCEPT !.received = @ \/ execution.executor \in WithUrl]

\* remove_result_ready_indicator and upload_results.
Upload(x, pc, uploaded) ==
    executions' = [executions EXCEPT
        ![x] = [Put(@) EXCEPT !.pc = pc, !.ready = FALSE, !.uploaded = uploaded]]

UploadIfReady(x) ==
    /\ At(x, "results")
    /\ IF executions[x].ready THEN Upload(x, "inspect", TRUE) ELSE Goto(x, "inspect")
    /\ UNCHANGED containers

\* A mutant: nothing is uploaded for a container that did not signal results.
InspectWithoutUpload(x) ==
    /\ At(x, "inspect")
    /\ Goto(x, IF containers[executions[x].name] = "exited" THEN "cleanup" ELSE "terminate")
    /\ UNCHANGED containers

\* get_container_state; states other than Running and Exited are only logged.
Inspect(x) ==
    /\ At(x, "inspect")
    /\ \/ /\ containers[executions[x].name] = "running"
          /\ Goto(x, "terminate")
       \/ /\ containers[executions[x].name] = "exited"
          /\ IF executions[x].uploaded THEN Goto(x, "cleanup")
             ELSE Upload(x, "cleanup", FALSE)
    /\ UNCHANGED containers

CleanupResultsDir(x) ==
    /\ At(x, "cleanup")
    /\ executions' = [executions EXCEPT ![x].pc = "ended", ![x].dir = FALSE, ![x].ready = FALSE]
    /\ UNCHANGED containers

ManagerStep(x) ==
    /\ \/ CreateResultsDir(x) \/ DetermineName(x) \/ StartContainer(x) \/ StopIfTold(x)
       \/ UploadIfReady(x) \/ Inspect(x) \/ CleanupResultsDir(x)
    /\ UNCHANGED <<channels, failures>>

\* A command, a file operation or an upload fails: start logs the error and
\* the manager is gone.  Container and directory stay as they are, but for
\* the indicator, which is removed before an upload.
Ended == {"ended", "failed", "lost"}
CommandFails(x) ==
    /\ x \in DOMAIN executions /\ executions[x].pc \notin Ended
    /\ executions[x].pc = "terminate" => executions[x].told
    /\ executions[x].pc = "results" => executions[x].ready
    /\ failures < MaxFailures
    /\ failures' = failures + 1
    /\ executions' = [executions EXCEPT ![x].pc = "failed",
                        ![x].ready = @ /\ executions[x].pc \notin {"results", "inspect"}]
    /\ UNCHANGED <<channels, containers>>

----------------------------------------------------------------------------
(* The test application in the container (external).                        *)

Started(x) == /\ x \in DOMAIN executions
              /\ executions[x].pc \in {"terminate", "results", "inspect"}
Running(x) == Started(x) /\ containers[executions[x].name] = "running"

Signal(x) ==
    /\ Running(x) /\ ~executions[x].ready /\ executions[x].signals < MaxSignals
    /\ executions' = [executions EXCEPT ![x].ready = TRUE, ![x].signals = @ + 1]
    /\ UNCHANGED <<channels, containers, failures>>

Exit(x) ==
    /\ Running(x)
    /\ containers' = [containers EXCEPT ![executions[x].name] = "exited"]
    /\ UNCHANGED <<channels, executions, failures>>

\* EDGAR ends: its managers are gone, their containers and directories are not.
ManagersLost ==
    /\ channels' = {}
    /\ executions' = [x \in DOMAIN executions |->
                        IF executions[x].pc \in Ended THEN executions[x]
                        ELSE [executions[x] EXCEPT !.pc = "lost"]]
    /\ UNCHANGED <<containers, failures>>

----------------------------------------------------------------------------
\* A results directory is removed only after its container exited and the
\* server received results of it, if there is a server to send them to.
ResultsKept ==
    \A x \in DOMAIN executions : executions[x].pc \in {"cleanup", "ended"} =>
        /\ containers[executions[x].name] = "exited"
        /\ executions[x].executor \in WithUrl => executions[x].received

\* A manager that was told to terminate ends its container, although it may
\* have been told before the container was started, unless it fails or EDGAR
\* ends first.
ToldContainersStop ==
    \A x \in 1 .. MaxManagers :
        (x \in DOMAIN executions /\ executions[x].told)
            ~> (x \in DOMAIN executions /\ executions[x].pc \in Ended)

=============================================================================

----------------------------- MODULE EdgarProofs -----------------------------
(***************************************************************************)
(* Theorems about EDGAR as a service (Edgar) and about its setup           *)
(* (EdgarSetup).                                                           *)
(*                                                                         *)
(* The service, whatever steps of a configuration fail, processes crash    *)
(* and EDGAR restarts, for any peers, devices and executors: what an       *)
(* earlier configuration left never meets the bridge of the current one,   *)
(* and the results of a test are removed only when the server has them.    *)
(* Four parts of EDGAR share only the order in which the handler starts    *)
(* them, and so does the argument: the queue (ServiceInv), the handler     *)
(* with the bridge it works on (HandlerInv, KernelInv), the CAN tunnels    *)
(* (TunnelInv) and the executions with their containers (ExecutionInv).    *)
(*                                                                         *)
(* The setup, for every set of command lines and every number of           *)
(* interruptions: the client secret is never in a file that others may     *)
(* read, a dry run changes nothing, and a setup that succeeds has          *)
(* installed what was asked for.  The first two need an invariant of the   *)
(* run and the configuration file.  The third goes task by task: what a    *)
(* task does at each of its steps, which fields of the host it may touch,  *)
(* what a cut leaves of it, and that no task undoes what one before it has *)
(* done.                                                                   *)
(***************************************************************************)
EXTENDS Edgar, EdgarSetup, FiniteSetTheorems, TLAPS

-----------------------------------------------------------------------------
(* Test execution.                                                         *)

Named == {"start", "terminate", "results", "inspect", "cleanup", "ended"}
Begun == Named \ {"start"}

\* One execution among the containers cs: a manager that has its container's
\* name keeps it, its container exists once it was started, and results count
\* as uploaded, and their directory as done with, only when the server has them.
ExecutionOK(r, cs) ==
    /\ r.pc \in Named => r.name \in ContainerNames
    /\ r.pc \in {"createDir", "determineName"} => r.name = NoContainer
    /\ r.pc \in Begun => r.name \in DOMAIN cs
    /\ r.uploaded = TRUE /\ r.executor \in WithUrl => r.received = TRUE
    /\ r.pc \in {"cleanup", "ended"} =>
         cs[r.name] = "exited" /\ (r.executor \in WithUrl => r.received = TRUE)

ExecutionInv ==
    /\ EXTypeOK
    /\ \A x \in DOMAIN executions : ExecutionOK(executions[x], containers)
    /\ \A n \in DOMAIN containers : \E x \in DOMAIN executions : executions[x].name = n

\* Containers are only added, and an exited one stays exited.
Grows(old, new) ==
    /\ DOMAIN old \subseteq DOMAIN new
    /\ \A n \in DOMAIN old : old[n] = "exited" => new[n] = "exited"

LEMMA GrowsOK ==
    ASSUME NEW r, NEW old, NEW new, ExecutionOK(r, old), Grows(old, new)
    PROVE  ExecutionOK(r, new)
  BY DEF ExecutionOK, Grows, Named, Begun

LEMMA NameIsNone ==
    ASSUME NEW n \in ContainerNames
    PROVE  n # NoContainer
  <1>1. PICK e \in Executors, i \in 1 .. MaxManagers : n = <<e, i>>
    BY DEF ContainerNames
  <1>2. Len(<<e, i>>) = 2 /\ Len(<<>>) = 0
    OBVIOUS
  <1> QED
    BY <1>1, <1>2 DEF NoContainer

\* A step of the manager of execution x.
LEMMA ExecutionStep ==
    ASSUME ExecutionInv, NEW x \in DOMAIN executions, NEW r \in Execution,
           executions' = [executions EXCEPT ![x] = r],
           ExecutionOK(r, containers'), Grows(containers, containers'),
           DOMAIN containers' \subseteq ContainerNames,
           \A n \in DOMAIN containers' : containers'[n] \in {"running", "exited"},
           executions[x].name \in {NoContainer, r.name},
           \A n \in DOMAIN containers' : n \in DOMAIN containers \/ n = r.name,
           channels' = channels, failures' \in 0 .. MaxFailures
    PROVE  ExecutionInv'
  <1>1. /\ executions \in Seq(Execution) /\ Len(executions) <= MaxManagers
        /\ channels \subseteq DOMAIN executions /\ DOMAIN containers \subseteq ContainerNames
    BY DEF ExecutionInv, EXTypeOK
  <1>2. /\ executions' \in Seq(Execution) /\ Len(executions') = Len(executions)
        /\ DOMAIN executions' = DOMAIN executions
        /\ executions'[x] = r
        /\ \A y \in DOMAIN executions \ {x} : executions'[y] = executions[y]
    BY <1>1
  <1>3. EXTypeOK'
    BY <1>1, <1>2 DEF EXTypeOK
  <1>4. ASSUME NEW y \in DOMAIN executions
        PROVE  ExecutionOK(executions'[y], containers')
    BY <1>2, GrowsOK DEF ExecutionInv
  <1>5. ASSUME NEW n \in DOMAIN containers'
        PROVE  \E y \in DOMAIN executions : executions'[y].name = n
    <2>1. CASE n = r.name
      BY <1>2, <2>1
    <2>2. CASE n # r.name
      <3>1. n \in DOMAIN containers
        BY <2>2
      <3>2. PICK y \in DOMAIN executions : executions[y].name = n
        BY <3>1 DEF ExecutionInv
      <3>3. n # NoContainer
        BY <1>1, <3>1, NameIsNone
      <3>4. y # x
        BY <2>2, <3>2, <3>3
      <3> QED
        BY <1>2, <3>2, <3>4
    <2> QED
      BY <2>1, <2>2
  <1> QED
    BY <1>2, <1>3, <1>4, <1>5 DEF ExecutionInv

LEMMA LeastElement ==
    ASSUME NEW S \in SUBSET Nat, S # {}
    PROVE  Min(S) \in S
  <1>1. PICK x \in S : \A y \in S : ~ (<<y, x>> \in OpToRel(<, Nat))
    BY NatLessThanWellFounded, WFMin
  <1>2. ASSUME NEW y \in S PROVE x <= y
    <2>1. ~ (y < x)
      BY <1>1 DEF OpToRel
    <2> QED
      BY <2>1
  <1>3. \E z \in S : \A y \in S : z =< y
    BY <1>2
  <1> QED
    BY <1>3 DEF Min

\* Each container has an execution of its own, so that an execution without a
\* name leaves a number free for the name it will be given.
LEMMA FreeName ==
    ASSUME ExecutionInv, NEW x \in DOMAIN executions, NEW e \in Executors,
           executions[x].name = NoContainer
    PROVE  Min({i \in 1 .. MaxManagers : <<e, i>> \notin DOMAIN containers}) \in 1 .. MaxManagers
  <1> DEFINE free == {i \in 1 .. MaxManagers : <<e, i>> \notin DOMAIN containers}
             N == Len(executions)
             rest == (1 .. N) \ {x}
             Owner(i) == CHOOSE y \in DOMAIN executions : executions[y].name = <<e, i>>
             f == [i \in 1 .. MaxManagers |-> Owner(i)]
  <1>1. /\ N \in Nat /\ DOMAIN executions = 1 .. N /\ N <= MaxManagers /\ MaxManagers \in Nat
    BY ExecutorAssumption DEF ExecutionInv, EXTypeOK
  <1>2. ASSUME free = {} PROVE FALSE
    <2>1. ASSUME NEW i \in 1 .. MaxManagers
          PROVE  Owner(i) \in rest /\ executions[Owner(i)].name = <<e, i>>
      <3>1. <<e, i>> \in DOMAIN containers
        BY <1>2
      <3>2. \E y \in DOMAIN executions : executions[y].name = <<e, i>>
        BY <3>1 DEF ExecutionInv
      <3>3. Owner(i) \in DOMAIN executions /\ executions[Owner(i)].name = <<e, i>>
        BY <3>2
      <3>4. <<e, i>> \in ContainerNames
        BY DEF ContainerNames
      <3>5. <<e, i>> # NoContainer
        BY <3>4, NameIsNone
      <3> QED
        BY <1>1, <3>3, <3>5
    <2>2. f \in [1 .. MaxManagers -> rest]
      BY <2>1
    <2>3. ASSUME NEW i \in 1 .. MaxManagers, NEW j \in 1 .. MaxManagers, f[i] = f[j]
          PROVE  i = j
      <3>1. <<e, i>> = <<e, j>>
        BY <2>1, <2>3
      <3> QED
        BY <3>1
    <2>4. f \in Injection(1 .. MaxManagers, rest)
      BY <2>2, <2>3 DEF Injection, IsInjective
    <2>5. IsFiniteSet(rest) /\ Cardinality(rest) = N - 1
      <3>0. N \in Nat
        BY <1>1
      <3> HIDE DEF N
      <3>1. IsFiniteSet(1 .. N) /\ Cardinality(1 .. N) = N
        BY <3>0, FS_Interval
      <3> QED
        BY <1>1, <3>1, FS_RemoveElement
    <2>6. Cardinality(1 .. MaxManagers) <= Cardinality(rest)
      <3> HIDE DEF f, rest
      <3> QED
        BY <2>4, <2>5, FS_Injection
    <2>7. Cardinality(1 .. MaxManagers) = MaxManagers
      BY <1>1, FS_Interval
    <2> QED
      BY <1>1, <2>5, <2>6, <2>7
  <1>3. free \in SUBSET Nat
    OBVIOUS
  <1> HIDE DEF free
  <1>4. Min(free) \in free
    BY <1>2, <1>3, LeastElement
  <1> QED
    BY <1>4 DEF free

\* The executors of a configuration in some order.
LEMMA InSomeOrder ==
    ASSUME NEW es, IsFiniteSet(es)
    PROVE  /\ Cardinality(es) \in Nat
           /\ SetToSeq(es) \in [1 .. Cardinality(es) -> es]
           /\ \A e \in es : \E i \in 1 .. Cardinality(es) : SetToSeq(es)[i] = e
  <1> DEFINE n == Cardinality(es)
             f == SetToSeq(es)
  <1>1. n \in Nat /\ ExistsBijection(1 .. n, es)
    BY FS_CardinalityType
  <1>2. PICK g : g \in Bijection(1 .. n, es)
    BY <1>1 DEF ExistsBijection
  <1>3. g \in [1 .. n -> es] /\ IsInjective(g)
    BY <1>2 DEF Bijection, Injection
  <1>4. f \in [1 .. n -> es] /\ IsInjective(f)
    BY <1>3 DEF SetToSeq
  <1>5. f \in Injection(1 .. n, es)
    BY <1>4 DEF Injection
  <1>6. Cardinality(1 .. n) = n
    BY <1>1, FS_Interval
  <1> HIDE DEF f
  <1>7. f \in Surjection(1 .. n, es)
    BY <1>5, <1>6, FS_Injection
  <1>8. \A e \in es : \E i \in 1 .. n : f[i] = e
    BY <1>7 DEF Surjection
  <1> QED
    BY <1>1, <1>4, <1>8 DEF f

LEMMA ExecutionTyped ==
    ASSUME ExecutionInv, NEW x \in DOMAIN executions
    PROVE  /\ executions[x] \in Execution
           /\ ExecutionOK(executions[x], containers)
           /\ DOMAIN containers \subseteq ContainerNames
           /\ \A n \in DOMAIN containers : containers[n] \in {"running", "exited"}
           /\ failures \in 0 .. MaxFailures
  BY DEF ExecutionInv, EXTypeOK

\* Nothing about the containers changes.
LEMMA RecordStep ==
    ASSUME ExecutionInv, NEW x \in DOMAIN executions, NEW r \in Execution,
           executions' = [executions EXCEPT ![x] = r], containers' = containers,
           ExecutionOK(r, containers), executions[x].name \in {NoContainer, r.name},
           channels' = channels, failures' \in 0 .. MaxFailures
    PROVE  ExecutionInv'
  BY ExecutionStep, ExecutionTyped DEF Grows

LEMMA CreateResultsDirStep ==
    ASSUME ExecutionInv, NEW x, CreateResultsDir(x), UNCHANGED <<channels, failures>>
    PROVE  ExecutionInv'
  <1> DEFINE r == [executions[x] EXCEPT !.pc = "determineName", !.dir = TRUE]
  <1>1. x \in DOMAIN executions /\ executions[x].pc = "createDir"
    BY DEF CreateResultsDir, At
  <1>2. r \in Execution /\ ExecutionOK(r, containers) /\ r.name = executions[x].name
    BY <1>1, ExecutionTyped DEF Execution, ExecutionOK, Named, Begun
  <1>3. executions' = [executions EXCEPT ![x] = r] /\ containers' = containers
    BY DEF CreateResultsDir
  <1> HIDE DEF r
  <1> QED
    BY <1>1, <1>2, <1>3, RecordStep, ExecutionTyped

LEMMA DetermineNameStep ==
    ASSUME ExecutionInv, NEW x, DetermineName(x), UNCHANGED <<channels, failures>>
    PROVE  ExecutionInv'
  <1> DEFINE e == executions[x].executor
             n == <<e, Min({i \in 1 .. MaxManagers : <<e, i>> \notin DOMAIN containers})>>
             r == [executions[x] EXCEPT !.pc = "start", !.name = n]
  <1>1. x \in DOMAIN executions /\ executions[x].pc = "determineName"
    BY DEF DetermineName, At
  <1>2. executions[x].name = NoContainer /\ e \in Executors
    BY <1>1, ExecutionTyped DEF ExecutionOK, Execution
  <1>3. n \in ContainerNames
    BY <1>1, <1>2, FreeName DEF ContainerNames
  <1>4. executions' = [executions EXCEPT ![x] = r] /\ containers' = containers
    BY DEF DetermineName
  <1> HIDE DEF n
  <1>5. r \in Execution /\ ExecutionOK(r, containers)
    BY <1>1, <1>3, ExecutionTyped DEF Execution, ExecutionOK, Named, Begun
  <1> HIDE DEF r
  <1> QED
    BY <1>1, <1>2, <1>4, <1>5, RecordStep, ExecutionTyped

LEMMA StartContainerStep ==
    ASSUME ExecutionInv, NEW x, StartContainer(x), UNCHANGED <<channels, failures>>
    PROVE  ExecutionInv'
  <1> DEFINE n == executions[x].name
  <1>1. x \in DOMAIN executions /\ executions[x].pc = "start"
    BY DEF StartContainer, At
  <1>2. n \in ContainerNames
    BY <1>1, ExecutionTyped DEF ExecutionOK, Named
  <1>3. CASE n \in DOMAIN containers
    <2> DEFINE r == [executions[x] EXCEPT !.pc = "failed"]
    <2>1. r \in Execution /\ ExecutionOK(r, containers) /\ r.name = n
      BY <1>1, ExecutionTyped DEF Execution, ExecutionOK, Named, Begun
    <2>2. executions' = [executions EXCEPT ![x] = r] /\ containers' = containers
      BY <1>3 DEF StartContainer, Goto
    <2> HIDE DEF r
    <2> QED
      BY <1>1, <2>1, <2>2, RecordStep, ExecutionTyped
  <1>4. CASE n \notin DOMAIN containers
    <2> DEFINE r == [executions[x] EXCEPT !.pc = "terminate"]
               cs == [c \in DOMAIN containers \cup {n} |->
                        IF c = n THEN "running" ELSE containers[c]]
    <2>1. executions' = [executions EXCEPT ![x] = r] /\ containers' = cs
      BY <1>4 DEF StartContainer, Goto
    <2>2. /\ DOMAIN cs = DOMAIN containers \cup {n}
          /\ \A c \in DOMAIN containers : cs[c] = containers[c]
          /\ cs[n] = "running"
      BY <1>4
    <2> HIDE DEF cs
    <2>3. r \in Execution /\ ExecutionOK(r, cs) /\ r.name = n
      BY <1>1, <2>2, ExecutionTyped, ZenonT(60) DEF Execution, ExecutionOK, Named, Begun
    <2>4. Grows(containers, cs)
      BY <2>2 DEF Grows
    <2>5. DOMAIN cs \subseteq ContainerNames /\ \A c \in DOMAIN cs : cs[c] \in {"running", "exited"}
      BY <1>1, <1>2, <2>2, ExecutionTyped
    <2> HIDE DEF r
    <2> QED
      BY <1>1, <2>1, <2>2, <2>3, <2>4, <2>5, ExecutionStep, ExecutionTyped
  <1> QED
    BY <1>3, <1>4

\* A container is stopped, or ends by itself.
LEMMA Stopped ==
    ASSUME NEW cs, NEW n \in DOMAIN cs, DOMAIN cs \subseteq ContainerNames,
           \A m \in DOMAIN cs : cs[m] \in {"running", "exited"}
    PROVE  LET after == [cs EXCEPT ![n] = "exited"]
           IN  /\ Grows(cs, after) /\ DOMAIN after = DOMAIN cs
               /\ \A m \in DOMAIN after : after[m] \in {"running", "exited"}
  BY DEF Grows

LEMMA StopIfToldStep ==
    ASSUME ExecutionInv, NEW x, StopIfTold(x), UNCHANGED <<channels, failures>>
    PROVE  ExecutionInv'
  <1> DEFINE n == executions[x].name
             r == [executions[x] EXCEPT !.pc = "results"]
  <1>1. x \in DOMAIN executions /\ executions[x].pc = "terminate"
    BY DEF StopIfTold, At
  <1>2. n \in DOMAIN containers
    BY <1>1, ExecutionTyped DEF ExecutionOK, Named, Begun
  <1>3. r \in Execution /\ ExecutionOK(r, containers) /\ r.name = n
    BY <1>1, ExecutionTyped DEF Execution, ExecutionOK, Named, Begun
  <1>4. executions' = [executions EXCEPT ![x] = r]
    BY DEF StopIfTold, Goto
  <1>5. \/ containers' = containers
        \/ containers' = [containers EXCEPT ![n] = "exited"]
    BY DEF StopIfTold
  <1>6. Grows(containers, containers') /\ DOMAIN containers' = DOMAIN containers
        /\ \A m \in DOMAIN containers' : containers'[m] \in {"running", "exited"}
    <2>1. CASE containers' = containers
      BY <1>1, <2>1, ExecutionTyped DEF Grows
    <2>2. CASE containers' = [containers EXCEPT ![n] = "exited"]
      <3> HIDE DEF n
      <3> QED
        BY <1>1, <1>2, <2>2, Stopped, ExecutionTyped
    <2> QED
      BY <1>5, <2>1, <2>2
  <1>7. ExecutionOK(r, containers')
    BY <1>3, <1>6, GrowsOK
  <1> HIDE DEF r
  <1> QED
    BY <1>1, <1>3, <1>4, <1>6, <1>7, ExecutionStep, ExecutionTyped

\* After the upload the server has the results, if there is a server.
LEMMA UploadStep ==
    ASSUME ExecutionInv, NEW x \in DOMAIN executions, NEW pc, NEW uploaded \in BOOLEAN,
           Upload(x, pc, uploaded), containers' = containers,
           UNCHANGED <<channels, failures>>,
           executions[x].pc \in {"results", "inspect"},
           \/ pc = "inspect"
           \/ pc = "cleanup" /\ containers[executions[x].name] = "exited"
    PROVE  ExecutionInv'
  <1> DEFINE e == executions[x]
             r == [Put(e) EXCEPT !.pc = pc, !.ready = FALSE, !.uploaded = uploaded]
  <1>1. e \in Execution /\ ExecutionOK(e, containers)
    BY ExecutionTyped
  <1>2. Put(e) \in Execution
    BY <1>1 DEF Put, Execution
  <1>3. Put(e).name = e.name /\ Put(e).executor = e.executor
        /\ (e.executor \in WithUrl => Put(e).received = TRUE)
    BY <1>1 DEF Put, Execution
  <1>4. r \in Execution
    BY <1>2 DEF Execution
  <1>5. r.name = e.name /\ r.executor = e.executor /\ r.pc = pc
        /\ (e.executor \in WithUrl => r.received = TRUE)
    BY <1>2, <1>3 DEF Execution
  <1>6. executions' = [executions EXCEPT ![x] = r]
    BY DEF Upload
  <1> HIDE DEF r
  <1>7. ExecutionOK(r, containers)
    BY <1>1, <1>4, <1>5 DEF ExecutionOK, Named, Begun
  <1> QED
    BY <1>4, <1>5, <1>6, <1>7, RecordStep, ExecutionTyped

LEMMA GotoStep ==
    ASSUME ExecutionInv, NEW x \in DOMAIN executions, NEW pc, Goto(x, pc),
           containers' = containers, UNCHANGED <<channels, failures>>,
           \/ executions[x].pc = "results" /\ pc = "inspect"
           \/ executions[x].pc = "inspect" /\ pc = "terminate"
           \/ /\ executions[x].pc = "inspect" /\ pc = "cleanup"
              /\ containers[executions[x].name] = "exited" /\ executions[x].uploaded = TRUE
    PROVE  ExecutionInv'
  <1> DEFINE r == [executions[x] EXCEPT !.pc = pc]
  <1>1. r \in Execution /\ ExecutionOK(r, containers) /\ r.name = executions[x].name
    BY ExecutionTyped DEF Execution, ExecutionOK, Named, Begun
  <1>2. executions' = [executions EXCEPT ![x] = r]
    BY DEF Goto
  <1> HIDE DEF r
  <1> QED
    BY <1>1, <1>2, RecordStep, ExecutionTyped

LEMMA CleanupStep ==
    ASSUME ExecutionInv, NEW x, CleanupResultsDir(x), UNCHANGED <<channels, failures>>
    PROVE  ExecutionInv'
  <1> DEFINE r == [executions[x] EXCEPT !.pc = "ended", !.dir = FALSE, !.ready = FALSE]
  <1>1. x \in DOMAIN executions /\ executions[x].pc = "cleanup"
    BY DEF CleanupResultsDir, At
  <1>2. r \in Execution /\ ExecutionOK(r, containers) /\ r.name = executions[x].name
    BY <1>1, ExecutionTyped DEF Execution, ExecutionOK, Named, Begun
  <1>3. executions' = [executions EXCEPT ![x] = r] /\ containers' = containers
    BY DEF CleanupResultsDir
  <1> HIDE DEF r
  <1> QED
    BY <1>1, <1>2, <1>3, RecordStep, ExecutionTyped

LEMMA ManagerSteps ==
    ASSUME ExecutionInv, NEW x, ManagerStep(x)
    PROVE  ExecutionInv'
  <1>1. UNCHANGED <<channels, failures>>
    BY DEF ManagerStep
  <1>2. CASE UploadIfReady(x)
    <2>1. x \in DOMAIN executions /\ executions[x].pc = "results" /\ containers' = containers
      BY <1>2 DEF UploadIfReady, At
    <2> QED
      BY <1>1, <1>2, <2>1, UploadStep, GotoStep DEF UploadIfReady
  <1>3. CASE Inspect(x)
    <2>1. x \in DOMAIN executions /\ executions[x].pc = "inspect" /\ containers' = containers
      BY <1>3 DEF Inspect, At
    <2>2. executions[x].uploaded \in BOOLEAN
      BY <2>1, ExecutionTyped DEF Execution
    <2> QED
      BY <1>1, <1>3, <2>1, <2>2, UploadStep, GotoStep DEF Inspect
  <1> QED
    BY <1>1, <1>2, <1>3, CreateResultsDirStep, DetermineNameStep, StartContainerStep,
       StopIfToldStep, CleanupStep DEF ManagerStep

LEMMA EnvironmentSteps ==
    ASSUME ExecutionInv, NEW x, Signal(x) \/ Exit(x) \/ CommandFails(x)
    PROVE  ExecutionInv'
  <1>1. CASE Signal(x)
    <2> DEFINE s == executions[x].signals + 1
               r == [executions[x] EXCEPT !.ready = TRUE, !.signals = s]
    <2>1. /\ x \in DOMAIN executions /\ executions[x].signals < MaxSignals
          /\ UNCHANGED <<channels, containers, failures>>
      BY <1>1 DEF Signal, Running, Started
    <2>2. s \in 0 .. MaxSignals
      BY <2>1, ExecutionTyped, ExecutorAssumption DEF Execution
    <2>3. executions' = [executions EXCEPT ![x] = r]
      BY <1>1, <2>1, ExecutionTyped DEF Signal, Execution
    <2> HIDE DEF s
    <2>4. r \in Execution /\ ExecutionOK(r, containers) /\ r.name = executions[x].name
      BY <2>1, <2>2, ExecutionTyped DEF Execution, ExecutionOK, Named, Begun
    <2> HIDE DEF r
    <2> QED
      BY <2>1, <2>3, <2>4, RecordStep, ExecutionTyped
  <1>2. CASE CommandFails(x)
    <2> DEFINE b == executions[x].ready /\ executions[x].pc \notin {"results", "inspect"}
               r == [executions[x] EXCEPT !.pc = "failed", !.ready = b]
    <2>1. /\ x \in DOMAIN executions /\ failures' \in 0 .. MaxFailures
          /\ UNCHANGED <<channels, containers>>
      BY <1>2, ExecutionTyped, ExecutorAssumption DEF CommandFails
    <2>2. executions' = [executions EXCEPT ![x] = r]
      BY <1>2, <2>1, ExecutionTyped DEF CommandFails, Execution
    <2>3. b \in BOOLEAN
      OBVIOUS
    <2> HIDE DEF b
    <2>4. r \in Execution /\ ExecutionOK(r, containers) /\ r.name = executions[x].name
      BY <2>1, <2>3, ExecutionTyped DEF Execution, ExecutionOK, Named, Begun
    <2> HIDE DEF r
    <2> QED
      BY <2>1, <2>2, <2>4, RecordStep, ExecutionTyped
  <1>3. CASE Exit(x)
    <2> DEFINE n == executions[x].name
               cs == [containers EXCEPT ![n] = "exited"]
    <2>1. /\ x \in DOMAIN executions /\ containers' = cs
          /\ UNCHANGED <<channels, executions, failures>>
          /\ executions[x].pc \in {"terminate", "results", "inspect"}
      BY <1>3 DEF Exit, Running, Started
    <2>2. n \in DOMAIN containers
      BY <2>1, ExecutionTyped DEF ExecutionOK, Named, Begun
    <2>3. Grows(containers, cs) /\ DOMAIN cs = DOMAIN containers
          /\ \A m \in DOMAIN cs : cs[m] \in {"running", "exited"}
      <3> HIDE DEF n
      <3> QED
        BY <2>1, <2>2, Stopped, ExecutionTyped
    <2> HIDE DEF cs
    <2>4. ASSUME NEW y \in DOMAIN executions PROVE ExecutionOK(executions[y], cs)
      BY <2>3, ExecutionTyped, GrowsOK
    <2> QED
      BY <2>1, <2>3, <2>4 DEF ExecutionInv, EXTypeOK
  <1> QED
    BY <1>1, <1>2, <1>3

LEMMA ManagersLostStep ==
    ASSUME ExecutionInv, ManagersLost
    PROVE  ExecutionInv'
  <1> DEFINE Lost(r) == IF r.pc \in Ended THEN r ELSE [r EXCEPT !.pc = "lost"]
  <1>1. /\ executions \in Seq(Execution) /\ Len(executions) <= MaxManagers
        /\ UNCHANGED <<containers, failures>> /\ channels' = {}
        /\ executions' = [x \in DOMAIN executions |-> Lost(executions[x])]
    BY DEF ManagersLost, ExecutionInv, EXTypeOK
  <1>2. ASSUME NEW r \in Execution, ExecutionOK(r, containers)
        PROVE  Lost(r) \in Execution /\ Lost(r).name = r.name /\ ExecutionOK(Lost(r), containers)
    BY <1>2 DEF Execution, ExecutionOK, Named, Begun, Ended
  <1> HIDE DEF Lost
  <1>3. ASSUME NEW x \in DOMAIN executions
        PROVE  /\ executions'[x] \in Execution /\ executions'[x].name = executions[x].name
               /\ ExecutionOK(executions'[x], containers)
    BY <1>1, <1>2, ExecutionTyped
  <1>4. /\ DOMAIN executions' = DOMAIN executions /\ executions' \in Seq(Execution)
        /\ Len(executions') = Len(executions)
    BY <1>1, <1>3
  <1>5. EXTypeOK'
    BY <1>1, <1>4 DEF ExecutionInv, EXTypeOK
  <1> QED
    BY <1>1, <1>3, <1>4, <1>5 DEF ExecutionInv

LEMMA Concatenated ==
    ASSUME NEW S, NEW s \in Seq(S), NEW t \in Seq(S)
    PROVE  s \o t \in Seq(S) /\ Len(s \o t) = Len(s) + Len(t)
  OBVIOUS

LEMMA ReplaceExecutorsStep ==
    ASSUME ExecutionInv, NEW es \in SUBSET Executors, ReplaceExecutors(es)
    PROVE  ExecutionInv'
  <1> DEFINE n == Cardinality(es)
             new == SetToSeq(es)
             told == [x \in DOMAIN executions |->
                      IF x \in channels THEN [executions[x] EXCEPT !.told = TRUE]
                      ELSE executions[x]]
             begun == [i \in DOMAIN new |-> NewExecution(new[i])]
             N == Len(executions)
  <1>1. IsFiniteSet(es)
    BY FS_Subset, ExecutorAssumption
  <1>2. n \in Nat /\ new \in [1 .. n -> es]
    BY <1>1, InSomeOrder
  <1>3. /\ executions \in Seq(Execution) /\ N \in Nat /\ DOMAIN executions = 1 .. N
        /\ executions' = told \o begun /\ N + n <= MaxManagers
        /\ UNCHANGED <<containers, failures>>
        /\ channels' = DOMAIN executions' \ DOMAIN executions
    BY DEF ReplaceExecutors, ExecutionInv, EXTypeOK
  <1>4. ASSUME NEW x \in 1 .. N
        PROVE  /\ told[x] \in Execution /\ told[x].name = executions[x].name
               /\ ExecutionOK(told[x], containers)
    <2>1. executions[x] \in Execution /\ ExecutionOK(executions[x], containers)
      BY <1>3, <1>4, ExecutionTyped
    <2> QED
      BY <1>3, <2>1, ZenonT(60) DEF Execution, ExecutionOK, Named, Begun
  <1>5. told \in Seq(Execution) /\ Len(told) = N
    BY <1>3, <1>4
  <1>6. ASSUME NEW e \in Executors
        PROVE  NewExecution(e) \in Execution /\ ExecutionOK(NewExecution(e), containers)
    <2>1. NewExecution(e) \in Execution
      <3> DEFINE zero == 0
      <3>1. zero \in 0 .. MaxSignals
        BY ExecutorAssumption
      <3> HIDE DEF zero
      <3>2. NewExecution(e) = [executor |-> e, pc |-> "createDir", told |-> FALSE,
              name |-> NoContainer, uploaded |-> FALSE, dir |-> FALSE, ready |-> FALSE,
              signals |-> zero, received |-> FALSE]
        BY DEF NewExecution, zero
      <3> QED
        BY <3>1, <3>2 DEF Execution
    <2>2. /\ NewExecution(e).pc = "createDir" /\ NewExecution(e).name = NoContainer
          /\ NewExecution(e).uploaded = FALSE
      BY DEF NewExecution
    <2> QED
      BY <2>1, <2>2 DEF ExecutionOK, Named, Begun
  <1>7. begun \in Seq(Execution) /\ Len(begun) = n
        /\ \A i \in 1 .. n : begun[i] \in Execution /\ ExecutionOK(begun[i], containers)
    <2> HIDE DEF new
    <2>1. \A i \in 1 .. n : new[i] \in Executors
      BY <1>2
    <2> QED
      BY <1>2, <1>6, <2>1
  <1> HIDE DEF told, begun, n, N
  <1>8. /\ executions' \in Seq(Execution) /\ Len(executions') = N + n
        /\ DOMAIN executions' = 1 .. N + n
        /\ \A x \in 1 .. N : executions'[x] = told[x]
        /\ \A x \in 1 .. N + n : x > N => executions'[x] = begun[x - N]
    <2>1. N \in Nat /\ n \in Nat /\ executions' = told \o begun
      BY <1>2, <1>3
    <2>2. told \o begun \in Seq(Execution) /\ Len(told \o begun) = N + n
      <3>1. told \in Seq(Execution) /\ begun \in Seq(Execution) /\ Len(told) = N /\ Len(begun) = n
        BY <1>5, <1>7
      <3> QED
        BY <2>1, <3>1, Concatenated
    <2>3. ASSUME NEW x \in 1 .. N PROVE (told \o begun)[x] = told[x]
      BY <1>5, <1>7, <2>1
    <2>4. ASSUME NEW x \in 1 .. N + n, x > N PROVE (told \o begun)[x] = begun[x - N]
      BY <1>5, <1>7, <2>1, <2>4
    <2>5. DOMAIN (told \o begun) = 1 .. N + n
      BY <2>1, <2>2
    <2> QED
      BY <2>1, <2>2, <2>3, <2>4, <2>5
  <1>9. EXTypeOK'
    BY <1>3, <1>8 DEF ExecutionInv, EXTypeOK
  <1>10. ASSUME NEW x \in 1 .. N + n PROVE ExecutionOK(executions'[x], containers)
    <2>1. CASE x <= N
      <3>1. x \in 1 .. N
        BY <1>2, <1>3, <2>1
      <3>2. executions'[x] = told[x] /\ ExecutionOK(told[x], containers)
        BY <1>4, <1>8, <3>1
      <3> QED
        BY <3>2
    <2>2. CASE x > N
      <3>1. x - N \in 1 .. n
        BY <1>2, <1>3, <2>2
      <3> QED
        BY <1>7, <1>8, <2>2, <3>1
    <2>3. x <= N \/ x > N
      BY <1>2, <1>3
    <2> QED
      BY <2>1, <2>2, <2>3
  <1>11. ASSUME NEW m \in DOMAIN containers
         PROVE  \E x \in 1 .. N + n : executions'[x].name = m
    <2>1. PICK x \in 1 .. N : executions[x].name = m
      BY <1>3 DEF ExecutionInv
    <2>2. x \in 1 .. N + n
      BY <1>2, <1>3
    <2> QED
      BY <1>4, <1>8, <2>1, <2>2
  <1> QED
    BY <1>3, <1>8, <1>9, <1>10, <1>11 DEF ExecutionInv

LEMMA InitialExecutions == EXInit => ExecutionInv
  <1> SUFFICES ASSUME EXInit PROVE ExecutionInv
    OBVIOUS
  <1>1. executions = <<>> /\ channels = {} /\ DOMAIN containers = {} /\ failures = 0
    BY DEF EXInit
  <1>2. executions \in Seq(Execution) /\ Len(executions) = 0 /\ DOMAIN executions = {}
    BY <1>1
  <1> QED
    BY <1>1, <1>2, ExecutorAssumption DEF ExecutionInv, EXTypeOK

LEMMA ExecutionsUnchanged ==
    ASSUME ExecutionInv, UNCHANGED exVars
    PROVE  ExecutionInv'
  BY DEF ExecutionInv, EXTypeOK, exVars

LEMMA ResultsAreKept == ExecutionInv => ResultsKept
  BY DEF ExecutionInv, ExecutionOK, ResultsKept

-----------------------------------------------------------------------------
(* CAN tunnels.                                                            *)

\* No manager is of a generation that has not begun.
TunnelInv ==
    /\ CATypeOK
    /\ \A m \in DOMAIN cannelloni : m[1] <= generation

LEMMA TunnelStep ==
    ASSUME TunnelInv, NEW m, CannelloniNext(m)
    PROVE  TunnelInv'
  <1>0. m \in DOMAIN cannelloni
    BY DEF CannelloniNext, Spawn, RestartExited, KillCannelloniProcess, Start, Crash
  <1>1. cannelloni[m] \in Manager
    BY <1>0 DEF TunnelInv, CATypeOK
  <1>2. ASSUME NEW pc \in {"spawn", "monitor", "ended", "failed"},
               NEW proc \in {"none", "starting", "serving", "exited"},
               Step(m, pc, proc)
        PROVE  /\ DOMAIN cannelloni' = DOMAIN cannelloni
               /\ \A k \in DOMAIN cannelloni' : cannelloni'[k] \in Manager
    <2> DEFINE r == [cannelloni[m] EXCEPT !.pc = pc, !.proc = proc]
    <2>1. r \in Manager
      BY <1>1 DEF Manager
    <2>2. cannelloni' = [cannelloni EXCEPT ![m] = r]
      BY <1>0, <1>1, <1>2 DEF Step, Manager
    <2> HIDE DEF r
    <2> QED
      BY <1>0, <2>1, <2>2 DEF TunnelInv, CATypeOK
  <1>3. cannelloni[m].pc \in {"spawn", "monitor", "ended", "failed"}
    BY <1>1 DEF Manager
  <1>4. \E pc \in {"spawn", "monitor", "ended", "failed"},
           proc \in {"none", "starting", "serving", "exited"} : Step(m, pc, proc)
    BY <1>3 DEF CannelloniNext, Spawn, RestartExited, KillCannelloniProcess, Start, Crash
  <1>5. /\ DOMAIN cannelloni' = DOMAIN cannelloni
        /\ \A k \in DOMAIN cannelloni' : cannelloni'[k] \in Manager
    BY <1>2, <1>4
  <1>6. UNCHANGED <<generation, terminated>> /\ crashes' \in 0 .. MaxCrashes
    BY CannelloniAssumption DEF TunnelInv, CATypeOK, CannelloniNext, Spawn, RestartExited,
       KillCannelloniProcess, Start, Crash
  <1> QED
    BY <1>5, <1>6 DEF TunnelInv, CATypeOK

LEMMA SetupRemoteRoutingStep ==
    ASSUME TunnelInv, NEW server \in BOOLEAN, NEW endpoints,
           DOMAIN endpoints \subseteq Peers, \A p \in DOMAIN endpoints : endpoints[p] \in Ports,
           SetupRemoteRouting(server, endpoints)
    PROVE  TunnelInv'
  <1>1. /\ generation \in Generations /\ generation + 1 \in Generations
        /\ generation' = generation + 1 /\ crashes' = crashes
        /\ terminated' = terminated \cup {generation}
    BY CannelloniAssumption DEF SetupRemoteRouting, SpawnManagers, TunnelInv, CATypeOK, Generations
  <1> DEFINE new == {generation + 1} \X DOMAIN endpoints
             f == [m \in DOMAIN cannelloni \cup new |->
                     IF m[1] = generation + 1 THEN NewManager(server, endpoints[m[2]])
                     ELSE cannelloni[m]]
  <1>2. cannelloni' = f
    BY DEF SetupRemoteRouting, SpawnManagers
  <1>3. DOMAIN f = DOMAIN cannelloni \cup new
    OBVIOUS
  <1>4. new \subseteq ManagerIds
    BY <1>1 DEF ManagerIds
  <1>5. ASSUME NEW port \in Ports PROVE NewManager(server, port) \in Manager
    BY DEF NewManager, Manager
  <1>6. ASSUME NEW m \in new PROVE f[m] \in Manager
    <2>1. m[1] = generation + 1 /\ m[2] \in DOMAIN endpoints
      OBVIOUS
    <2> QED
      BY <1>5, <2>1
  <1>7. ASSUME NEW m \in DOMAIN cannelloni, m \notin new PROVE f[m] \in Manager
    <2>1. m[1] # generation + 1
      <3>1. m[1] \in Nat /\ m[1] <= generation /\ generation \in Nat
        BY <1>7 DEF TunnelInv, CATypeOK, ManagerIds, Generations
      <3> QED
        BY <3>1
    <2> QED
      BY <1>7, <2>1 DEF TunnelInv, CATypeOK
  <1>8. ASSUME NEW m \in DOMAIN f PROVE m[1] <= generation + 1
    <2>1. CASE m \in new
      BY <1>1, <2>1 DEF Generations
    <2>2. CASE m \in DOMAIN cannelloni
      <3>1. m[1] \in Nat /\ m[1] <= generation /\ generation \in Nat
        BY <2>2 DEF TunnelInv, CATypeOK, ManagerIds, Generations
      <3> QED
        BY <3>1
    <2> QED
      BY <1>3, <2>1, <2>2
  <1> QED
    BY <1>1, <1>2, <1>3, <1>4, <1>6, <1>7, <1>8 DEF TunnelInv, CATypeOK

LEMMA CannelloniKilledStep ==
    ASSUME TunnelInv, CannelloniKilled
    PROVE  TunnelInv'
  <1>1. DOMAIN NoManagers = {}
    BY DEF NoManagers
  <1> QED
    BY <1>1, CannelloniAssumption DEF TunnelInv, CATypeOK, CannelloniKilled, Generations

LEMMA InitialTunnels == CAInit => TunnelInv
  <1>1. DOMAIN NoManagers = {}
    BY DEF NoManagers
  <1> QED
    BY <1>1, CannelloniAssumption DEF CAInit, TunnelInv, CATypeOK, Generations

LEMMA TunnelsUnchanged ==
    ASSUME TunnelInv, UNCHANGED caVars
    PROVE  TunnelInv'
  BY DEF TunnelInv, CATypeOK, caVars

-----------------------------------------------------------------------------
(* CARL and the queues.                                                    *)

LEMMA ParameterSet ==
    ASSUME NEW s \in Seq(Bridges), NEW b \in Bridges
    PROVE  SetParameter(s, b) \in Seq(Bridges)
  <1> DEFINE I == {i \in 1 .. Len(s) : s[i] = b}
             i == Min(I)
  <1>1. RemoveFirst(s, b) \in Seq(Bridges)
    <2>1. CASE I = {}
      BY <2>1 DEF RemoveFirst
    <2>2. CASE I # {}
      <3>1. i \in 1 .. Len(s)
        <4>1. I \in SUBSET Nat
          OBVIOUS
        <4> QED
          BY <2>2, <4>1, LeastElement
      <3>2. RemoveFirst(s, b) = RemoveAt(s, i)
        BY <2>2 DEF RemoveFirst, SelectInSeq
      <3> HIDE DEF i
      <3>3. ASSUME NEW j \in Nat PROVE SubSeq(s, j + 1, Len(s)) \in Seq(Bridges)
        OBVIOUS
      <3>4. SubSeq(s, 1, i - 1) \in Seq(Bridges) /\ SubSeq(s, i + 1, Len(s)) \in Seq(Bridges)
        BY <3>1, <3>3
      <3> QED
        BY <3>2, <3>4, Concatenated DEF RemoveAt
    <2> QED
      BY <2>1, <2>2
  <1> QED
    BY <1>1 DEF SetParameter

\* What EDGAR is sent and has still to apply.
ServiceInv ==
    /\ carl \in [desc : Descriptors, stored : Configuration, made : 0 .. MaxAssignments]
    /\ service \in {"down", "up"}
    /\ inbox \in Seq(Configuration) /\ queue \in Seq(Configuration)
    /\ Len(queue) <= QueueCapacity
    /\ root \in BOOLEAN /\ faults \in 0 .. MaxFaults /\ restarts \in 0 .. MaxRestarts
    /\ faulty \in BOOLEAN

LEMMA NothingConfigured == NoConfiguration \in Configuration
  <1>1. <<>> \in Seq(Bridges)
    OBVIOUS
  <1> QED
    BY <1>1 DEF NoConfiguration, Configuration

LEMMA DescriptorTyped ==
    ASSUME NEW d \in Descriptors
    PROVE  /\ d.bridge \in Bridges /\ d.devices \subseteq Ethernet \cup Can
           /\ d.executors \subseteq Executors
  BY EdgarAssumption

LEMMA BoundsAreNumbers ==
    /\ MaxAssignments \in Nat /\ MaxRestarts \in Nat /\ MaxFaults \in Nat
    /\ QueueCapacity \in Nat /\ QueueCapacity >= 1
  BY EdgarAssumption

LEMMA AssignClusterStep ==
    ASSUME ServiceInv, NEW a \in Assignments, AssignCluster(a)
    PROVE  ServiceInv'
  <1> DEFINE old == carl.stored
             bs == SetParameter(old.bridges, carl.desc.bridge)
             n == carl.made + 1
             new == [assignment |-> a, devices |-> old.devices \cup carl.desc.devices,
                     bridges |-> bs, executors |-> old.executors \cup carl.desc.executors]
  <1>1. carl.desc \in Descriptors /\ old \in Configuration /\ carl.made \in 0 .. MaxAssignments
    BY DEF ServiceInv
  <1>2. n \in 0 .. MaxAssignments
    <2>1. carl.made < MaxAssignments
      BY DEF AssignCluster
    <2> QED
      BY <1>1, <2>1, BoundsAreNumbers
  <1>3. bs \in Seq(Bridges)
    BY <1>1, ParameterSet, DescriptorTyped DEF Configuration
  <1>4. carl' = [carl EXCEPT !.stored = new, !.made = n] /\ inbox' = Append(inbox, new)
    BY DEF AssignCluster
  <1>5. UNCHANGED <<service, queue, root, faults, restarts, faulty>>
    BY DEF AssignCluster
  <1> HIDE DEF bs, n
  <1>6. new \in Configuration
    BY <1>1, <1>3, DescriptorTyped DEF Configuration
  <1> HIDE DEF new
  <1>7. carl' \in [desc : Descriptors, stored : Configuration, made : 0 .. MaxAssignments]
    BY <1>2, <1>4, <1>6 DEF ServiceInv
  <1>8. inbox' \in Seq(Configuration)
    <2>1. inbox \in Seq(Configuration)
      BY DEF ServiceInv
    <2> QED
      BY <1>4, <1>6, <2>1
  <1> QED
    BY <1>5, <1>7, <1>8 DEF ServiceInv

-----------------------------------------------------------------------------
(* The handler and the kernel's interfaces.                                *)

SettingUp == {"gre", "join", "can", "remote"}

\* The steps of setup_cluster run only for a configuration with an assignment
\* and a bridge.
HandlerInv ==
    /\ handler \in [pc : {"idle", "bridge", "gre", "join", "can", "remote", "executors",
                          "metrics", "panicked"}, conf : Configuration]
    /\ handler.pc \in SettingUp => Conf.bridges # <<>> /\ Conf.assignment # None
    /\ metrics \subseteq Peers \ {Self}

\* Interfaces are joined only to bridges that exist.
KernelOK(k) ==
    /\ k \in Kernel
    /\ \A i \in Ethernet : k.device[i] \in k.bridges \cup {None}
    /\ \A p \in Peers : k.tunnel[p] \in k.bridges \cup {None, "absent"}

OnlyWanted(k, b, wanted) ==
    b # None => /\ \A i \in Ethernet : k.device[i] = b => i \in wanted
                /\ \A p \in Peers : k.tunnel[p] = b => p \in wanted

\* Between the recreation of the bridges and the end of setup_cluster's Ethernet
\* part, the bridge on record is the one that is being set up, and what is
\* wanted on it is what the remaining steps will join.
KernelInv ==
    /\ KernelOK(kernel)
    /\ isolated.bridge \in Joined /\ isolated.wanted \subseteq Ethernet \cup Peers
    /\ OnlyWanted(kernel, isolated.bridge, isolated.wanted)
    /\ handler.pc \in {"gre", "join"} /\ isolated.bridge # None =>
         isolated.bridge = Bridge /\ isolated.wanted = EthernetOf(Conf) \cup Remotes

LEMMA HandlerTyped ==
    ASSUME HandlerInv
    PROVE  /\ Conf \in Configuration /\ Conf.bridges \in Seq(Bridges)
           /\ Conf.executors \subseteq Executors /\ Conf.devices \subseteq Ethernet \cup Can
           /\ Conf.assignment \in Assignments \cup {None}
  BY DEF HandlerInv, Conf, Configuration

LEMMA ProceedTyped ==
    ASSUME HandlerInv,
           NEW pc \in {"idle", "bridge", "gre", "join", "can", "remote", "executors",
                       "metrics", "panicked"}, Proceed(pc)
    PROVE  /\ handler' \in [pc : {"idle", "bridge", "gre", "join", "can", "remote",
                                  "executors", "metrics", "panicked"}, conf : Configuration]
           /\ handler'.pc = pc /\ handler'.conf = handler.conf
  BY DEF HandlerInv, Proceed

LEMMA AssignmentTyped ==
    ASSUME HandlerInv, Conf.assignment # None
    PROVE  /\ Conf.assignment \in Assignments
           /\ Members \subseteq Peers /\ Self \in Members /\ Conf.assignment.leader \in Members
           /\ \A p \in Members : Conf.assignment.port[p] \in Ports
           /\ IsLeader \in BOOLEAN /\ Remotes \subseteq Members \ {Self}
  <1>1. Conf.assignment \in Assignments
    BY HandlerTyped
  <1>2. /\ Members \subseteq Peers /\ {Self, Conf.assignment.leader} \subseteq Members
        /\ \A p \in Members : Conf.assignment.port[p] \in Ports
    BY <1>1, EdgarAssumption DEF Members
  <1> QED
    BY <1>1, <1>2 DEF Remotes, IsLeader

LEMMA BridgeTyped ==
    ASSUME HandlerInv, Conf.bridges # <<>>
    PROVE  Bridge \in Bridges /\ Bridge # None /\ Bridge # "absent" /\ Bridge = Conf.bridges[1]
           /\ Len(Conf.bridges) \in Nat /\ 1 <= Len(Conf.bridges)
  <1>1. Conf.bridges \in Seq(Bridges)
    BY HandlerTyped
  <1>2. Bridge \in Bridges /\ Bridge = Conf.bridges[1] /\ Len(Conf.bridges) \in Nat
        /\ Len(Conf.bridges) # 0
    BY <1>1 DEF Bridge
  <1> QED
    BY <1>2, EdgarAssumption

LEMMA Deleted ==
    ASSUME NEW k, KernelOK(k), NEW bs \in SUBSET Bridges
    PROVE  /\ KernelOK(DeleteBridges(k, bs))
           /\ DeleteBridges(k, bs).bridges = k.bridges \ bs
           /\ \A i \in Ethernet : /\ DeleteBridges(k, bs).device[i] \notin bs
                                  /\ DeleteBridges(k, bs).device[i] \in {None, k.device[i]}
           /\ \A p \in Peers : /\ DeleteBridges(k, bs).tunnel[p] \notin bs
                               /\ DeleteBridges(k, bs).tunnel[p] \in {None, k.tunnel[p]}
  <1> DEFINE dev == [i \in Ethernet |-> Released(k.device[i], bs)]
             tun == [p \in Peers |-> Released(k.tunnel[p], bs)]
             left == k.bridges \ bs
             d == [k EXCEPT !.bridges = left, !.device = dev, !.tunnel = tun]
  <1>1. k \in Kernel /\ k.bridges \subseteq Bridges
    BY DEF KernelOK, Kernel
  <1>2. DeleteBridges(k, bs) = d
    BY <1>1 DEF DeleteBridges, Kernel
  <1>3. None \notin bs /\ "absent" \notin bs
    BY EdgarAssumption
  <1>4. ASSUME NEW i \in Ethernet
        PROVE  dev[i] \in left \cup {None} /\ dev[i] \notin bs /\ dev[i] \in {None, k.device[i]}
    BY <1>3 DEF KernelOK, Released
  <1>5. ASSUME NEW p \in Peers
        PROVE  /\ tun[p] \in left \cup {None, "absent"} /\ tun[p] \notin bs
               /\ tun[p] \in {None, k.tunnel[p]}
    BY <1>3 DEF KernelOK, Released
  <1>6. dev \in [Ethernet -> Joined] /\ tun \in [Peers -> Joined \cup {"absent"}]
    BY <1>1, <1>4, <1>5 DEF Joined
  <1> HIDE DEF dev, tun
  <1>7. d \in Kernel /\ d.bridges = left /\ d.device = dev /\ d.tunnel = tun
    BY <1>1, <1>6 DEF Kernel
  <1> HIDE DEF d
  <1> QED
    BY <1>2, <1>4, <1>5, <1>7 DEF KernelOK

LEMMA RecreatedIsEmpty ==
    ASSUME NEW k, KernelOK(k), NEW bs \in SUBSET Bridges
    PROVE  /\ KernelOK(Recreated(k, bs))
           /\ \A i \in Ethernet : /\ Recreated(k, bs).device[i] \notin bs
                                  /\ Recreated(k, bs).device[i] \in {None, k.device[i]}
           /\ \A p \in Peers : /\ Recreated(k, bs).tunnel[p] \notin bs
                               /\ Recreated(k, bs).tunnel[p] \in {None, k.tunnel[p]}
  <1> DEFINE d == DeleteBridges(k, bs)
             all == d.bridges \cup bs
             e == [d EXCEPT !.bridges = all]
  <1>1. KernelOK(d)
    BY Deleted
  <1>2. Recreated(k, bs) = e
    BY <1>1 DEF Recreated, CreateEmptyBridges, KernelOK, Kernel
  <1>3. /\ \A i \in Ethernet : d.device[i] \notin bs /\ d.device[i] \in {None, k.device[i]}
        /\ \A p \in Peers : d.tunnel[p] \notin bs /\ d.tunnel[p] \in {None, k.tunnel[p]}
    BY Deleted
  <1> HIDE DEF d
  <1>4. /\ e \in Kernel /\ e.bridges = d.bridges \cup bs /\ e.device = d.device
        /\ e.tunnel = d.tunnel
    BY <1>1 DEF KernelOK, Kernel
  <1> HIDE DEF e
  <1>5. KernelOK(e)
    BY <1>1, <1>4 DEF KernelOK
  <1> QED
    BY <1>2, <1>3, <1>4, <1>5

LEMMA TakeStep ==
    ASSUME ServiceInv, HandlerInv, KernelInv, Take
    PROVE  ServiceInv' /\ HandlerInv' /\ KernelInv'
  <1>1. queue \in Seq(Configuration) /\ queue # <<>>
    BY DEF ServiceInv, Take
  <1>2. /\ Head(queue) \in Configuration /\ Tail(queue) \in Seq(Configuration)
        /\ Len(Tail(queue)) = Len(queue) - 1 /\ Len(queue) \in Nat
    BY <1>1
  <1>3. handler' = [pc |-> "bridge", conf |-> Head(queue)] /\ queue' = Tail(queue)
        /\ faulty' = FALSE
        /\ UNCHANGED <<carl, service, inbox, kernel, metrics, root, faults, restarts, isolated>>
    BY DEF Take
  <1>4. Len(queue') <= QueueCapacity
    BY <1>2, <1>3, BoundsAreNumbers DEF ServiceInv
  <1>5. ServiceInv'
    BY <1>2, <1>3, <1>4 DEF ServiceInv
  <1>6. HandlerInv'
    BY <1>2, <1>3 DEF HandlerInv, SettingUp
  <1>7. KernelInv'
    BY <1>3 DEF KernelInv
  <1> QED
    BY <1>5, <1>6, <1>7

LEMMA RecreateBridgesStep ==
    ASSUME HandlerInv, KernelInv, RecreateBridges
    PROVE  HandlerInv' /\ KernelInv'
  <1> DEFINE bs == Conf.bridges
             done(n) == {bs[i] : i \in 1 .. n}
             after(n) == Recreated(kernel, done(n))
  <1>1. bs \in Seq(Bridges) /\ Len(bs) \in Nat
    BY HandlerTyped
  <1>2. Proceed(AfterBridges) /\ metrics' = metrics
    BY DEF RecreateBridges
  <1>3. AfterBridges \in {"gre", "executors"} /\ (AfterBridges = "gre" <=> SetupCluster)
    BY DEF AfterBridges
  <1>4. /\ handler' \in [pc : {"idle", "bridge", "gre", "join", "can", "remote",
                               "executors", "metrics", "panicked"}, conf : Configuration]
        /\ handler'.pc = AfterBridges /\ handler'.conf = handler.conf
    BY <1>2, <1>3, ProceedTyped
  <1>5. HandlerInv'
    BY <1>2, <1>3, <1>4 DEF HandlerInv, SettingUp, SetupCluster, Conf
  <1>6. PICK n \in 0 .. Len(bs) :
           \/ /\ n = Len(bs)
              /\ kernel' = after(n)
              /\ isolated' = IF n = 0 THEN isolated
                             ELSE [bridge |-> Bridge,
                                   wanted |-> IF Conf.assignment = None THEN {}
                                              ELSE EthernetOf(Conf) \cup Remotes]
           \/ /\ n < Len(bs)
              /\ kernel' \in {after(n), DeleteBridges(after(n), {bs[n + 1]})}
              /\ isolated' = [bridge |-> None, wanted |-> {}]
    BY DEF RecreateBridges
  <1>7. done(n) \in SUBSET Bridges
    BY <1>1
  <1>8. /\ KernelOK(after(n))
        /\ \A i \in Ethernet : after(n).device[i] \notin done(n)
                               /\ after(n).device[i] \in {None, kernel.device[i]}
        /\ \A p \in Peers : after(n).tunnel[p] \notin done(n)
                            /\ after(n).tunnel[p] \in {None, kernel.tunnel[p]}
    BY <1>7, RecreatedIsEmpty DEF KernelInv
  <1> HIDE DEF after
  <1>9. CASE n = Len(bs) /\ n # 0 /\ kernel' = after(n)
             /\ isolated' = [bridge |-> Bridge,
                             wanted |-> IF Conf.assignment = None THEN {}
                                        ELSE EthernetOf(Conf) \cup Remotes]
    <2>1. bs # <<>>
      BY <1>1, <1>9
    <2>2. Bridge \in Bridges /\ Bridge = bs[1] /\ Bridge \in done(n)
      BY <1>9, <2>1, BridgeTyped
    <2>3. Conf.assignment # None => Remotes \subseteq Peers
      BY AssignmentTyped
    <2>4. isolated'.bridge \in Joined /\ isolated'.wanted \subseteq Ethernet \cup Peers
      BY <1>9, <2>2, <2>3 DEF Joined, EthernetOf
    <2>5. OnlyWanted(kernel', isolated'.bridge, isolated'.wanted)
      BY <1>8, <1>9, <2>2 DEF OnlyWanted
    <2>6. handler'.pc \in {"gre", "join"} =>
             isolated'.bridge = Bridge' /\ isolated'.wanted = EthernetOf(Conf') \cup Remotes'
      BY <1>3, <1>4, <1>9 DEF SetupCluster, Bridge, Remotes, IsLeader, Members, Conf, EthernetOf
    <2> QED
      BY <1>5, <1>8, <1>9, <2>4, <2>5, <2>6 DEF KernelInv
  <1>10. CASE n = Len(bs) /\ n = 0 /\ kernel' = after(n) /\ isolated' = isolated
    <2>1. bs = <<>>
      BY <1>10, BridgeTyped
    <2>2. handler'.pc \notin {"gre", "join"}
      BY <1>3, <1>4, <2>1 DEF SetupCluster
    <2>3. OnlyWanted(kernel', isolated'.bridge, isolated'.wanted)
      BY <1>8, <1>10 DEF OnlyWanted, KernelInv
    <2> QED
      BY <1>5, <1>8, <1>10, <2>2, <2>3 DEF KernelInv
  <1>11. CASE n < Len(bs) /\ kernel' \in {after(n), DeleteBridges(after(n), {bs[n + 1]})}
              /\ isolated' = [bridge |-> None, wanted |-> {}]
    <2>1. {bs[n + 1]} \in SUBSET Bridges
      BY <1>1, <1>11
    <2>2. KernelOK(DeleteBridges(after(n), {bs[n + 1]}))
      BY <1>8, <2>1, Deleted
    <2> QED
      BY <1>5, <1>8, <1>11, <2>2 DEF KernelInv, Joined, OnlyWanted
  <1> QED
    BY <1>5, <1>6, <1>9, <1>10, <1>11

LEMMA TunnelsReplaced ==
    ASSUME KernelOK(kernel), NEW t,
           t = [p \in Peers |-> t[p]],
           \A p \in Peers : t[p] \in kernel.bridges \cup {None, "absent"},
           kernel' = [kernel EXCEPT !.tunnel = t]
    PROVE  KernelOK(kernel') /\ kernel'.device = kernel.device /\ kernel'.tunnel = t
  <1>1. kernel \in Kernel /\ kernel.bridges \subseteq Bridges
    BY DEF KernelOK, Kernel
  <1>2. t \in [Peers -> Joined \cup {"absent"}]
    BY <1>1 DEF Joined
  <1>3. /\ kernel' \in Kernel /\ kernel'.bridges = kernel.bridges
        /\ kernel'.device = kernel.device /\ kernel'.tunnel = t
    BY <1>1, <1>2 DEF Kernel
  <1> QED
    BY <1>3 DEF KernelOK

LEMMA SetupEthernetGreInterfacesStep ==
    ASSUME HandlerInv, KernelInv, SetupEthernetGreInterfaces
    PROVE  HandlerInv' /\ KernelInv'
  <1>1. /\ handler.pc = "gre" /\ Conf.bridges # <<>> /\ Conf.assignment # None
        /\ UNCHANGED <<metrics, isolated>>
    BY DEF SetupEthernetGreInterfaces, Doing, HandlerInv, SettingUp
  <1>2. /\ handler' \in [pc : {"idle", "bridge", "gre", "join", "can", "remote", "executors",
                               "metrics", "panicked"}, conf : Configuration]
        /\ handler'.pc \in {"join", "executors"} /\ handler'.conf = handler.conf
    BY ProceedTyped DEF SetupEthernetGreInterfaces
  <1>3. HandlerInv'
    BY <1>1, <1>2 DEF HandlerInv, SettingUp, Conf
  <1>4. /\ KernelOK(kernel) /\ Bridge \in Bridges /\ Bridge # None /\ Bridge # "absent"
        /\ OnlyWanted(kernel, isolated.bridge, isolated.wanted)
        /\ isolated.bridge \in Joined
        /\ isolated.bridge # None =>
              isolated.bridge = Bridge /\ isolated.wanted = EthernetOf(Conf) \cup Remotes
    BY <1>1, BridgeTyped DEF KernelInv
  <1>5. KernelOK(kernel') /\ OnlyWanted(kernel', isolated.bridge, isolated.wanted)
    <2>1. ASSUME NEW left \in SUBSET Peers, NEW joined \in SUBSET Remotes,
                 joined # {} => Bridge \in kernel.bridges,
                 kernel' = [kernel EXCEPT !.tunnel = Tunnels(left, joined)]
          PROVE  KernelOK(kernel') /\ OnlyWanted(kernel', isolated.bridge, isolated.wanted)
      <3> DEFINE t == Tunnels(left, joined)
      <3>1. /\ t = [p \in Peers |-> t[p]]
            /\ \A p \in Peers : /\ t[p] \in kernel.bridges \cup {None, "absent"}
                                /\ t[p] = Bridge => p \in joined
        BY <1>4, <2>1 DEF Tunnels
      <3> HIDE DEF t
      <3>2. KernelOK(kernel') /\ kernel'.device = kernel.device /\ kernel'.tunnel = t
        BY <1>4, <2>1, <3>1, TunnelsReplaced DEF t
      <3> QED
        BY <1>4, <2>1, <3>1, <3>2 DEF OnlyWanted
    <2>2. ASSUME NEW left \in SUBSET Peers,
                 kernel' = [kernel EXCEPT !.tunnel =
                              [p \in Peers |-> IF p \in left THEN @[p] ELSE "absent"]]
          PROVE  KernelOK(kernel') /\ OnlyWanted(kernel', isolated.bridge, isolated.wanted)
      <3> DEFINE t == [p \in Peers |-> IF p \in left THEN kernel.tunnel[p] ELSE "absent"]
      <3>1. kernel' = [kernel EXCEPT !.tunnel = t]
        BY <1>4, <2>2 DEF KernelOK, Kernel
      <3>2. /\ t = [p \in Peers |-> t[p]]
            /\ \A p \in Peers : /\ t[p] \in kernel.bridges \cup {None, "absent"}
                                /\ t[p] \in {kernel.tunnel[p], "absent"}
        BY <1>4 DEF KernelOK
      <3> HIDE DEF t
      <3>3. KernelOK(kernel') /\ kernel'.device = kernel.device /\ kernel'.tunnel = t
        BY <1>4, <3>1, <3>2, TunnelsReplaced
      <3> QED
        BY <1>4, <3>2, <3>3 DEF OnlyWanted
    <2>3. Remotes \subseteq Peers
      BY <1>1, AssignmentTyped
    <2>4. \/ /\ Bridge \in kernel.bridges \/ Remotes = {}
             /\ kernel' = [kernel EXCEPT !.tunnel = Tunnels({}, Remotes)]
          \/ \E left \in SUBSET Peers :
                kernel' = [kernel EXCEPT !.tunnel =
                             [p \in Peers |-> IF p \in left THEN @[p] ELSE "absent"]]
          \/ \E joined \in SUBSET Remotes :
                /\ joined # {} => Bridge \in kernel.bridges
                /\ \E p \in Remotes \ joined :
                      kernel' = [kernel EXCEPT !.tunnel = Tunnels({p}, joined)]
      BY DEF SetupEthernetGreInterfaces
    <2>5. CASE /\ Bridge \in kernel.bridges \/ Remotes = {}
               /\ kernel' = [kernel EXCEPT !.tunnel = Tunnels({}, Remotes)]
      BY <2>1, <2>5
    <2>6. ASSUME NEW joined \in SUBSET Remotes, NEW p \in Remotes \ joined,
                 joined # {} => Bridge \in kernel.bridges,
                 kernel' = [kernel EXCEPT !.tunnel = Tunnels({p}, joined)]
          PROVE  KernelOK(kernel') /\ OnlyWanted(kernel', isolated.bridge, isolated.wanted)
      <3>1. {p} \in SUBSET Peers
        BY <2>3
      <3> QED
        BY <2>1, <2>6, <3>1
    <2> QED
      BY <2>2, <2>4, <2>5, <2>6
  <1>6. handler'.pc \in {"gre", "join"} /\ isolated'.bridge # None =>
           isolated'.bridge = Bridge' /\ isolated'.wanted = EthernetOf(Conf') \cup Remotes'
    BY <1>1, <1>2, <1>4 DEF Bridge, Remotes, IsLeader, Members, Conf
  <1> QED
    BY <1>1, <1>3, <1>5, <1>6 DEF KernelInv

LEMMA JoinEthernetInterfacesToBridgeStep ==
    ASSUME HandlerInv, KernelInv, JoinEthernetInterfacesToBridge
    PROVE  HandlerInv' /\ KernelInv'
  <1>1. /\ handler.pc = "join" /\ Conf.bridges # <<>> /\ Conf.assignment # None
        /\ UNCHANGED <<metrics, isolated>>
    BY DEF JoinEthernetInterfacesToBridge, Doing, HandlerInv, SettingUp
  <1>2. PICK joined \in SUBSET EthernetOf(Conf) :
           /\ Proceed("can") \/ Proceed("executors")
           /\ Bridge \in kernel.bridges \/ joined = {}
           /\ kernel' = JoinDeviceInterfaces(joined)
    BY DEF JoinEthernetInterfacesToBridge
  <1>3. /\ handler' \in [pc : {"idle", "bridge", "gre", "join", "can", "remote", "executors",
                               "metrics", "panicked"}, conf : Configuration]
        /\ handler'.pc \in {"can", "executors"} /\ handler'.conf = handler.conf
    BY <1>2, ProceedTyped
  <1>4. HandlerInv'
    BY <1>1, <1>3 DEF HandlerInv, SettingUp, Conf
  <1>5. /\ KernelOK(kernel) /\ Bridge \in Bridges /\ Bridge # None
        /\ OnlyWanted(kernel, isolated.bridge, isolated.wanted)
        /\ isolated.bridge # None =>
              isolated.bridge = Bridge /\ isolated.wanted = EthernetOf(Conf) \cup Remotes
    BY <1>1, BridgeTyped DEF KernelInv
  <1> DEFINE dev == [i \in Ethernet |-> IF i \in joined THEN Bridge ELSE kernel.device[i]]
             k == [kernel EXCEPT !.device = dev]
  <1>6. kernel' = k
    BY <1>2, <1>5 DEF JoinDeviceInterfaces, KernelOK, Kernel
  <1>7. /\ dev \in [Ethernet -> Joined]
        /\ \A i \in Ethernet : /\ dev[i] \in kernel.bridges \cup {None}
                               /\ i \in joined \/ dev[i] = kernel.device[i]
    BY <1>2, <1>5 DEF KernelOK, Kernel, Joined
  <1> HIDE DEF dev
  <1>8. /\ k \in Kernel /\ k.device = dev /\ k.bridges = kernel.bridges
        /\ k.tunnel = kernel.tunnel
    BY <1>5, <1>7 DEF KernelOK, Kernel
  <1> HIDE DEF k
  <1>9. KernelOK(k) /\ OnlyWanted(k, isolated.bridge, isolated.wanted)
    BY <1>2, <1>5, <1>7, <1>8 DEF KernelOK, OnlyWanted
  <1> QED
    BY <1>1, <1>3, <1>4, <1>6, <1>9 DEF KernelInv

LEMMA SetupLocalRoutingStep ==
    ASSUME HandlerInv, KernelInv, SetupLocalRouting
    PROVE  HandlerInv' /\ KernelInv'
  <1>1. /\ handler.pc = "can" /\ Conf.bridges # <<>> /\ Conf.assignment # None
        /\ UNCHANGED <<metrics, isolated>>
    BY DEF SetupLocalRouting, Doing, HandlerInv, SettingUp
  <1>2. /\ handler' \in [pc : {"idle", "bridge", "gre", "join", "can", "remote", "executors",
                               "metrics", "panicked"}, conf : Configuration]
        /\ handler'.pc \in {"remote", "executors"} /\ handler'.conf = handler.conf
    BY ProceedTyped DEF SetupLocalRouting
  <1>3. HandlerInv'
    BY <1>1, <1>2 DEF HandlerInv, SettingUp, Conf
  <1>4. /\ KernelOK(kernel) /\ kernel \in Kernel
        /\ OnlyWanted(kernel, isolated.bridge, isolated.wanted)
    BY DEF KernelInv, KernelOK
  <1>5. \/ kernel' = kernel
        \/ \E cs \in SUBSET Can : kernel' = UpdateInterfaces(CreateVcanInterface(kernel), cs)
    BY DEF SetupLocalRouting, CanOf
  <1>6. ASSUME NEW cs \in SUBSET Can, kernel' = UpdateInterfaces(CreateVcanInterface(kernel), cs)
        PROVE  /\ kernel' \in Kernel /\ kernel'.bridges = kernel.bridges
               /\ kernel'.device = kernel.device /\ kernel'.tunnel = kernel.tunnel
    BY <1>4, <1>6 DEF UpdateInterfaces, CreateVcanInterface, Kernel
  <1>7. KernelOK(kernel') /\ OnlyWanted(kernel', isolated.bridge, isolated.wanted)
    BY <1>4, <1>5, <1>6 DEF KernelOK, OnlyWanted
  <1> QED
    BY <1>1, <1>2, <1>3, <1>7 DEF KernelInv

LEMMA PanicWithoutRootStep ==
    ASSUME ServiceInv, HandlerInv, KernelInv, PanicWithoutRoot
    PROVE  ServiceInv' /\ HandlerInv' /\ KernelInv'
  <1>1. /\ Proceed("panicked") /\ queue' = <<>>
        /\ UNCHANGED <<carl, service, inbox, root, restarts, kernel, metrics, faults, faulty,
                       isolated>>
    BY DEF PanicWithoutRoot, OutsideHandler
  <1>2. /\ handler' \in [pc : {"idle", "bridge", "gre", "join", "can", "remote", "executors",
                               "metrics", "panicked"}, conf : Configuration]
        /\ handler'.pc = "panicked"
    BY <1>1, ProceedTyped
  <1>3. <<>> \in Seq(Configuration) /\ Len(<<>>) = 0
    OBVIOUS
  <1>4. ServiceInv'
    BY <1>1, <1>3, BoundsAreNumbers DEF ServiceInv
  <1> QED
    BY <1>1, <1>2, <1>4 DEF HandlerInv, SettingUp, KernelInv

LEMMA SetupRemoteStep ==
    ASSUME HandlerInv, KernelInv, TunnelInv, SetupRemote
    PROVE  HandlerInv' /\ KernelInv' /\ TunnelInv'
  <1>1. /\ handler.pc = "remote" /\ Conf.bridges # <<>> /\ Conf.assignment # None
        /\ UNCHANGED <<metrics, isolated, kernel>> /\ Proceed("executors")
        /\ SetupRemoteRouting(IsLeader, Endpoints)
    BY DEF SetupRemote, Doing, HandlerInv, SettingUp
  <1>2. /\ handler' \in [pc : {"idle", "bridge", "gre", "join", "can", "remote", "executors",
                               "metrics", "panicked"}, conf : Configuration]
        /\ handler'.pc = "executors"
    BY <1>1, ProceedTyped
  <1>3. /\ Members \subseteq Peers /\ Self \in Members /\ IsLeader \in BOOLEAN
        /\ \A p \in Members : Conf.assignment.port[p] \in Ports
        /\ Remotes \subseteq Members
    BY <1>1, AssignmentTyped
  <1>4. DOMAIN Endpoints \subseteq Peers /\ \A p \in DOMAIN Endpoints : Endpoints[p] \in Ports
    BY <1>3 DEF Endpoints
  <1>5. TunnelInv'
    BY <1>1, <1>3, <1>4, SetupRemoteRoutingStep
  <1> QED
    BY <1>1, <1>2, <1>5 DEF HandlerInv, SettingUp, KernelInv

LEMMA CreateNewExecutorsStep ==
    ASSUME HandlerInv, KernelInv, ExecutionInv, CreateNewExecutors
    PROVE  HandlerInv' /\ KernelInv' /\ ExecutionInv'
  <1>1. /\ Proceed("metrics") /\ ReplaceExecutors(Conf.executors)
        /\ UNCHANGED <<metrics, isolated, kernel>>
    BY DEF CreateNewExecutors
  <1>2. /\ handler' \in [pc : {"idle", "bridge", "gre", "join", "can", "remote", "executors",
                               "metrics", "panicked"}, conf : Configuration]
        /\ handler'.pc = "metrics"
    BY <1>1, ProceedTyped
  <1>3. ExecutionInv'
    BY <1>1, HandlerTyped, ReplaceExecutorsStep
  <1> QED
    BY <1>1, <1>2, <1>3 DEF HandlerInv, SettingUp, KernelInv

LEMMA SetupClusterMetricsStep ==
    ASSUME HandlerInv, KernelInv, SetupClusterMetrics
    PROVE  HandlerInv' /\ KernelInv'
  <1>1. /\ Proceed("idle") /\ UNCHANGED <<isolated, kernel>>
        /\ metrics' = IF Conf.assignment = None THEN metrics ELSE Members \ {Self}
    BY DEF SetupClusterMetrics, SetRemotePeers, Proceed
  <1>2. /\ handler' \in [pc : {"idle", "bridge", "gre", "join", "can", "remote", "executors",
                               "metrics", "panicked"}, conf : Configuration]
        /\ handler'.pc = "idle"
    BY <1>1, ProceedTyped
  <1>3. metrics' \subseteq Peers \ {Self}
    BY <1>1, AssignmentTyped DEF HandlerInv
  <1> QED
    BY <1>1, <1>2, <1>3 DEF HandlerInv, SettingUp, KernelInv

\* What the handler's steps leave alone outside itself.
LEMMA OutsideUnchanged ==
    ASSUME ServiceInv,
           \/ RecreateBridges \/ SetupEthernetGreInterfaces \/ JoinEthernetInterfacesToBridge
           \/ SetupLocalRouting \/ SetupRemote \/ CreateNewExecutors \/ SetupClusterMetrics
    PROVE  ServiceInv'
  <1>1. UNCHANGED <<carl, service, inbox, root, restarts, queue>>
    BY DEF RecreateBridges, SetupEthernetGreInterfaces, JoinEthernetInterfacesToBridge,
       SetupLocalRouting, SetupRemote, CreateNewExecutors, SetupClusterMetrics, OutsideHandler
  <1>2. Fault \/ NoFault \/ UNCHANGED <<faults, faulty>>
    BY DEF RecreateBridges, SetupEthernetGreInterfaces, JoinEthernetInterfacesToBridge,
       SetupLocalRouting, SetupRemote, CreateNewExecutors, SetupClusterMetrics
  <1>3. faults' \in 0 .. MaxFaults /\ faulty' \in BOOLEAN
    <2>1. faults \in 0 .. MaxFaults /\ faulty \in BOOLEAN
      BY DEF ServiceInv
    <2>2. CASE Fault
      BY <2>1, <2>2, BoundsAreNumbers DEF Fault
    <2> QED
      BY <1>2, <2>1, <2>2 DEF NoFault
  <1> QED
    BY <1>1, <1>3 DEF ServiceInv

-----------------------------------------------------------------------------
(* The service.                                                            *)

IInv ==
    /\ ServiceInv /\ HandlerInv /\ KernelInv
    /\ TunnelInv /\ ExecutionInv

LEMMA EndsStep ==
    ASSUME IInv, Ends, faulty' = faulty,
           carl' \in [desc : Descriptors, stored : Configuration, made : 0 .. MaxAssignments],
           restarts' \in 0 .. MaxRestarts
    PROVE  IInv'
  <1>1. /\ service' = "down" /\ inbox' = <<>> /\ queue' = <<>> /\ handler' = Idle
        /\ metrics' = {} /\ CannelloniKilled /\ ManagersLost
        /\ UNCHANGED <<kernel, root, faults, isolated>>
    BY DEF Ends
  <1>2. <<>> \in Seq(Configuration) /\ Len(<<>>) = 0
    OBVIOUS
  <1>3. ServiceInv'
    BY <1>1, <1>2, BoundsAreNumbers DEF IInv, ServiceInv
  <1>4. HandlerInv'
    BY <1>1, NothingConfigured DEF HandlerInv, SettingUp, Idle
  <1>5. KernelInv'
    BY <1>1 DEF IInv, KernelInv, Idle
  <1>6. TunnelInv' /\ ExecutionInv'
    BY <1>1, CannelloniKilledStep, ManagersLostStep DEF IInv
  <1> QED
    BY <1>3, <1>4, <1>5, <1>6 DEF IInv

LEMMA ServiceSteps ==
    ASSUME IInv,
           \/ \E d \in Descriptors : StorePeerDescriptor(d)
           \/ \E a \in Assignments : AssignCluster(a)
           \/ Connect \/ StreamEnds \/ CarlRestart \/ Receive
    PROVE  IInv'
  <1>1. /\ carl \in [desc : Descriptors, stored : Configuration, made : 0 .. MaxAssignments]
        /\ restarts \in 0 .. MaxRestarts /\ ServiceInv
    BY DEF IInv, ServiceInv
  <1>2. ASSUME ServiceInv', UNCHANGED <<caVars, exVars, handler, kernel, metrics, isolated>>
        PROVE  IInv'
    <2>1. TunnelInv' /\ ExecutionInv'
      BY <1>2, TunnelsUnchanged, ExecutionsUnchanged DEF IInv
    <2>2. HandlerInv'
      BY <1>2 DEF IInv, HandlerInv, Conf
    <2>3. KernelInv'
      BY <1>2 DEF IInv, KernelInv, Bridge, Remotes, IsLeader, Members, Conf
    <2> QED
      BY <1>2, <2>1, <2>2, <2>3 DEF IInv
  <1>3. ASSUME NEW d \in Descriptors, StorePeerDescriptor(d) PROVE IInv'
    <2>1. ServiceInv'
      BY <1>3 DEF IInv, ServiceInv, StorePeerDescriptor
    <2> QED
      BY <1>2, <1>3, <2>1 DEF StorePeerDescriptor
  <1>4. ASSUME NEW a \in Assignments, AssignCluster(a) PROVE IInv'
    BY <1>1, <1>2, <1>4, AssignClusterStep DEF AssignCluster
  <1>5. CASE Connect
    <2>1. <<carl.stored>> \in Seq(Configuration)
      BY <1>1
    <2>2. ServiceInv'
      BY <1>1, <1>5, <2>1 DEF ServiceInv, Connect
    <2> QED
      BY <1>2, <1>5, <2>2 DEF Connect
  <1>6. CASE StreamEnds
    <2>1. restarts' \in 0 .. MaxRestarts
      BY <1>1, <1>6, BoundsAreNumbers DEF StreamEnds
    <2> QED
      BY <1>1, <1>6, <2>1, EndsStep DEF StreamEnds
  <1>7. CASE CarlRestart
    <2>1. restarts' \in 0 .. MaxRestarts
      BY <1>1, <1>7, BoundsAreNumbers DEF CarlRestart
    <2>2. carl' \in [desc : Descriptors, stored : Configuration, made : 0 .. MaxAssignments]
      BY <1>1, <1>7, NothingConfigured DEF CarlRestart
    <2> QED
      BY <1>7, <2>1, <2>2, EndsStep DEF CarlRestart
  <1>8. CASE Receive
    <2>1. CASE Ends
      BY <1>1, <1>8, <2>1, EndsStep DEF Receive
    <2>2. CASE /\ Len(queue) < QueueCapacity
               /\ queue' = Append(queue, Head(inbox)) /\ inbox' = Tail(inbox)
               /\ UNCHANGED <<caVars, exVars, carl, service, handler, kernel, metrics, root,
                              faults, restarts, faulty, isolated>>
      <3>1. inbox \in Seq(Configuration) /\ inbox # <<>> /\ queue \in Seq(Configuration)
        BY <1>1, <1>8 DEF ServiceInv, Receive
      <3>2. /\ Head(inbox) \in Configuration /\ Tail(inbox) \in Seq(Configuration)
            /\ Len(queue) \in Nat
        BY <3>1
      <3>3. queue' \in Seq(Configuration) /\ Len(queue') = Len(queue) + 1
        BY <2>2, <3>1, <3>2
      <3>4. Len(queue') <= QueueCapacity
        BY <2>2, <3>2, <3>3, BoundsAreNumbers
      <3>5. ServiceInv'
        BY <1>1, <2>2, <3>2, <3>3, <3>4 DEF ServiceInv
      <3> QED
        BY <1>2, <2>2, <3>5
    <2>3. \/ Ends
          \/ /\ Len(queue) < QueueCapacity
             /\ queue' = Append(queue, Head(inbox)) /\ inbox' = Tail(inbox)
             /\ UNCHANGED <<caVars, exVars, carl, service, handler, kernel, metrics, root,
                            faults, restarts, faulty, isolated>>
      BY <1>8 DEF Receive
    <2> QED
      BY <2>1, <2>2, <2>3
  <1> QED
    BY <1>3, <1>4, <1>5, <1>6, <1>7, <1>8

-----------------------------------------------------------------------------
(* The invariant.                                                          *)

LEMMA HandlerSteps ==
    ASSUME IInv, Handler
    PROVE  IInv'
  <1>1. ServiceInv /\ HandlerInv /\ KernelInv /\ TunnelInv /\ ExecutionInv
    BY DEF IInv
  <1>2. CASE Take
    BY <1>1, <1>2, TakeStep, TunnelsUnchanged, ExecutionsUnchanged DEF IInv, Take
  <1>3. CASE RecreateBridges
    <2>1. UNCHANGED <<caVars, exVars>>
      BY <1>3 DEF RecreateBridges
    <2> QED
      BY <1>1, <1>3, <2>1, RecreateBridgesStep, OutsideUnchanged, TunnelsUnchanged,
         ExecutionsUnchanged DEF IInv
  <1>4. CASE SetupEthernetGreInterfaces
    <2>1. UNCHANGED <<caVars, exVars>>
      BY <1>4 DEF SetupEthernetGreInterfaces
    <2> QED
      BY <1>1, <1>4, <2>1, SetupEthernetGreInterfacesStep, OutsideUnchanged, TunnelsUnchanged,
         ExecutionsUnchanged DEF IInv
  <1>5. CASE JoinEthernetInterfacesToBridge
    <2>1. UNCHANGED <<caVars, exVars>>
      BY <1>5 DEF JoinEthernetInterfacesToBridge
    <2> QED
      BY <1>1, <1>5, <2>1, JoinEthernetInterfacesToBridgeStep, OutsideUnchanged,
         TunnelsUnchanged, ExecutionsUnchanged DEF IInv
  <1>6. CASE SetupLocalRouting
    <2>1. UNCHANGED <<caVars, exVars>>
      BY <1>6 DEF SetupLocalRouting
    <2> QED
      BY <1>1, <1>6, <2>1, SetupLocalRoutingStep, OutsideUnchanged, TunnelsUnchanged,
         ExecutionsUnchanged DEF IInv
  <1>7. CASE PanicWithoutRoot
    <2>1. UNCHANGED <<caVars, exVars>>
      BY <1>7 DEF PanicWithoutRoot
    <2> QED
      BY <1>1, <1>7, <2>1, PanicWithoutRootStep, TunnelsUnchanged, ExecutionsUnchanged DEF IInv
  <1>8. CASE SetupRemote
    <2>1. UNCHANGED exVars
      BY <1>8 DEF SetupRemote
    <2> QED
      BY <1>1, <1>8, <2>1, SetupRemoteStep, OutsideUnchanged, ExecutionsUnchanged DEF IInv
  <1>9. CASE CreateNewExecutors
    <2>1. UNCHANGED caVars
      BY <1>9 DEF CreateNewExecutors
    <2> QED
      BY <1>1, <1>9, <2>1, CreateNewExecutorsStep, OutsideUnchanged, TunnelsUnchanged DEF IInv
  <1>10. CASE SetupClusterMetrics
    <2>1. UNCHANGED <<caVars, exVars>>
      BY <1>10 DEF SetupClusterMetrics
    <2> QED
      BY <1>1, <1>10, <2>1, SetupClusterMetricsStep, OutsideUnchanged, TunnelsUnchanged,
         ExecutionsUnchanged DEF IInv
  <1> QED
    BY <1>2, <1>3, <1>4, <1>5, <1>6, <1>7, <1>8, <1>9, <1>10 DEF Handler

LEMMA EdgarUnchanged ==
    ASSUME IInv, UNCHANGED edVars, TunnelInv', ExecutionInv'
    PROVE  IInv'
  <1>1. UNCHANGED <<carl, service, inbox, queue, handler, kernel, metrics, root, faults,
                    restarts, faulty, isolated>>
    BY DEF edVars
  <1>2. ServiceInv'
    BY <1>1 DEF IInv, ServiceInv
  <1>3. HandlerInv'
    BY <1>1 DEF IInv, HandlerInv, Conf
  <1>4. KernelInv'
    BY <1>1 DEF IInv, KernelInv, Bridge, Remotes, IsLeader, Members, Conf
  <1> QED
    BY <1>2, <1>3, <1>4 DEF IInv

LEMMA InitiallyIInv == Init => IInv
  <1> SUFFICES ASSUME Init PROVE IInv
    OBVIOUS
  <1>1. TunnelInv /\ ExecutionInv
    BY InitialTunnels, InitialExecutions DEF Init
  <1>2. ServiceInv
    <2>1. PICK d \in Descriptors : carl = [desc |-> d, stored |-> NoConfiguration, made |-> 0]
      BY DEF Init
    <2>2. carl \in [desc : Descriptors, stored : Configuration, made : 0 .. MaxAssignments]
      BY <2>1, NothingConfigured, BoundsAreNumbers
    <2>3. /\ <<>> \in Seq(Configuration) /\ Len(<<>>) = 0
      OBVIOUS
    <2>4. /\ service = "down" /\ inbox = <<>> /\ queue = <<>> /\ root \in BOOLEAN
          /\ faults = 0 /\ restarts = 0 /\ faulty = FALSE
      BY DEF Init
    <2>5. /\ inbox \in Seq(Configuration) /\ queue \in Seq(Configuration)
          /\ Len(queue) <= QueueCapacity
      BY <2>3, <2>4, BoundsAreNumbers
    <2>6. service \in {"down", "up"} /\ faults \in 0 .. MaxFaults /\ restarts \in 0 .. MaxRestarts
      BY <2>4, BoundsAreNumbers
    <2> QED
      BY <2>2, <2>4, <2>5, <2>6 DEF ServiceInv
  <1>3. HandlerInv
    BY NothingConfigured DEF Init, HandlerInv, SettingUp, Idle
  <1>4. KernelInv
    <2>1. KernelOK(kernel)
      BY DEF Init, KernelOK, Kernel, Joined
    <2> QED
      BY <2>1 DEF Init, KernelInv, OnlyWanted, Joined, Idle
  <1> QED
    BY <1>1, <1>2, <1>3, <1>4 DEF IInv

LEMMA IInvPreserved == IInv /\ [Next]_vars => IInv'
  <1> SUFFICES ASSUME IInv, [Next]_vars PROVE IInv'
    OBVIOUS
  <1>1. TunnelInv /\ ExecutionInv
    BY DEF IInv
  <1>2. CASE \/ \E d \in Descriptors : StorePeerDescriptor(d)
             \/ \E a \in Assignments : AssignCluster(a)
             \/ Connect \/ StreamEnds \/ CarlRestart \/ Receive
    BY <1>2, ServiceSteps
  <1>3. CASE Handler
    BY <1>3, HandlerSteps
  <1>4. ASSUME NEW m \in DOMAIN cannelloni, Cannelloni(m) PROVE IInv'
    BY <1>1, <1>4, TunnelStep, ExecutionsUnchanged, EdgarUnchanged DEF Cannelloni
  <1>5. ASSUME NEW x \in DOMAIN executions, Containers(x) \/ Environment(x) PROVE IInv'
    BY <1>1, <1>5, ManagerSteps, EnvironmentSteps, TunnelsUnchanged, EdgarUnchanged
    DEF Containers, Environment
  <1>6. CASE UNCHANGED vars
    BY <1>1, <1>6, TunnelsUnchanged, ExecutionsUnchanged, EdgarUnchanged DEF vars
  <1> QED
    BY <1>2, <1>3, <1>4, <1>5, <1>6 DEF Next

LEMMA AlwaysIInv == Spec => []IInv
  BY InitiallyIInv, IInvPreserved, PTL DEF Spec

\* Whatever is stored, sent, lost, applied or failing, in whatever order,
\* EDGAR's queue keeps to its capacity, its handler to what CARL sent, and
\* interfaces are joined only to bridges that exist.
THEOREM EdgarTyped == Spec => []TypeOK
  <1>1. IInv => TypeOK
    BY DEF IInv, ServiceInv, HandlerInv, KernelInv, KernelOK, TunnelInv, ExecutionInv, TypeOK
  <1> QED
    BY <1>1, AlwaysIInv, PTL

\* recreate_bridge deletes a bridge before it creates it anew, and the steps
\* of setup_cluster that follow join to it nothing but the devices and the
\* remote peers of the same configuration: with any number of peers, bridges
\* and devices, and whatever failed and however often EDGAR was restarted, the
\* bridge holds no interface of an earlier configuration.
THEOREM BridgeStaysIsolated == Spec => []BridgeIsolated
  <1>1. IInv => BridgeIsolated
    BY DEF IInv, KernelInv, OnlyWanted, BridgeIsolated
  <1> QED
    BY <1>1, AlwaysIInv, PTL

\* cleanup_results_dir comes after the container exited and its results were
\* uploaded, with any number of executors, of managers that compete for a
\* container's name and of commands that fail.
THEOREM ResultsNeverLost == Spec => []ResultsKept
  <1>1. IInv => ResultsKept
    BY ResultsAreKept DEF IInv
  <1> QED
    BY <1>1, AlwaysIInv, PTL

----------------------------------------------------------------------------
(* The configuration file.                                                  *)

FileNames  == {"conf", "suggestion"}
FileFields == {"text", "peer", "own", "private"}

\* Where the run is and what it may have done to the files by then: what is
\* about to be written is restricted already, and a dry run gets no further
\* than asking its tasks.
FilesInv ==
    /\ DOMAIN files = FileNames
    /\ \A f \in FileNames : /\ DOMAIN files[f] = FileFields
                            /\ files[f].peer # Absent => files[f].private = TRUE
    /\ DOMAIN run = {"at", "setup", "target", "task", "step"}
    /\ run.target \in FileNames
    /\ run.at = "write" => files[run.target].private = TRUE
    /\ run # NotRunning /\ run.setup.dry => run.at = "tasks" /\ run.step = 1
    /\ run.at = "idle" => run = NotRunning

\* The fields of a run.
LEMMA IdleFacts == /\ DOMAIN NotRunning = {"at", "setup", "target", "task", "step"}
                   /\ NotRunning.at = "idle" /\ NotRunning.target = "conf" /\ NotRunning.step = 1 /\ NotRunning.task = 1
  BY DEF NotRunning

\* To begin with there is no run, and the file, if any, holds no secret.
LEMMA FilesInit == SetupInit => FilesInv
<1> SUFFICES ASSUME SetupInit PROVE FilesInv
  OBVIOUS
<1>1. PICK c \in {NoFile, OwnFile} : files = [conf |-> c, suggestion |-> NoFile]
  BY DEF SetupInit
<1>2. /\ DOMAIN c = FileFields /\ c.peer = Absent
      /\ DOMAIN NoFile = FileFields /\ NoFile.peer = Absent
  BY DEF NoFile, OwnFile, FileFields
<1>3. DOMAIN files = FileNames /\ files.conf = c /\ files.suggestion = NoFile
  BY <1>1 DEF FileNames
<1>4. \A f \in FileNames : DOMAIN files[f] = FileFields /\ files[f].peer = Absent
  BY <1>2, <1>3 DEF FileNames
<1>5. run = NotRunning
  BY DEF SetupInit
<1> QED
  BY <1>3, <1>4, <1>5, IdleFacts DEF FilesInv, FileNames

\* What changing some fields of a run leaves of the others.
LEMMA RunFacts ==
    ASSUME NEW r, NEW a, NEW t, NEW n, DOMAIN r = {"at", "setup", "target", "task", "step"}
    PROVE  /\ DOMAIN [r EXCEPT !.at = a] = {"at", "setup", "target", "task", "step"}
           /\ [r EXCEPT !.at = a].at = a /\ [r EXCEPT !.at = a].target = r.target
           /\ [r EXCEPT !.at = a].setup = r.setup /\ [r EXCEPT !.at = a].step = r.step
           /\ DOMAIN [r EXCEPT !.at = a, !.target = t] = {"at", "setup", "target", "task", "step"}
           /\ [r EXCEPT !.at = a, !.target = t].at = a /\ [r EXCEPT !.at = a, !.target = t].target = t
           /\ [r EXCEPT !.at = a, !.target = t].setup = r.setup
  OBVIOUS

\* A run that does not write and is not dry, or ends.
LEMMA RunElsewhere ==
    ASSUME FilesInv, UNCHANGED files,
           \/ run' = NotRunning
           \/ /\ DOMAIN run' = {"at", "setup", "target", "task", "step"}
              /\ run'.target \in FileNames /\ run'.at \notin {"write", "idle"}
              /\ run'.setup.dry => run'.at = "tasks" /\ run'.step = 1
    PROVE  FilesInv'
  BY IdleFacts DEF FilesInv, FileNames

\* Starting a setup leaves the files alone, and a dry one begins with its tasks.
LEMMA StartFiles ==
    ASSUME FilesInv, NEW s \in Setups, StartSetup(s) PROVE FilesInv'
<1> DEFINE a == IF s.mode = "managed" /\ ~s.dry THEN "configure" ELSE "tasks"
           r == NotRunning
<1>1. run' = [r EXCEPT !.at = a, !.setup = s] /\ UNCHANGED files
  BY DEF StartSetup
<1>2. DOMAIN r = {"at", "setup", "target", "task", "step"} /\ r.target = "conf" /\ r.step = 1
  BY IdleFacts
<1>3. a \in {"configure", "tasks"} /\ (s.dry => a = "tasks")
  OBVIOUS
<1> HIDE DEF a, r
<1>4. /\ DOMAIN run' = {"at", "setup", "target", "task", "step"} /\ run'.at = a
      /\ run'.setup = s /\ run'.target = "conf" /\ run'.step = 1
  BY <1>1, <1>2
<1> QED
  BY <1>1, <1>3, <1>4, RunElsewhere DEF FileNames

\* Choosing where to write leaves the files alone.
LEMMA ConfigureFiles ==
    ASSUME FilesInv, Configure PROVE FilesInv'
<1>1. run.at = "configure" /\ UNCHANGED files /\ ~ run.setup.dry
  BY IdleFacts DEF Configure, FilesInv
<1>2. \/ run' = [run EXCEPT !.at = "tasks"]
      \/ \E t \in FileNames : run' = [run EXCEPT !.at = "create", !.target = t]
  BY DEF Configure, FileNames
<1>3. DOMAIN run = {"at", "setup", "target", "task", "step"} /\ run.target \in FileNames
  BY DEF FilesInv
<1>4. /\ DOMAIN run' = {"at", "setup", "target", "task", "step"} /\ run'.at \in {"tasks", "create"}
      /\ run'.setup = run.setup /\ run'.target \in FileNames
  BY <1>2, <1>3
<1> QED
  BY <1>1, <1>4, RunElsewhere

\* A step on one of the files.
LEMMA OneFile ==
    ASSUME NEW g, DOMAIN files = FileNames, \A f \in FileNames : DOMAIN files[f] = FileFields,
           NEW t \in FileNames, DOMAIN g = FileFields, files' = [files EXCEPT ![t] = g]
    PROVE  /\ DOMAIN files' = FileNames /\ files'[t] = g
           /\ \A f \in FileNames : DOMAIN files'[f] = FileFields /\ (f # t => files'[f] = files[f])
  OBVIOUS

\* A new file holds no secret; one that exists stays as it is, private if it holds one.
LEMMA CreateFiles ==
    ASSUME FilesInv, Create PROVE FilesInv'
<1> DEFINE t == run.target
           g == [files[t] EXCEPT !.text = IF @ = "none" THEN "empty" ELSE @]
<1>1. /\ run.at = "create" /\ files' = [files EXCEPT ![t] = g] /\ run' = [run EXCEPT !.at = "restrict"]
  BY DEF Create
<1>2. /\ DOMAIN files = FileNames /\ t \in FileNames
      /\ \A f \in FileNames : DOMAIN files[f] = FileFields /\ (files[f].peer # Absent => files[f].private = TRUE)
      /\ DOMAIN run = {"at", "setup", "target", "task", "step"} /\ ~ run.setup.dry
  BY <1>1, IdleFacts DEF FilesInv
<1>3. DOMAIN g = FileFields /\ g.peer = files[t].peer /\ g.private = files[t].private
  BY <1>2 DEF FileFields
<1>4. /\ DOMAIN run' = {"at", "setup", "target", "task", "step"} /\ run'.at = "restrict"
      /\ run'.target = t /\ run'.setup = run.setup
  BY <1>1, <1>2
<1> HIDE DEF g, t
<1>5. /\ DOMAIN files' = FileNames /\ files'[t] = g
      /\ \A f \in FileNames : DOMAIN files'[f] = FileFields /\ (f # t => files'[f] = files[f])
  BY <1>1, <1>2, <1>3, OneFile
<1> QED
  BY <1>2, <1>3, <1>4, <1>5 DEF FilesInv

\* Restricting a file makes it private, which is what Write is after.
LEMMA RestrictFiles ==
    ASSUME FilesInv, SetPermissions PROVE FilesInv'
<1> DEFINE t == run.target
           g == [files[t] EXCEPT !.private = TRUE]
<1>1. /\ run.at = "restrict" /\ files' = [files EXCEPT ![t] = g] /\ run' = [run EXCEPT !.at = "write"]
  BY DEF SetPermissions
<1>2. /\ DOMAIN files = FileNames /\ t \in FileNames
      /\ \A f \in FileNames : DOMAIN files[f] = FileFields /\ (files[f].peer # Absent => files[f].private = TRUE)
      /\ DOMAIN run = {"at", "setup", "target", "task", "step"} /\ ~ run.setup.dry
  BY <1>1, IdleFacts DEF FilesInv
<1>3. DOMAIN g = FileFields /\ g.peer = files[t].peer /\ g.private = TRUE
  BY <1>2 DEF FileFields
<1>4. /\ DOMAIN run' = {"at", "setup", "target", "task", "step"} /\ run'.at = "write"
      /\ run'.target = t /\ run'.setup = run.setup
  BY <1>1, <1>2
<1> HIDE DEF g, t
<1>5. /\ DOMAIN files' = FileNames /\ files'[t] = g
      /\ \A f \in FileNames : DOMAIN files'[f] = FileFields /\ (f # t => files'[f] = files[f])
  BY <1>1, <1>2, <1>3, OneFile
<1> QED
  BY <1>2, <1>3, <1>4, <1>5 DEF FilesInv

\* The secret is written to a file that is private.
LEMMA WriteFiles ==
    ASSUME FilesInv, Write PROVE FilesInv'
<1> DEFINE t == run.target
           own == files.conf.text = "toml" /\ files.conf.own
           g == [files[t] EXCEPT !.text = "toml", !.peer = run.setup.peer, !.own = own]
<1>1. /\ run.at = "write" /\ files' = [files EXCEPT ![t] = g]
      /\ run' = (IF run.target = "conf" THEN [run EXCEPT !.at = "tasks"] ELSE NotRunning)
  BY DEF Write
<1>2. /\ DOMAIN files = FileNames /\ t \in FileNames
      /\ \A f \in FileNames : DOMAIN files[f] = FileFields /\ (files[f].peer # Absent => files[f].private = TRUE)
      /\ DOMAIN run = {"at", "setup", "target", "task", "step"} /\ ~ run.setup.dry
      /\ files[t].private = TRUE
  BY <1>1, IdleFacts DEF FilesInv
<1> HIDE DEF own
<1>3. DOMAIN g = FileFields /\ g.private = TRUE
  BY <1>2 DEF FileFields
<1>4. \/ run' = NotRunning
      \/ /\ DOMAIN run' = {"at", "setup", "target", "task", "step"} /\ run'.at = "tasks"
         /\ run'.target = t /\ run'.setup = run.setup
  BY <1>1, <1>2
<1> HIDE DEF g, t
<1>5. /\ DOMAIN files' = FileNames /\ files'[t] = g
      /\ \A f \in FileNames : DOMAIN files'[f] = FileFields /\ (f # t => files'[f] = files[f])
  BY <1>1, <1>2, <1>3, OneFile
<1>6. \A f \in FileNames : files'[f].peer # Absent => files'[f].private = TRUE
  BY <1>2, <1>3, <1>5
<1> QED
  BY <1>2, <1>4, <1>5, <1>6, IdleFacts DEF FilesInv, FileNames

\* Where a run is after a task.
LEMMA NextTaskRun ==
    ASSUME DOMAIN run = {"at", "setup", "target", "task", "step"}, NextTask
    PROVE  \/ run' = NotRunning
           \/ /\ DOMAIN run' = {"at", "setup", "target", "task", "step"}
              /\ run'.at = run.at /\ run'.target = run.target /\ run'.setup = run.setup
              /\ run'.step = 1 /\ run'.task = run.task + 1
  BY DEF NextTask

\* Skipping a task changes no file.
LEMMA SkipFiles ==
    ASSUME FilesInv, Skip PROVE FilesInv'
<1>1. run.at = "tasks" /\ run.step = 1 /\ NextTask /\ UNCHANGED files
  BY DEF Skip
<1>2. DOMAIN run = {"at", "setup", "target", "task", "step"} /\ run.target \in FileNames
  BY DEF FilesInv
<1>3. \/ run' = NotRunning
      \/ /\ DOMAIN run' = {"at", "setup", "target", "task", "step"}
         /\ run'.at = run.at /\ run'.target = run.target /\ run'.step = 1
  BY <1>1, <1>2, NextTaskRun
<1> QED
  BY <1>1, <1>2, <1>3, RunElsewhere

\* What a dry run is due to do is nothing.
LEMMA DueIsNotDry ==
    ASSUME FilesInv, Due PROVE run.at = "tasks" /\ run # NotRunning /\ ~ run.setup.dry
  BY IdleFacts DEF Due, FilesInv

\* Executing a task changes no file.
LEMMA ExecuteFiles ==
    ASSUME FilesInv, Execute PROVE FilesInv'
<1>1. run.at = "tasks" /\ ~ run.setup.dry
  BY DueIsNotDry DEF Execute
<1>2. /\ DOMAIN run = {"at", "setup", "target", "task", "step"} /\ run.target \in FileNames
      /\ DOMAIN files = FileNames
      /\ \A f \in FileNames : DOMAIN files[f] = FileFields /\ (files[f].peer # Absent => files[f].private = TRUE)
  BY DEF FilesInv
<1>3. \/ run' = NotRunning
      \/ /\ DOMAIN run' = {"at", "setup", "target", "task", "step"}
         /\ run'.at = run.at /\ run'.target = run.target /\ run'.setup = run.setup
  <2>1. run' = [run EXCEPT !.step = @ + 1] \/ NextTask \/ run' = NotRunning
    BY DEF Execute
  <2>2. CASE run' = [run EXCEPT !.step = @ + 1]
    BY <1>2, <2>2
  <2> QED
    BY <1>2, <2>1, <2>2, NextTaskRun
<1>4. CASE files' = files
  BY <1>1, <1>2, <1>3, <1>4, RunElsewhere
<1>5. CASE files' = [files EXCEPT !.conf.private = TRUE]
  <2> DEFINE g == [files["conf"] EXCEPT !.private = TRUE]
  <2>1. files' = [files EXCEPT !["conf"] = g] /\ "conf" \in FileNames
    BY <1>5 DEF FileNames
  <2>2. DOMAIN g = FileFields /\ g.peer = files["conf"].peer /\ g.private = TRUE
    BY <1>2, <2>1 DEF FileFields
  <2> HIDE DEF g
  <2>3. /\ DOMAIN files' = FileNames /\ files'["conf"] = g
        /\ \A f \in FileNames : DOMAIN files'[f] = FileFields /\ (f # "conf" => files'[f] = files[f])
    BY <1>2, <2>1, <2>2, OneFile
  <2>4. \A f \in FileNames : files'[f].peer # Absent => files'[f].private = TRUE
    BY <1>2, <2>2, <2>3
  <2> QED
    BY <1>1, <1>2, <1>3, <2>3, <2>4, IdleFacts DEF FilesInv, FileNames
<1> QED
  BY <1>4, <1>5 DEF Execute

\* A fault leaves a file as it was, or cut short and with its permissions.
LEMMA FaultFiles ==
    ASSUME FilesInv, Interrupt PROVE FilesInv'
<1>1. run' = NotRunning /\ files' \in LeftFiles
  BY DEF Interrupt
<1>2. CASE files' = files
  BY <1>1, <1>2, RunElsewhere
<1>3. CASE files' # files
  <2> DEFINE t == run.target
             g == [files[t] EXCEPT !.text = "partial", !.own = FALSE]
  <2>1. run.at = "write" /\ files' = [files EXCEPT ![t] = g]
    BY <1>1, <1>3 DEF LeftFiles
  <2>2. /\ DOMAIN files = FileNames /\ t \in FileNames
        /\ \A f \in FileNames : DOMAIN files[f] = FileFields /\ (files[f].peer # Absent => files[f].private = TRUE)
        /\ files[t].private = TRUE
    BY <2>1 DEF FilesInv
  <2>3. DOMAIN g = FileFields /\ g.private = TRUE
    BY <2>2 DEF FileFields
  <2> HIDE DEF g, t
  <2>4. /\ DOMAIN files' = FileNames /\ files'[t] = g
        /\ \A f \in FileNames : DOMAIN files'[f] = FileFields /\ (f # t => files'[f] = files[f])
    BY <2>1, <2>2, <2>3, OneFile
  <2>5. \A f \in FileNames : files'[f].peer # Absent => files'[f].private = TRUE
    BY <2>2, <2>3, <2>4
  <2> QED
    BY <1>1, <2>4, <2>5, IdleFacts DEF FilesInv, FileNames
<1> QED
  BY <1>2, <1>3

\* Every step keeps the invariant of the files.
LEMMA FilesStep == FilesInv /\ [SetupNext]_setupVars => FilesInv'
<1> SUFFICES ASSUME FilesInv, [SetupNext]_setupVars PROVE FilesInv'
  OBVIOUS
<1>1. CASE UNCHANGED <<files, run>>
  BY <1>1 DEF FilesInv
<1>2. CASE UNCHANGED setupVars
  BY <1>1, <1>2 DEF setupVars
<1>3. CASE Reboot
  BY <1>1, <1>3 DEF Reboot
<1>4. CASE BailInDocker
  BY <1>4, RunElsewhere DEF BailInDocker
<1> QED
  BY <1>2, <1>3, <1>4, StartFiles, ConfigureFiles, CreateFiles, RestrictFiles, WriteFiles,
     SkipFiles, ExecuteFiles, FaultFiles DEF SetupNext, RunStep

\* At no step of the setup, and wherever it is cut, is the client secret in a
\* file that others may read.
THEOREM SecretNeverReadable == SetupSpec => []SecretStaysPrivate
<1>1. FilesInv => SecretStaysPrivate
  BY DEF FilesInv, SecretStaysPrivate
<1> QED
  BY <1>1, FilesInit, FilesStep, PTL DEF SetupSpec

\* `edgar setup --dry-run` changes neither the configuration file nor the host.
THEOREM DryRunIsDry == SetupSpec => DryRunChangesNothing
<1>1. FilesInv /\ [SetupNext]_setupVars =>
         [run # NotRunning /\ run.setup.dry => UNCHANGED <<files, host, cut>>]_setupVars
  <2> SUFFICES ASSUME FilesInv, SetupNext, run # NotRunning, run.setup.dry
               PROVE  UNCHANGED <<files, host, cut>>
    OBVIOUS
  <2>1. run.at = "tasks" /\ ~ Due
    BY DueIsNotDry DEF FilesInv
  <2>2. ~ Execute /\ ~ BailInDocker /\ ~ Create /\ ~ SetPermissions /\ ~ Write /\ ~ Reboot
    BY <2>1 DEF Execute, BailInDocker, Create, SetPermissions, Write, Reboot
  <2>3. CASE Interrupt
    <3>1. host' \in LeftHost /\ files' \in LeftFiles /\ cut' = LeftCut
      BY <2>3 DEF Interrupt
    <3> QED
      BY <2>1, <3>1 DEF LeftHost, LeftFiles, LeftCut
  <2> QED
    BY <2>2, <2>3 DEF SetupNext, RunStep, StartSetup, Configure, Skip
<1> QED
  BY <1>1, FilesInit, FilesStep, PTL DEF SetupSpec, DryRunChangesNothing

----------------------------------------------------------------------------
(* The tasks of a setup and their order.                                    *)

\* Where a task comes in the order of the tasks, which differs by mode.
Rank(mode, t) ==
    CASE t = "Plugin"                     -> 1
      [] t = "WriteCaCertificate"         -> 2
      [] t = "CheckCommandLinePrograms"   -> 3
      [] t = "CheckCarlReachable"         -> 4
      [] t = "CopyExecutable"             -> 5
      [] t = "CopyRperf"                  -> IF mode = "managed" THEN 6 ELSE 21
      [] t = "LoadKernelModules"          -> 7
      [] t = "CreateKernelModuleLoadRule" -> 8
      [] t = "NetbirdUnpack"              -> 9
      [] t = "NetbirdInstallService"      -> 10
      [] t = "NetbirdRestartService"      -> 11
      [] t = "NetbirdConnect"             -> 12
      [] t = "CreateUser"                 -> 13
      [] t = "ClaimFileOwnership"         -> 14
      [] t = "RequestLinuxNetworkCapability" -> 15
      [] t = "CreateServiceFile"          -> 16
      [] t = "RestartService"             -> 17
      [] t = "CreateBridge"               -> 18
      [] t = "CreateGreInterfaces"        -> 19
      [] t = "ConnectDeviceInterfaces"    -> 20

\* The tasks of a list, and of a setup.
Entries(q) == {q[i] : i \in 1 .. Len(q)}
TasksOf(s) == Entries(Tasks(s))

----------------------------------------------------------------------------
(* What the tasks leave on the host.                                        *)

\* An attempt among C[t] had another content.
Other(C, t, field, value) == \E x \in C[t] : x[field] # value

\* What is on a host h of which the setups C left a task half executed: what a
\* checksum vouches for is there, unless an attempt with other contents was cut;
\* what a task creates first is complete, unless any attempt was; and a copy of the
\* certificate without its checksum is that of an attempt that was cut.
CertFits(h, C) ==
    /\ h.caOsSum \notin {Absent, Partial} =>
           \/ /\ h.caCarl = h.caOsSum /\ h.caCarlSum = h.caOsSum
              /\ h.caOs = h.caOsSum /\ h.trust = h.caOsSum
           \/ Other(C, "WriteCaCertificate", "cert", h.caOsSum)
    /\ h.caOs # Absent /\ Absent \in {h.caCarlSum, h.caOsSum} => C["WriteCaCertificate"] # {}
ExeFits(h, C) == h.exe # Absent => h.link = TRUE \/ C["CopyExecutable"] # {}
RuleFits(h, C) ==
    \/ h.vcanRule \in {Absent, "rule"} /\ h.canGwRule \in {Absent, "rule"}
    \/ C["CreateKernelModuleLoadRule"] # {}
NetbirdFits(h, C) ==
    h.netbirdSum \notin {Absent, Partial} =>
        h.netbird = h.netbirdSum \/ Other(C, "NetbirdUnpack", "version", h.netbirdSum)
UnitFits(h, C) ==
    h.unitSum \notin {Absent, Partial} =>
        \/ h.unit = h.unitSum /\ h.unitLoaded = h.unitSum
        \/ Other(C, "CreateServiceFile", "user", h.unitSum)
BridgeFits(h, C) == h.bridge = TRUE => h.bridgeUp = TRUE \/ C["CreateBridge"] # {}

Fits(h, C) ==
    /\ CertFits(h, C) /\ ExeFits(h, C) /\ RuleFits(h, C)
    /\ NetbirdFits(h, C) /\ UnitFits(h, C) /\ BridgeFits(h, C)

\* What vouched for another content before setup s began task t: so whatever is
\* half executed, the task will be due again.
Undone(t, s, h, C) ==
    /\ t = "WriteCaCertificate" => h.caOsSum # s.cert \/ Other(C, t, "cert", s.cert)
    /\ t = "NetbirdUnpack" => h.netbirdSum # s.version
    /\ t = "CreateServiceFile" => h.unitSum # s.user

\* What task t of setup s has done before its n-th step.
TaskBegun(t, n, s, h, C) ==
    /\ n > 1 => Undone(t, s, h, C)
    /\ t = "WriteCaCertificate" =>
        /\ n > 1 => h.caCarl = s.cert
        /\ n > 2 => h.caCarlSum = s.cert
        /\ n > 3 => h.caOs = s.cert
        /\ n > 4 => h.trust = s.cert
    /\ t = "CopyExecutable" /\ n > 2 => h.exe = s.version
    /\ t = "CreateKernelModuleLoadRule" /\ n > 1 => h.vcanRule = "rule"
    /\ t = "NetbirdUnpack" /\ n > 1 => h.netbird = s.version
    /\ t = "ClaimFileOwnership" /\ n > 1 => h.owner = s.user
    /\ t = "CreateServiceFile" =>
        /\ n > 1 => h.unit = s.user
        /\ n > 2 => h.unitLoaded = s.user

\* What task t of setup s has done when the setup has gone on to the next.
Post(t, s, h, C) ==
    /\ t = "WriteCaCertificate" =>
           \/ /\ h.caCarl = s.cert /\ h.caOs = s.cert
              /\ h.trust = s.cert \/ (Absent \in {h.caCarlSum, h.caOsSum} /\ C[t] # {})
           \/ Other(C, t, "cert", s.cert)
    /\ t = "CopyExecutable" => h.exe = s.version /\ (h.link = TRUE \/ C[t] # {})
    /\ t = "LoadKernelModules" => h.loaded = TRUE
    /\ t = "CreateKernelModuleLoadRule" =>
           (h.vcanRule = "rule" /\ h.canGwRule = "rule") \/ C[t] # {}
    /\ t = "NetbirdUnpack" => h.netbird = s.version \/ Other(C, t, "version", s.version)
    /\ t = "CreateUser" => s.user \in h.users
    /\ t = "ClaimFileOwnership" => h.owner = s.user
    /\ t = "RequestLinuxNetworkCapability" => h.cap = TRUE
    /\ t = "CreateServiceFile" =>
           (h.unit = s.user /\ h.unitLoaded = s.user) \/ Other(C, t, "user", s.user)
    /\ t = "RestartService" =>
           /\ h.enabled = TRUE
           /\ \/ h.service = [version |-> s.version, user |-> s.user, peer |-> s.peer]
              \/ Other(C, "CreateServiceFile", "user", s.user)
    /\ t = "CreateBridge" => h.bridgeUp = TRUE \/ C[t] # {}
    /\ t = "CreateGreInterfaces" => h.gre = TRUE
    /\ t = "ConnectDeviceInterfaces" => h.joined = TRUE

\* What is left of it once the machine may have rebooted.
Left(t, s, h, C) ==
    IF t = "LoadKernelModules" THEN h.loaded = TRUE \/ C["CreateKernelModuleLoadRule"] # {}
    ELSE Post(t, s, h, C)

----------------------------------------------------------------------------
(* The inductive invariant.                                                 *)

\* The setups that leave a task half executed, the one under way included.
Cuts == [t \in TaskNames |->
            cut[t] \cup (IF run.at = "tasks" /\ run.step > 1 /\ Task = t THEN {run.setup} ELSE {})]

\* The fields of the host, and those that are Booleans.
HostFields ==
    {"caCarl", "caCarlSum", "caOs", "caOsSum", "trust", "exe", "link", "cap", "rperf", "loaded",
     "vcanRule", "canGwRule", "netbird", "netbirdSum", "netbirdService", "socket", "vpn", "users",
     "owner", "unit", "unitSum", "unitLoaded", "enabled", "service", "bridge", "bridgeUp", "gre",
     "joined", "plugin"}

Flags == {"link", "cap", "loaded", "bridge", "bridgeUp", "gre", "joined", "enabled"}

HostOK(h) == DOMAIN h = HostFields /\ \A f \in Flags : h[f] \in BOOLEAN

\* A file is partial only if the task that writes it was left half executed.
Whole(h, C) ==
    /\ h.netbird = Partial => C["NetbirdUnpack"] # {}
    /\ h.unit = Partial => C["CreateServiceFile"] # {}

HostInv == HostOK(host) /\ Fits(host, Cuts) /\ Whole(host, cut)

\* Where a run is while it sees to the configuration file.
Configuring == {"configure", "create", "restrict", "write"}

\* A run that is not dry has made its predecessor the last no longer, and has
\* written the configuration before its tasks.
RunInv ==
    /\ docker \in BOOLEAN /\ interruptions \in 0 .. MaxInterruptions
    /\ cut \in [TaskNames -> SUBSET Setups]
    /\ run.at \in {"idle", "tasks"} \cup Configuring
    /\ run # NotRunning => run.setup \in Setups /\ run.task \in 1 .. Len(Tasks(run.setup))
    /\ run.at = "tasks" => run.step \in 1 .. Len(StepsOf(Task))
    /\ run.at \in Configuring => run.task = 1 /\ run.step = 1 /\ run.setup.mode = "managed"
    /\ run # NotRunning /\ ~run.setup.dry => last = NoSetup
    /\ run.at = "tasks" /\ ~run.setup.dry /\ run.setup.mode = "managed" =>
           files.conf.peer = run.setup.peer

\* What the tasks of a run have done so far.
TasksInv ==
    run.at = "tasks" /\ ~run.setup.dry =>
        /\ TaskBegun(Task, run.step, run.setup, host, Cuts)
        /\ \A t \in TasksOf(run.setup) :
               Rank(run.setup.mode, t) < Rank(run.setup.mode, Task) => Post(t, run.setup, host, cut)

\* What the last setup that succeeded has left.
LastInv ==
    last # NoSetup =>
        /\ last \in Setups
        /\ last.mode = "managed" => files.conf.peer = last.peer
        /\ \A t \in TasksOf(last) : Left(t, last, host, cut)

Texts == {"none", "empty", "partial", "toml"}

TextsInv == \A f \in FileNames : files[f].text \in Texts

SetupInv == FilesInv /\ TextsInv /\ RunInv /\ HostInv /\ TasksInv /\ LastInv

\* A list of tasks in their order, all of them from lo up to hi.
Between(q, mode, lo, hi) ==
    /\ q \in Seq(TaskNames)
    /\ \A i \in 1 .. Len(q) : Rank(mode, q[i]) \in lo .. hi - 1
    /\ \A i, j \in 1 .. Len(q) : i < j => Rank(mode, q[i]) < Rank(mode, q[j])

Ascending(lo, mid, hi) == lo \in Int /\ mid \in Int /\ hi \in Int /\ lo <= mid /\ mid <= hi

\* A part of a list of tasks: its range in the order, and its tasks.
Part(q, mode, lo, hi, M) == Between(q, mode, lo, hi) /\ Entries(q) = M

\* Tasks after tasks that all come before them.
LEMMA PartsConcat ==
    ASSUME NEW mode, NEW a, NEW b, NEW lo, NEW mid, NEW hi, NEW A, NEW B,
           Ascending(lo, mid, hi), Part(a, mode, lo, mid, A), Part(b, mode, mid, hi, B)
    PROVE  Part(a \o b, mode, lo, hi, A \cup B)
<1> DEFINE q == a \o b
           R(t) == Rank(mode, t)
<1>0. lo \in Int /\ mid \in Int /\ hi \in Int /\ lo <= mid /\ mid <= hi
  BY DEF Ascending
<1>1. /\ a \in Seq(TaskNames) /\ b \in Seq(TaskNames) /\ Len(a) \in Nat /\ Len(b) \in Nat
      /\ \A i \in 1 .. Len(a) : R(a[i]) \in lo .. mid - 1
      /\ \A i \in 1 .. Len(b) : R(b[i]) \in mid .. hi - 1
      /\ \A i, j \in 1 .. Len(a) : i < j => R(a[i]) < R(a[j])
      /\ \A i, j \in 1 .. Len(b) : i < j => R(b[i]) < R(b[j])
  <2>1. a \in Seq(TaskNames) /\ b \in Seq(TaskNames)
    BY DEF Part, Between
  <2>2. Len(a) \in Nat /\ Len(b) \in Nat
    BY <2>1
  <2>3. /\ \A i \in 1 .. Len(a) : R(a[i]) \in lo .. mid - 1
        /\ \A i, j \in 1 .. Len(a) : i < j => R(a[i]) < R(a[j])
    BY DEF Part, Between
  <2>4. /\ \A i \in 1 .. Len(b) : R(b[i]) \in mid .. hi - 1
        /\ \A i, j \in 1 .. Len(b) : i < j => R(b[i]) < R(b[j])
    BY DEF Part, Between
  <2> QED
    BY <2>1, <2>2, <2>3, <2>4
<1>2. /\ q \in Seq(TaskNames) /\ Len(q) = Len(a) + Len(b)
      /\ \A i \in 1 .. Len(a) : q[i] = a[i]
      /\ \A i \in 1 .. Len(b) : q[Len(a) + i] = b[i]
  BY <1>1
<1> HIDE DEF q
<1>3. \A i \in 1 .. Len(q) : i \in 1 .. Len(a) \/ (i - Len(a) \in 1 .. Len(b) /\ i = Len(a) + (i - Len(a)))
  BY <1>1, <1>2
<1>4. \A i \in 1 .. Len(q) : \/ i \in 1 .. Len(a) /\ q[i] = a[i]
                             \/ i - Len(a) \in 1 .. Len(b) /\ q[i] = b[i - Len(a)]
  BY <1>2, <1>3
<1>5. \A i \in 1 .. Len(q) : R(q[i]) \in lo .. hi - 1
  BY <1>0, <1>1, <1>4
<1>6. ASSUME NEW i \in 1 .. Len(q), NEW j \in 1 .. Len(q), i < j
      PROVE  R(q[i]) < R(q[j])
  <2>1. CASE i \in 1 .. Len(a) /\ q[i] = a[i] /\ j \in 1 .. Len(a) /\ q[j] = a[j]
    BY <1>1, <1>6, <2>1
  <2>2. CASE /\ i \in 1 .. Len(a) /\ q[i] = a[i]
             /\ j - Len(a) \in 1 .. Len(b) /\ q[j] = b[j - Len(a)]
    <3>1. R(a[i]) \in lo .. mid - 1 /\ R(b[j - Len(a)]) \in mid .. hi - 1
      BY <1>1, <2>2
    <3> QED
      BY <1>0, <2>2, <3>1
  <2>3. CASE /\ i - Len(a) \in 1 .. Len(b) /\ q[i] = b[i - Len(a)]
             /\ j - Len(a) \in 1 .. Len(b) /\ q[j] = b[j - Len(a)]
    <3>1. i - Len(a) < j - Len(a)
      BY <1>1, <1>6
    <3> QED
      BY <1>1, <2>3, <3>1
  <2>4. ~ (i - Len(a) \in 1 .. Len(b) /\ j \in 1 .. Len(a))
    BY <1>1, <1>6
  <2> QED
    BY <1>4, <2>1, <2>2, <2>3, <2>4
<1>7. Entries(q) = Entries(a) \cup Entries(b)
  <2>1. \A i \in 1 .. Len(a) : i \in 1 .. Len(q) /\ a[i] = q[i]
    BY <1>1, <1>2
  <2>2. \A i \in 1 .. Len(b) : Len(a) + i \in 1 .. Len(q) /\ b[i] = q[Len(a) + i]
    BY <1>1, <1>2
  <2>3. Entries(q) \subseteq Entries(a) \cup Entries(b)
    BY <1>4 DEF Entries
  <2>4. Entries(a) \subseteq Entries(q)
    BY <2>1 DEF Entries
  <2>5. Entries(b) \subseteq Entries(q)
    BY <2>2 DEF Entries
  <2> QED
    BY <2>3, <2>4, <2>5
<1>8. Entries(a) = A /\ Entries(b) = B
  BY DEF Part
<1> QED
  BY <1>2, <1>5, <1>6, <1>7, <1>8 DEF q, Part, Between

\* What every managed setup begins with.
First == <<"Plugin", "WriteCaCertificate", "CheckCommandLinePrograms", "CheckCarlReachable",
           "CopyExecutable", "CopyRperf", "LoadKernelModules">>

\* The first seven tasks of a managed setup come in this order.
LEMMA FirstTasks ==
    /\ Between(First, "managed", 1, 8)
    /\ Entries(First) = {"Plugin", "WriteCaCertificate", "CheckCommandLinePrograms",
                         "CheckCarlReachable", "CopyExecutable", "CopyRperf", "LoadKernelModules"}
<1>1. First \in Seq(TaskNames) /\ Len(First) = 7
  BY DEF First, TaskNames
<1>2. \A i \in 1 .. 7 : Rank("managed", First[i]) = i
  <2>1. \A i \in 1 .. 7 : i \in {1, 2, 3, 4, 5, 6, 7}
    OBVIOUS
  <2> QED
    BY <2>1 DEF First, Rank
<1>3. Entries(First) = {First[i] : i \in 1 .. 7}
  BY <1>1 DEF Entries
<1>4. 1 .. 7 = {1, 2, 3, 4, 5, 6, 7}
  OBVIOUS
<1>5. {First[i] : i \in {1, 2, 3, 4, 5, 6, 7}} =
         {First[1], First[2], First[3], First[4], First[5], First[6], First[7]}
  OBVIOUS
<1> QED
  BY <1>1, <1>2, <1>3, <1>4, <1>5 DEF Between, First

\* Lists of up to four tasks.
LEMMA NoTasks ==
    ASSUME NEW mode, NEW lo \in Int, NEW hi \in Int
    PROVE  Between(<<>>, mode, lo, hi) /\ Entries(<<>>) = {}
<1>1. <<>> \in Seq(TaskNames) /\ Len(<<>>) = 0
  OBVIOUS
<1> QED
  BY <1>1 DEF Between, Entries

\* Lists of one to four tasks that are in order.
LEMMA OneTask ==
    ASSUME NEW mode, NEW t \in TaskNames, Rank(mode, t) \in Int
    PROVE  /\ Between(<<t>>, mode, Rank(mode, t), Rank(mode, t) + 1)
           /\ Entries(<<t>>) = {t}
<1> DEFINE q == <<t>>
<1>1. q \in Seq(TaskNames) /\ Len(q) = 1 /\ q[1] = t
  OBVIOUS
<1>2. 1 .. Len(q) = {1}
  BY <1>1
<1> HIDE DEF q
<1>3. Between(q, mode, Rank(mode, t), Rank(mode, t) + 1)
  BY <1>1, <1>2 DEF Between
<1>4. Entries(q) = {t}
  BY <1>1, <1>2 DEF Entries
<1> QED
  BY <1>3, <1>4 DEF q

\* What lies in a range lies in a wider one.
LEMMA Wider ==
    ASSUME NEW mode, NEW q, NEW lo \in Int, NEW hi \in Int, NEW a \in Int, NEW b \in Int,
           a <= lo, hi <= b, Between(q, mode, lo, hi)
    PROVE  Between(q, mode, a, b)
<1>1. \A n \in lo .. hi - 1 : n \in a .. b - 1
  OBVIOUS
<1> QED
  BY <1>1 DEF Between

\* Two tasks, the earlier one first.
LEMMA TwoTasks ==
    ASSUME NEW mode, NEW t \in TaskNames, NEW u \in TaskNames,
           Rank(mode, t) \in Int, Rank(mode, u) \in Int, Rank(mode, t) < Rank(mode, u)
    PROVE  /\ Between(<<t, u>>, mode, Rank(mode, t), Rank(mode, u) + 1)
           /\ Entries(<<t, u>>) = {t, u}
<1> DEFINE q == <<t, u>>
<1>1. q \in Seq(TaskNames) /\ Len(q) = 2 /\ q[1] = t /\ q[2] = u
  OBVIOUS
<1>2. 1 .. Len(q) = {1, 2}
  BY <1>1
<1> HIDE DEF q
<1>3. Between(q, mode, Rank(mode, t), Rank(mode, u) + 1)
  BY <1>1, <1>2 DEF Between
<1>4. Entries(q) = {t, u}
  BY <1>1, <1>2 DEF Entries
<1> QED
  BY <1>3, <1>4 DEF q

\* Three tasks in their order.
LEMMA ThreeTasks ==
    ASSUME NEW mode, NEW t \in TaskNames, NEW u \in TaskNames, NEW v \in TaskNames,
           Rank(mode, t) \in Int, Rank(mode, u) \in Int, Rank(mode, v) \in Int,
           Rank(mode, t) < Rank(mode, u), Rank(mode, u) < Rank(mode, v)
    PROVE  /\ Between(<<t, u, v>>, mode, Rank(mode, t), Rank(mode, v) + 1)
           /\ Entries(<<t, u, v>>) = {t, u, v}
<1> DEFINE q == <<t, u, v>>
<1>1. q \in Seq(TaskNames) /\ Len(q) = 3 /\ q[1] = t /\ q[2] = u /\ q[3] = v
  OBVIOUS
<1>2. 1 .. Len(q) = {1, 2, 3}
  BY <1>1
<1> HIDE DEF q
<1>3. Between(q, mode, Rank(mode, t), Rank(mode, v) + 1)
  BY <1>1, <1>2 DEF Between
<1>4. Entries(q) = {t, u, v}
  BY <1>1, <1>2 DEF Entries
<1> QED
  BY <1>3, <1>4 DEF q

\* Four tasks in their order.
LEMMA FourTasks ==
    ASSUME NEW mode, NEW t \in TaskNames, NEW u \in TaskNames, NEW v \in TaskNames,
           NEW w \in TaskNames,
           Rank(mode, t) \in Int, Rank(mode, u) \in Int, Rank(mode, v) \in Int, Rank(mode, w) \in Int,
           Rank(mode, t) < Rank(mode, u), Rank(mode, u) < Rank(mode, v), Rank(mode, v) < Rank(mode, w)
    PROVE  /\ Between(<<t, u, v, w>>, mode, Rank(mode, t), Rank(mode, w) + 1)
           /\ Entries(<<t, u, v, w>>) = {t, u, v, w}
<1> DEFINE q == <<t, u, v, w>>
<1>1. q \in Seq(TaskNames) /\ Len(q) = 4 /\ q[1] = t /\ q[2] = u /\ q[3] = v /\ q[4] = w
  OBVIOUS
<1>2. 1 .. Len(q) = {1, 2, 3, 4}
  BY <1>1
<1> HIDE DEF q
<1>3. Between(q, mode, Rank(mode, t), Rank(mode, w) + 1)
  BY <1>1, <1>2 DEF Between
<1>4. Entries(q) = {t, u, v, w}
  BY <1>1, <1>2 DEF Entries
<1> QED
  BY <1>3, <1>4 DEF q

\* Where the parts of the lists of tasks come.
LEMMA Parts ==
    /\ Between(<<"CreateKernelModuleLoadRule">>, "managed", 8, 9)
    /\ Entries(<<"CreateKernelModuleLoadRule">>) = {"CreateKernelModuleLoadRule"}
    /\ \A mode \in {"managed", "unmanaged"} :
           /\ Between(Netbird, mode, 9, 13)
           /\ Entries(Netbird) = {"NetbirdUnpack", "NetbirdInstallService", "NetbirdRestartService",
                                  "NetbirdConnect"}
    /\ \A s \in Setups :
           /\ Between(UserTasks(s), "managed", 13, 16)
           /\ Entries(UserTasks(s)) =
                 IF s.user = "root" THEN {}
                 ELSE {"CreateUser", "ClaimFileOwnership", "RequestLinuxNetworkCapability"}
    /\ Between(<<"CreateServiceFile", "RestartService">>, "managed", 16, 18)
    /\ Entries(<<"CreateServiceFile", "RestartService">>) = {"CreateServiceFile", "RestartService"}
    /\ Between(<<"Plugin", "CheckCommandLinePrograms">>, "unmanaged", 1, 9)
    /\ Entries(<<"Plugin", "CheckCommandLinePrograms">>) = {"Plugin", "CheckCommandLinePrograms"}
    /\ Between(<<"CreateBridge", "CreateGreInterfaces", "ConnectDeviceInterfaces", "CopyRperf">>,
               "unmanaged", 18, 22)
    /\ Entries(<<"CreateBridge", "CreateGreInterfaces", "ConnectDeviceInterfaces", "CopyRperf">>) =
           {"CreateBridge", "CreateGreInterfaces", "ConnectDeviceInterfaces", "CopyRperf"}
<1>1. /\ Rank("managed", "CreateKernelModuleLoadRule") = 8
      /\ Rank("managed", "CreateUser") = 13 /\ Rank("managed", "ClaimFileOwnership") = 14
      /\ Rank("managed", "RequestLinuxNetworkCapability") = 15
      /\ Rank("managed", "CreateServiceFile") = 16 /\ Rank("managed", "RestartService") = 17
      /\ Rank("unmanaged", "Plugin") = 1 /\ Rank("unmanaged", "CheckCommandLinePrograms") = 3
      /\ Rank("unmanaged", "CreateBridge") = 18 /\ Rank("unmanaged", "CreateGreInterfaces") = 19
      /\ Rank("unmanaged", "ConnectDeviceInterfaces") = 20 /\ Rank("unmanaged", "CopyRperf") = 21
  BY DEF Rank
<1>2. \A mode : /\ Rank(mode, "NetbirdUnpack") = 9 /\ Rank(mode, "NetbirdInstallService") = 10
                /\ Rank(mode, "NetbirdRestartService") = 11 /\ Rank(mode, "NetbirdConnect") = 12
  BY DEF Rank
<1>3. /\ "CreateKernelModuleLoadRule" \in TaskNames /\ "CreateUser" \in TaskNames
      /\ "ClaimFileOwnership" \in TaskNames /\ "RequestLinuxNetworkCapability" \in TaskNames
      /\ "CreateServiceFile" \in TaskNames /\ "RestartService" \in TaskNames
      /\ "Plugin" \in TaskNames /\ "CheckCommandLinePrograms" \in TaskNames
      /\ "CreateBridge" \in TaskNames /\ "CreateGreInterfaces" \in TaskNames
      /\ "ConnectDeviceInterfaces" \in TaskNames /\ "CopyRperf" \in TaskNames
      /\ "NetbirdUnpack" \in TaskNames /\ "NetbirdInstallService" \in TaskNames
      /\ "NetbirdRestartService" \in TaskNames /\ "NetbirdConnect" \in TaskNames
  BY DEF TaskNames
<1>4. /\ Between(<<"CreateKernelModuleLoadRule">>, "managed", 8, 9)
      /\ Entries(<<"CreateKernelModuleLoadRule">>) = {"CreateKernelModuleLoadRule"}
  BY <1>1, <1>3, OneTask
<1>5. ASSUME NEW mode \in {"managed", "unmanaged"}
      PROVE  /\ Between(Netbird, mode, 9, 13)
             /\ Entries(Netbird) = {"NetbirdUnpack", "NetbirdInstallService",
                                    "NetbirdRestartService", "NetbirdConnect"}
  <2> DEFINE t == "NetbirdUnpack"
             u == "NetbirdInstallService"
             v == "NetbirdRestartService"
             w == "NetbirdConnect"
  <2>1. /\ t \in TaskNames /\ u \in TaskNames /\ v \in TaskNames /\ w \in TaskNames
        /\ Rank(mode, t) = 9 /\ Rank(mode, u) = 10 /\ Rank(mode, v) = 11 /\ Rank(mode, w) = 12
    BY <1>2, <1>3
  <2>2. Netbird = <<t, u, v, w>>
    BY DEF Netbird
  <2> HIDE DEF t, u, v, w
  <2>3. /\ Between(<<t, u, v, w>>, mode, Rank(mode, t), Rank(mode, w) + 1)
        /\ Entries(<<t, u, v, w>>) = {t, u, v, w}
    BY <2>1, FourTasks
  <2> QED
    BY <2>1, <2>2, <2>3 DEF t, u, v, w
<1>6. ASSUME NEW s \in Setups
      PROVE  /\ Between(UserTasks(s), "managed", 13, 16)
             /\ Entries(UserTasks(s)) =
                   IF s.user = "root" THEN {}
                   ELSE {"CreateUser", "ClaimFileOwnership", "RequestLinuxNetworkCapability"}
  <2>1. CASE s.user = "root"
    BY <2>1, NoTasks DEF UserTasks
  <2>2. CASE s.user # "root"
    BY <1>1, <1>3, <2>2, ThreeTasks DEF UserTasks
  <2> QED
    BY <2>1, <2>2
<1>7. /\ Between(<<"CreateServiceFile", "RestartService">>, "managed", 16, 18)
      /\ Entries(<<"CreateServiceFile", "RestartService">>) = {"CreateServiceFile", "RestartService"}
  BY <1>1, <1>3, TwoTasks
<1>8. /\ Between(<<"Plugin", "CheckCommandLinePrograms">>, "unmanaged", 1, 9)
      /\ Entries(<<"Plugin", "CheckCommandLinePrograms">>) = {"Plugin", "CheckCommandLinePrograms"}
  <2>1. /\ Between(<<"Plugin", "CheckCommandLinePrograms">>, "unmanaged", 1, 4)
        /\ Entries(<<"Plugin", "CheckCommandLinePrograms">>) = {"Plugin", "CheckCommandLinePrograms"}
    BY <1>1, <1>3, TwoTasks
  <2> QED
    BY <2>1, Wider
<1>9. /\ Between(<<"CreateBridge", "CreateGreInterfaces", "ConnectDeviceInterfaces", "CopyRperf">>,
                 "unmanaged", 18, 22)
      /\ Entries(<<"CreateBridge", "CreateGreInterfaces", "ConnectDeviceInterfaces", "CopyRperf">>) =
             {"CreateBridge", "CreateGreInterfaces", "ConnectDeviceInterfaces", "CopyRperf"}
  <2> DEFINE t == "CreateBridge"
             u == "CreateGreInterfaces"
             v == "ConnectDeviceInterfaces"
             w == "CopyRperf"
             mode == "unmanaged"
  <2>1. /\ t \in TaskNames /\ u \in TaskNames /\ v \in TaskNames /\ w \in TaskNames
        /\ Rank(mode, t) = 18 /\ Rank(mode, u) = 19 /\ Rank(mode, v) = 20 /\ Rank(mode, w) = 21
    BY <1>1, <1>3
  <2> HIDE DEF t, u, v, w, mode
  <2>2. /\ Between(<<t, u, v, w>>, mode, Rank(mode, t), Rank(mode, w) + 1)
        /\ Entries(<<t, u, v, w>>) = {t, u, v, w}
    BY <2>1, FourTasks
  <2> QED
    BY <2>1, <2>2 DEF t, u, v, w, mode
<1> QED
  BY <1>4, <1>5, <1>6, <1>7, <1>8, <1>9

\* What the assumption says of a command line.
LEMMA SetupFacts ==
    ASSUME NEW s \in Setups
    PROVE  /\ s.mode \in {"managed", "unmanaged"} /\ s.dry \in BOOLEAN /\ s.vpn \in BOOLEAN
           /\ s.cert \notin {Absent, Partial} /\ s.version \notin {Absent, Partial}
           /\ s.user \notin {Absent, Partial} /\ s.peer \notin {Absent, Partial}
           /\ Absent # Partial /\ MaxInterruptions \in Nat
<1>1. /\ s.mode \in {"managed", "unmanaged"} /\ {s.dry, s.noConfirm, s.vpn} \subseteq BOOLEAN
      /\ {Absent, Partial} \cap {s.cert, s.version, s.user, s.peer} = {}
      /\ Absent # Partial /\ MaxInterruptions \in Nat
  BY SetupAssumption
<1>2. s.dry \in BOOLEAN /\ s.vpn \in BOOLEAN
  BY <1>1
<1>3. \A x \in {Absent, Partial} : \A y \in {s.cert, s.version, s.user, s.peer} : x # y
  BY <1>1
<1>4. /\ s.cert \notin {Absent, Partial} /\ s.version \notin {Absent, Partial}
      /\ s.user \notin {Absent, Partial} /\ s.peer \notin {Absent, Partial}
  BY <1>3
<1> QED
  BY <1>1, <1>2, <1>4

\* No tasks are in order, in any range.
LEMMA NoPart ==
    ASSUME NEW mode, NEW lo \in Int, NEW hi \in Int
    PROVE  Part(<<>>, mode, lo, hi, {})
  BY NoTasks DEF Part

\* The tasks of a setup, in their order.
LEMMA ManagedTasks ==
    ASSUME NEW s \in Setups
    PROVE  Part(Managed(s), "managed", 1, 18,
                 {"Plugin", "WriteCaCertificate", "CheckCommandLinePrograms", "CheckCarlReachable",
                  "CopyExecutable", "CopyRperf", "LoadKernelModules"}
                 \cup (IF docker THEN {} ELSE {"CreateKernelModuleLoadRule"})
                 \cup (IF s.vpn THEN {"NetbirdUnpack", "NetbirdInstallService",
                                      "NetbirdRestartService", "NetbirdConnect"} ELSE {})
                 \cup (IF s.user = "root" THEN {}
                       ELSE {"CreateUser", "ClaimFileOwnership", "RequestLinuxNetworkCapability"})
                 \cup {"CreateServiceFile", "RestartService"})
<1> DEFINE m  == "managed"
           q2 == IF docker THEN <<>> ELSE <<"CreateKernelModuleLoadRule">>
           q3 == IF s.vpn THEN Netbird ELSE <<>>
           q4 == UserTasks(s)
           q5 == <<"CreateServiceFile", "RestartService">>
           M1 == {"Plugin", "WriteCaCertificate", "CheckCommandLinePrograms", "CheckCarlReachable",
                  "CopyExecutable", "CopyRperf", "LoadKernelModules"}
           M2 == IF docker THEN {} ELSE {"CreateKernelModuleLoadRule"}
           M3 == IF s.vpn THEN {"NetbirdUnpack", "NetbirdInstallService",
                                "NetbirdRestartService", "NetbirdConnect"} ELSE {}
           M4 == IF s.user = "root" THEN {}
                 ELSE {"CreateUser", "ClaimFileOwnership", "RequestLinuxNetworkCapability"}
           M5 == {"CreateServiceFile", "RestartService"}
<1>1. Managed(s) = First \o q2 \o q3 \o q4 \o q5
  BY DEF Managed, First
<1>2. Part(First, m, 1, 8, M1)
  BY FirstTasks DEF Part
<1>3. Part(q2, m, 8, 9, M2)
  <2>1. CASE docker
    <3>1. q2 = <<>> /\ M2 = {}
      BY <2>1
    <3> QED
      BY <3>1, NoPart
  <2>2. CASE ~docker
    <3>1. q2 = <<"CreateKernelModuleLoadRule">> /\ M2 = {"CreateKernelModuleLoadRule"}
      BY <2>2
    <3> QED
      BY <3>1, Parts DEF Part
  <2> QED
    BY <2>1, <2>2
<1>4. Part(q3, m, 9, 13, M3)
  <2>1. CASE s.vpn
    <3>1. /\ q3 = Netbird
          /\ M3 = {"NetbirdUnpack", "NetbirdInstallService", "NetbirdRestartService", "NetbirdConnect"}
      BY <2>1
    <3> QED
      BY <3>1, Parts DEF Part
  <2>2. CASE ~s.vpn
    <3>1. q3 = <<>> /\ M3 = {}
      BY <2>2
    <3> QED
      BY <3>1, NoPart
  <2> QED
    BY <2>1, <2>2
<1>5. Part(q4, m, 13, 16, M4)
  BY Parts DEF Part
<1>6. Part(q5, m, 16, 18, M5)
  BY Parts DEF Part
<1>7. /\ Ascending(1, 8, 9) /\ Ascending(1, 9, 13) /\ Ascending(1, 13, 16) /\ Ascending(1, 16, 18)
  BY DEF Ascending
<1> HIDE DEF m, q2, q3, q4, q5, M1, M2, M3, M4, M5
<1>8. Part(First \o q2, m, 1, 9, M1 \cup M2)
  BY <1>2, <1>3, <1>7, PartsConcat
<1>9. Part(First \o q2 \o q3, m, 1, 13, M1 \cup M2 \cup M3)
  BY <1>4, <1>7, <1>8, PartsConcat
<1>10. Part(First \o q2 \o q3 \o q4, m, 1, 16, M1 \cup M2 \cup M3 \cup M4)
  BY <1>5, <1>7, <1>9, PartsConcat
<1>11. Part(First \o q2 \o q3 \o q4 \o q5, m, 1, 18, M1 \cup M2 \cup M3 \cup M4 \cup M5)
  BY <1>6, <1>7, <1>10, PartsConcat
<1> QED
  BY <1>1, <1>11 DEF m, M1, M2, M3, M4, M5

\* The tasks of an unmanaged setup are in order as well.
LEMMA UnmanagedTasks ==
    Part(Unmanaged, "unmanaged", 1, 22,
         {"Plugin", "CheckCommandLinePrograms"}
         \cup {"NetbirdUnpack", "NetbirdInstallService", "NetbirdRestartService", "NetbirdConnect"}
         \cup {"CreateBridge", "CreateGreInterfaces", "ConnectDeviceInterfaces", "CopyRperf"})
<1> DEFINE m  == "unmanaged"
           q1 == <<"Plugin", "CheckCommandLinePrograms">>
           q3 == <<"CreateBridge", "CreateGreInterfaces", "ConnectDeviceInterfaces", "CopyRperf">>
           M1 == {"Plugin", "CheckCommandLinePrograms"}
           M2 == {"NetbirdUnpack", "NetbirdInstallService", "NetbirdRestartService", "NetbirdConnect"}
           M3 == {"CreateBridge", "CreateGreInterfaces", "ConnectDeviceInterfaces", "CopyRperf"}
<1>1. Unmanaged = q1 \o Netbird \o q3
  BY DEF Unmanaged
<1>2. Part(q1, m, 1, 9, M1) /\ Part(Netbird, m, 9, 13, M2)
  BY Parts DEF Part
<1>3. Part(q3, m, 13, 22, M3)
  BY Parts, Wider DEF Part
<1>4. Ascending(1, 9, 13) /\ Ascending(1, 13, 22)
  BY DEF Ascending
<1> HIDE DEF m, q1, q3, M1, M2, M3
<1>5. Part(q1 \o Netbird, m, 1, 13, M1 \cup M2)
  BY <1>2, <1>4, PartsConcat
<1>6. Part(q1 \o Netbird \o q3, m, 1, 22, M1 \cup M2 \cup M3)
  BY <1>3, <1>4, <1>5, PartsConcat
<1> QED
  BY <1>1, <1>6 DEF m, M1, M2, M3

\* The order of a setup's tasks.
LEMMA TasksInOrder ==
    ASSUME NEW s \in Setups
    PROVE  Between(Tasks(s), s.mode, 1, 22) /\ Len(Tasks(s)) \in Nat /\ Len(Tasks(s)) > 0
<1>1. s.mode \in {"managed", "unmanaged"}
  BY SetupFacts
<1>2. CASE s.mode = "managed"
  <2>1. Tasks(s) = Managed(s)
    BY <1>2 DEF Tasks
  <2>2. Between(Managed(s), "managed", 1, 18) /\ "RestartService" \in Entries(Managed(s))
    BY ManagedTasks DEF Part
  <2>3. Between(Tasks(s), s.mode, 1, 22) /\ Entries(Tasks(s)) # {}
    BY <1>2, <2>1, <2>2, Wider
  <2>4. Len(Tasks(s)) \in Nat
    BY <2>3 DEF Between
  <2> QED
    BY <2>3, <2>4 DEF Entries
<1>3. CASE s.mode = "unmanaged"
  <2>1. Tasks(s) = Unmanaged
    BY <1>3 DEF Tasks
  <2>2. Between(Unmanaged, "unmanaged", 1, 22) /\ "Plugin" \in Entries(Unmanaged)
    BY UnmanagedTasks DEF Part
  <2>3. Between(Tasks(s), s.mode, 1, 22) /\ Entries(Tasks(s)) # {}
    BY <1>3, <2>1, <2>2
  <2>4. Len(Tasks(s)) \in Nat
    BY <2>3 DEF Between
  <2> QED
    BY <2>3, <2>4 DEF Entries
<1> QED
  BY <1>1, <1>2, <1>3

\* The tasks that come with others.
LEMMA TasksTogether ==
    ASSUME NEW s \in Setups
    PROVE  /\ "RestartService" \in TasksOf(s) =>
                  /\ s.mode = "managed"
                  /\ "CopyExecutable" \in TasksOf(s) /\ "CreateServiceFile" \in TasksOf(s)
           /\ "LoadKernelModules" \in TasksOf(s) =>
                  docker \/ "CreateKernelModuleLoadRule" \in TasksOf(s)
           /\ "RequestLinuxNetworkCapability" \in TasksOf(s) =>
                  "CreateUser" \in TasksOf(s) /\ "ClaimFileOwnership" \in TasksOf(s)
           /\ "CreateBridge" \in TasksOf(s) =>
                  "CreateGreInterfaces" \in TasksOf(s) /\ "ConnectDeviceInterfaces" \in TasksOf(s)
           /\ s.mode = "managed" =>
                  TasksOf(s) \cap {"CreateBridge", "CreateGreInterfaces", "ConnectDeviceInterfaces"} = {}
<1>1. s.mode \in {"managed", "unmanaged"}
  BY SetupFacts
<1>2. CASE s.mode = "managed"
  <2>1. TasksOf(s) =
            {"Plugin", "WriteCaCertificate", "CheckCommandLinePrograms", "CheckCarlReachable",
             "CopyExecutable", "CopyRperf", "LoadKernelModules"}
            \cup (IF docker THEN {} ELSE {"CreateKernelModuleLoadRule"})
            \cup (IF s.vpn THEN {"NetbirdUnpack", "NetbirdInstallService",
                                 "NetbirdRestartService", "NetbirdConnect"} ELSE {})
            \cup (IF s.user = "root" THEN {}
                  ELSE {"CreateUser", "ClaimFileOwnership", "RequestLinuxNetworkCapability"})
            \cup {"CreateServiceFile", "RestartService"}
    BY <1>2, ManagedTasks DEF Part, TasksOf, Tasks
  <2> QED
    BY <1>2, <2>1
<1>3. CASE s.mode = "unmanaged"
  <2>1. TasksOf(s) =
            {"Plugin", "CheckCommandLinePrograms"}
            \cup {"NetbirdUnpack", "NetbirdInstallService", "NetbirdRestartService", "NetbirdConnect"}
            \cup {"CreateBridge", "CreateGreInterfaces", "ConnectDeviceInterfaces", "CopyRperf"}
    BY <1>3, UnmanagedTasks DEF Part, TasksOf, Tasks
  <2> QED
    BY <1>3, <2>1
<1> QED
  BY <1>1, <1>2, <1>3

\* What comes before the next task of a setup comes before this one, or is it.
LEMMA TasksBefore ==
    ASSUME NEW s \in Setups, NEW i \in 1 .. Len(Tasks(s))
    PROVE  /\ Tasks(s)[i] \in TasksOf(s) /\ Tasks(s)[i] \in TaskNames
           /\ i # Len(Tasks(s)) =>
                  /\ i + 1 \in 1 .. Len(Tasks(s))
                  /\ \A t \in TasksOf(s) :
                         Rank(s.mode, t) < Rank(s.mode, Tasks(s)[i + 1]) =>
                             t = Tasks(s)[i] \/ Rank(s.mode, t) < Rank(s.mode, Tasks(s)[i])
           /\ i = Len(Tasks(s)) =>
                  \A t \in TasksOf(s) :
                      t = Tasks(s)[i] \/ Rank(s.mode, t) < Rank(s.mode, Tasks(s)[i])
<1> DEFINE q == Tasks(s)
           R(t) == Rank(s.mode, t)
<1>1. /\ q \in Seq(TaskNames) /\ Len(q) \in Nat
      /\ \A j \in 1 .. Len(q) : R(q[j]) \in 1 .. 21
      /\ \A j, k \in 1 .. Len(q) : j < k => R(q[j]) < R(q[k])
  <2>1. Between(q, s.mode, 1, 22) /\ 22 - 1 = 21
    BY TasksInOrder
  <2> HIDE DEF q
  <2>2. q \in Seq(TaskNames)
    BY <2>1 DEF Between
  <2>3. Len(q) \in Nat
    BY <2>2
  <2>4. /\ \A j \in 1 .. Len(q) : R(q[j]) \in 1 .. 22 - 1
        /\ \A j, k \in 1 .. Len(q) : j < k => R(q[j]) < R(q[k])
    BY <2>1 DEF Between
  <2>5. \A j \in 1 .. Len(q) : R(q[j]) \in 1 .. 21
    BY <2>1, <2>4
  <2> QED
    BY <2>2, <2>3, <2>4, <2>5
<1>2. \A t \in TasksOf(s) : \E j \in 1 .. Len(q) : t = q[j]
  BY DEF TasksOf, Entries
<1>3. q[i] \in TasksOf(s) /\ q[i] \in TaskNames
  BY <1>1 DEF TasksOf, Entries
<1> HIDE DEF q
<1>4. ASSUME NEW j \in 1 .. Len(q)
      PROVE  j < i \/ j = i \/ i + 1 = j \/ i + 1 < j
  BY <1>1 DEF q
<1>5. i \in 1 .. Len(q)
  BY DEF q
<1>6. ASSUME i # Len(q)
      PROVE  /\ i + 1 \in 1 .. Len(q)
             /\ \A t \in TasksOf(s) : R(t) < R(q[i + 1]) => t = q[i] \/ R(t) < R(q[i])
  <2>1. i + 1 \in 1 .. Len(q)
    BY <1>1, <1>5, <1>6
  <2>2. ASSUME NEW j \in 1 .. Len(q), R(q[j]) < R(q[i + 1])
        PROVE  q[j] = q[i] \/ R(q[j]) < R(q[i])
    <3>1. ~ (i + 1 = j)
      <4>1. \A k \in 1 .. Len(q) : R(q[k]) \in 1 .. 21
        BY <1>1
      <4>2. R(q[i + 1]) \in 1 .. 21
        BY <2>1, <4>1
      <4>3. \A x \in 1 .. 21 : ~ (x < x)
        OBVIOUS
      <4>4. ~ (R(q[i + 1]) < R(q[i + 1]))
        BY <4>2, <4>3
      <4> QED
        BY <2>2, <4>4
    <3>2. ~ (i + 1 < j)
      <4>0. \A k \in 1 .. Len(q) : k < j => R(q[k]) < R(q[j])
        BY <1>1
      <4>1. \A k \in 1 .. Len(q) : R(q[k]) \in Int
        <5>1. \A n \in 1 .. 21 : n \in Int
          OBVIOUS
        <5> QED
          BY <1>1, <5>1
      <4>2. R(q[j]) \in Int /\ R(q[i + 1]) \in Int
        BY <2>1, <4>1
      <4>3. i + 1 < j => R(q[i + 1]) < R(q[j])
        BY <2>1, <4>0
      <4> QED
        BY <2>2, <4>2, <4>3
    <3>3. j < i => R(q[j]) < R(q[i])
      BY <1>1, <1>5
    <3> QED
      BY <1>4, <3>1, <3>2, <3>3
  <2> QED
    BY <1>2, <2>1, <2>2
<1>7. ASSUME i = Len(q), NEW j \in 1 .. Len(q)
      PROVE  q[j] = q[i] \/ R(q[j]) < R(q[i])
  <2>1. j < i \/ j = i
    BY <1>1, <1>5, <1>7
  <2> QED
    BY <1>1, <1>5, <2>1
<1> QED
  BY <1>2, <1>3, <1>6, <1>7 DEF q

\* The first task comes before all others.
LEMMA NothingBefore ==
    ASSUME NEW s \in Setups, NEW t \in TasksOf(s)
    PROVE  ~ (Rank(s.mode, t) < Rank(s.mode, Tasks(s)[1]))
<1> DEFINE q == Tasks(s)
           R(x) == Rank(s.mode, x)
<1>1. Between(q, s.mode, 1, 22) /\ Len(q) \in Nat /\ Len(q) > 0
  BY TasksInOrder
<1>2. PICK j \in 1 .. Len(q) : t = q[j]
  BY DEF TasksOf, Entries
<1> HIDE DEF q
<1>3. /\ \A k \in 1 .. Len(q) : R(q[k]) \in 1 .. 22 - 1
      /\ \A i, k \in 1 .. Len(q) : i < k => R(q[i]) < R(q[k])
  BY <1>1 DEF Between
<1>4. 1 \in 1 .. Len(q) /\ (j = 1 \/ 1 < j)
  BY <1>1
<1>5. R(q[1]) \in Int /\ R(q[j]) \in Int
  <2>1. \A k \in 1 .. Len(q) : R(q[k]) \in 1 .. 22 - 1
    BY <1>3
  <2>2. \A x \in 1 .. 22 - 1 : x \in Int
    OBVIOUS
  <2> QED
    BY <1>4, <2>1, <2>2
<1>6. j = 1 \/ R(q[1]) < R(q[j])
  <2>1. \A k \in 1 .. Len(q) : 1 < k => R(q[1]) < R(q[k])
    BY <1>3, <1>4
  <2> QED
    BY <1>4, <2>1
<1>7. ~ (R(q[j]) < R(q[1]))
  BY <1>5, <1>6
<1>8. ~ (R(t) < R(q[1]))
  BY <1>2, <1>7
<1> QED
  BY <1>8 DEF q

\* Who comes before whom.
LEMMA Precedence ==
    ASSUME NEW mode, NEW t \in TaskNames, NEW u \in TaskNames, Rank(mode, t) < Rank(mode, u)
    PROVE  /\ t # u
           /\ ~ (t = "RequestLinuxNetworkCapability" /\ u \in {"CopyExecutable", "ClaimFileOwnership"})
           /\ ~ (t = "RestartService" /\ u \in {"CopyExecutable", "CreateServiceFile"})
<1>1. \A x \in TaskNames : Rank(mode, x) \in Int
  BY DEF Rank, TaskNames
<1>2. /\ Rank(mode, "RequestLinuxNetworkCapability") = 15 /\ Rank(mode, "CopyExecutable") = 5
      /\ Rank(mode, "ClaimFileOwnership") = 14 /\ Rank(mode, "RestartService") = 17
      /\ Rank(mode, "CreateServiceFile") = 16
  BY DEF Rank
<1> QED
  BY <1>1, <1>2

\* The service is restarted after its executable and its unit are in place.
LEMMA ServiceLast ==
    ASSUME NEW mode
    PROVE  /\ Rank(mode, "CopyExecutable") < Rank(mode, "RestartService")
           /\ Rank(mode, "CreateServiceFile") < Rank(mode, "RestartService")
<1>1. /\ Rank(mode, "CopyExecutable") = 5 /\ Rank(mode, "RestartService") = 17
      /\ Rank(mode, "CreateServiceFile") = 16
  BY DEF Rank
<1> QED
  BY <1>1

----------------------------------------------------------------------------
(* What a step does to the host.                                            *)

\* Host g is h with v for f.
Sets(g, h, f, v) ==
    /\ DOMAIN g = HostFields /\ g[f] = v
    /\ \A x \in HostFields : x # f => g[x] = h[x]

Sets2(g, h, e, u, f, v) ==
    /\ DOMAIN g = HostFields /\ g[e] = u /\ g[f] = v
    /\ \A x \in HostFields : x \notin {e, f} => g[x] = h[x]

\* Each step writes a field, some of them two.
LEMMA DoneSets ==
    ASSUME NEW h, DOMAIN h = HostFields, NEW s
    PROVE  /\ Done("nothing", s, h) = h /\ Done("restrict", s, h) = h
           /\ Sets(Done("caCarl", s, h), h, "caCarl", s.cert)
           /\ Sets(Done("caCarlSum", s, h), h, "caCarlSum", h.caCarl)
           /\ Sets(Done("caOs", s, h), h, "caOs", h.caCarl)
           /\ Sets(Done("trust", s, h), h, "trust", h.caOs)
           /\ Sets(Done("caOsSum", s, h), h, "caOsSum", h.caOs)
           /\ Sets(Done("stop", s, h), h, "service", Absent)
           /\ Sets2(Done("exe", s, h), h, "exe", s.version, "cap", FALSE)
           /\ Sets(Done("unlink", s, h), h, "link", FALSE)
           /\ Sets(Done("rperf", s, h), h, "rperf", s.version)
           /\ Sets(Done("netbird", s, h), h, "netbird", s.version)
           /\ Sets(Done("netbirdSum", s, h), h, "netbirdSum", s.version)
           /\ Sets(Done("vcanRule", s, h), h, "vcanRule", "rule")
           /\ Sets(Done("canGwRule", s, h), h, "canGwRule", "rule")
           /\ Sets(Done("users", s, h), h, "users", h.users \cup {s.user})
           /\ Sets2(Done("owner", s, h), h, "owner", s.user, "cap", FALSE)
           /\ Sets(Done("unit", s, h), h, "unit", s.user)
           /\ Sets(Done("unitLoaded", s, h), h, "unitLoaded", h.unit)
           /\ Sets(Done("unitSum", s, h), h, "unitSum", s.user)
           /\ Sets2(Done("start", s, h), h, "service", Service(h), "enabled", TRUE)
           /\ \A a \in {"plugin", "link", "loaded", "netbirdService", "socket", "vpn", "cap",
                        "bridge", "bridgeUp", "gre", "joined"} :
                  Sets(Done(a, s, h), h, a, TRUE)
<1>1. \A f \in HostFields : \A v : Sets([h EXCEPT ![f] = v], h, f, v)
  BY DEF Sets
<1>3. Done("nothing", s, h) = h /\ Done("restrict", s, h) = h
  BY DEF Done
<1>4. \A a \in {"plugin", "link", "loaded", "netbirdService", "socket", "vpn", "cap",
                "bridge", "bridgeUp", "gre", "joined"} : Done(a, s, h) = [h EXCEPT ![a] = TRUE]
  BY DEF Done
<1>5. \A a \in {"plugin", "link", "loaded", "netbirdService", "socket", "vpn", "cap",
                "bridge", "bridgeUp", "gre", "joined"} : a \in HostFields
  BY DEF HostFields
<1>6. \A a \in {"plugin", "link", "loaded", "netbirdService", "socket", "vpn", "cap",
                "bridge", "bridgeUp", "gre", "joined"} : Sets(Done(a, s, h), h, a, TRUE)
  BY <1>4, <1>5 DEF Sets
<1>7. /\ "caCarl" \in HostFields /\ "caCarlSum" \in HostFields /\ "caOs" \in HostFields
      /\ "trust" \in HostFields /\ "caOsSum" \in HostFields /\ "service" \in HostFields
      /\ "exe" \in HostFields /\ "cap" \in HostFields /\ "link" \in HostFields
      /\ "rperf" \in HostFields /\ "netbird" \in HostFields /\ "netbirdSum" \in HostFields
      /\ "vcanRule" \in HostFields /\ "canGwRule" \in HostFields /\ "users" \in HostFields
      /\ "owner" \in HostFields /\ "unit" \in HostFields /\ "unitLoaded" \in HostFields
      /\ "unitSum" \in HostFields /\ "enabled" \in HostFields
      /\ "exe" # "cap" /\ "owner" # "cap" /\ "service" # "enabled"
  BY DEF HostFields
<1>8. Sets(Done("caCarl", s, h), h, "caCarl", s.cert)
  <2>1. Done("caCarl", s, h) = [h EXCEPT !["caCarl"] = s.cert]
    BY DEF Done
  <2> QED
    BY <1>1, <1>7, <2>1
<1>9. Sets(Done("caCarlSum", s, h), h, "caCarlSum", h.caCarl)
  <2>1. Done("caCarlSum", s, h) = [h EXCEPT !["caCarlSum"] = h.caCarl]
    BY DEF Done
  <2> QED
    BY <1>1, <1>7, <2>1
<1>10. Sets(Done("caOs", s, h), h, "caOs", h.caCarl)
  <2>1. Done("caOs", s, h) = [h EXCEPT !["caOs"] = h.caCarl]
    BY DEF Done
  <2> QED
    BY <1>1, <1>7, <2>1
<1>11. Sets(Done("trust", s, h), h, "trust", h.caOs)
  <2>1. Done("trust", s, h) = [h EXCEPT !["trust"] = h.caOs]
    BY DEF Done
  <2> QED
    BY <1>1, <1>7, <2>1
<1>12. Sets(Done("caOsSum", s, h), h, "caOsSum", h.caOs)
  <2>1. Done("caOsSum", s, h) = [h EXCEPT !["caOsSum"] = h.caOs]
    BY DEF Done
  <2> QED
    BY <1>1, <1>7, <2>1
<1>13. Sets(Done("stop", s, h), h, "service", Absent)
  <2>1. Done("stop", s, h) = [h EXCEPT !["service"] = Absent]
    BY DEF Done
  <2> QED
    BY <1>1, <1>7, <2>1
<1>14. Sets(Done("unlink", s, h), h, "link", FALSE)
  <2>1. Done("unlink", s, h) = [h EXCEPT !["link"] = FALSE]
    BY DEF Done
  <2> QED
    BY <1>1, <1>7, <2>1
<1>15. Sets(Done("rperf", s, h), h, "rperf", s.version)
  <2>1. Done("rperf", s, h) = [h EXCEPT !["rperf"] = s.version]
    BY DEF Done
  <2> QED
    BY <1>1, <1>7, <2>1
<1>16. Sets(Done("netbird", s, h), h, "netbird", s.version)
  <2>1. Done("netbird", s, h) = [h EXCEPT !["netbird"] = s.version]
    BY DEF Done
  <2> QED
    BY <1>1, <1>7, <2>1
<1>17. Sets(Done("netbirdSum", s, h), h, "netbirdSum", s.version)
  <2>1. Done("netbirdSum", s, h) = [h EXCEPT !["netbirdSum"] = s.version]
    BY DEF Done
  <2> QED
    BY <1>1, <1>7, <2>1
<1>18. Sets(Done("vcanRule", s, h), h, "vcanRule", "rule")
  <2>1. Done("vcanRule", s, h) = [h EXCEPT !["vcanRule"] = "rule"]
    BY DEF Done
  <2> QED
    BY <1>1, <1>7, <2>1
<1>19. Sets(Done("canGwRule", s, h), h, "canGwRule", "rule")
  <2>1. Done("canGwRule", s, h) = [h EXCEPT !["canGwRule"] = "rule"]
    BY DEF Done
  <2> QED
    BY <1>1, <1>7, <2>1
<1>20. Sets(Done("users", s, h), h, "users", h.users \cup {s.user})
  <2>1. Done("users", s, h) = [h EXCEPT !["users"] = h.users \cup {s.user}]
    BY DEF Done
  <2> QED
    BY <1>1, <1>7, <2>1
<1>21. Sets(Done("unit", s, h), h, "unit", s.user)
  <2>1. Done("unit", s, h) = [h EXCEPT !["unit"] = s.user]
    BY DEF Done
  <2> QED
    BY <1>1, <1>7, <2>1
<1>22. Sets(Done("unitLoaded", s, h), h, "unitLoaded", h.unit)
  <2>1. Done("unitLoaded", s, h) = [h EXCEPT !["unitLoaded"] = h.unit]
    BY DEF Done
  <2> QED
    BY <1>1, <1>7, <2>1
<1>23. Sets(Done("unitSum", s, h), h, "unitSum", s.user)
  <2>1. Done("unitSum", s, h) = [h EXCEPT !["unitSum"] = s.user]
    BY DEF Done
  <2> QED
    BY <1>1, <1>7, <2>1
<1>24. Sets2(Done("exe", s, h), h, "exe", s.version, "cap", FALSE)
  <2>1. Done("exe", s, h) = [h EXCEPT !["exe"] = s.version, !["cap"] = FALSE]
    BY DEF Done
  <2> QED
    BY <1>7, <2>1 DEF Sets2
<1>25. Sets2(Done("owner", s, h), h, "owner", s.user, "cap", FALSE)
  <2>1. Done("owner", s, h) = [h EXCEPT !["owner"] = s.user, !["cap"] = FALSE]
    BY DEF Done
  <2> QED
    BY <1>7, <2>1 DEF Sets2
<1>26. Sets2(Done("start", s, h), h, "service", Service(h), "enabled", TRUE)
  <2>1. Done("start", s, h) = [h EXCEPT !["service"] = Service(h), !["enabled"] = TRUE]
    BY DEF Done
  <2> QED
    BY <1>7, <2>1 DEF Sets2
<1> QED
  BY <1>3, <1>6, <1>8, <1>9, <1>10, <1>11, <1>12, <1>13, <1>14, <1>15, <1>16, <1>17,
     <1>18, <1>19, <1>20, <1>21, <1>22, <1>23, <1>24, <1>25, <1>26

\* Which task a field of the host is the work of.
Owner(f) ==
    CASE f = "plugin"                            -> "Plugin"
      [] f \in {"caCarl", "caCarlSum", "caOs", "trust", "caOsSum"} -> "WriteCaCertificate"
      [] f \in {"exe", "link"}                   -> "CopyExecutable"
      [] f = "rperf"                             -> "CopyRperf"
      [] f = "loaded"                            -> "LoadKernelModules"
      [] f \in {"vcanRule", "canGwRule"}         -> "CreateKernelModuleLoadRule"
      [] f \in {"netbird", "netbirdSum"}         -> "NetbirdUnpack"
      [] f = "netbirdService"                    -> "NetbirdInstallService"
      [] f = "socket"                            -> "NetbirdRestartService"
      [] f = "vpn"                               -> "NetbirdConnect"
      [] f = "users"                             -> "CreateUser"
      [] f = "owner"                             -> "ClaimFileOwnership"
      [] f = "cap"                               -> "RequestLinuxNetworkCapability"
      [] f \in {"unit", "unitLoaded", "unitSum"} -> "CreateServiceFile"
      [] f \in {"service", "enabled"}            -> "RestartService"
      [] f \in {"bridge", "bridgeUp"}            -> "CreateBridge"
      [] f = "gre"                               -> "CreateGreInterfaces"
      [] f = "joined"                            -> "ConnectDeviceInterfaces"

\* Copying the executable stops the service, and that and a new owner drop the
\* capabilities of the executable, before the tasks that see to these.
MayTouch(t, f) ==
    \/ Owner(f) = t
    \/ t \in {"CopyExecutable", "ClaimFileOwnership"} /\ f = "cap"
    \/ t = "CopyExecutable" /\ f = "service"

Touches(t, h, g) == HostOK(g) /\ \A f \in HostFields : g[f] # h[f] => MayTouch(t, f)

\* The fields that a step writes.
Fields(a) ==
    CASE a \in {"nothing", "restrict"} -> {}
      [] a = "stop"                    -> {"service"}
      [] a = "start"                   -> {"service", "enabled"}
      [] a = "unlink"                  -> {"link"}
      [] a \in {"exe", "owner"}        -> {a, "cap"}
      [] OTHER                         -> {a}

StepNames ==
    {"nothing", "restrict", "stop", "start", "unlink", "exe", "owner", "plugin", "caCarl",
     "caCarlSum", "caOs", "trust", "caOsSum", "rperf", "loaded", "vcanRule", "canGwRule",
     "netbird", "netbirdSum", "netbirdService", "socket", "vpn", "users", "cap", "unit",
     "unitLoaded", "unitSum", "bridge", "bridgeUp", "gre", "joined", "link"}

\* The steps of every task.
LEMMA Steps ==
    /\ Len(StepsOf("Plugin")) = 1
    /\ StepsOf("Plugin")[1] = "plugin"
    /\ Len(StepsOf("WriteCaCertificate")) = 5
    /\ StepsOf("WriteCaCertificate")[1] = "caCarl"
    /\ StepsOf("WriteCaCertificate")[2] = "caCarlSum"
    /\ StepsOf("WriteCaCertificate")[3] = "caOs"
    /\ StepsOf("WriteCaCertificate")[4] = "trust"
    /\ StepsOf("WriteCaCertificate")[5] = "caOsSum"
    /\ Len(StepsOf("CheckCommandLinePrograms")) = 1
    /\ StepsOf("CheckCommandLinePrograms")[1] = "nothing"
    /\ Len(StepsOf("CheckCarlReachable")) = 1
    /\ StepsOf("CheckCarlReachable")[1] = "nothing"
    /\ Len(StepsOf("CopyExecutable")) = 4
    /\ StepsOf("CopyExecutable")[1] = "stop"
    /\ StepsOf("CopyExecutable")[2] = "exe"
    /\ StepsOf("CopyExecutable")[3] = "unlink"
    /\ StepsOf("CopyExecutable")[4] = "link"
    /\ Len(StepsOf("CopyRperf")) = 1
    /\ StepsOf("CopyRperf")[1] = "rperf"
    /\ Len(StepsOf("LoadKernelModules")) = 1
    /\ StepsOf("LoadKernelModules")[1] = "loaded"
    /\ Len(StepsOf("CreateKernelModuleLoadRule")) = 2
    /\ StepsOf("CreateKernelModuleLoadRule")[1] = "vcanRule" /\ StepsOf("CreateKernelModuleLoadRule")[2] = "canGwRule"
    /\ Len(StepsOf("NetbirdUnpack")) = 2
    /\ StepsOf("NetbirdUnpack")[1] = "netbird" /\ StepsOf("NetbirdUnpack")[2] = "netbirdSum"
    /\ Len(StepsOf("NetbirdInstallService")) = 1
    /\ StepsOf("NetbirdInstallService")[1] = "netbirdService"
    /\ Len(StepsOf("NetbirdRestartService")) = 1
    /\ StepsOf("NetbirdRestartService")[1] = "socket"
    /\ Len(StepsOf("NetbirdConnect")) = 1
    /\ StepsOf("NetbirdConnect")[1] = "vpn"
    /\ Len(StepsOf("CreateUser")) = 1
    /\ StepsOf("CreateUser")[1] = "users"
    /\ Len(StepsOf("ClaimFileOwnership")) = 2
    /\ StepsOf("ClaimFileOwnership")[1] = "owner" /\ StepsOf("ClaimFileOwnership")[2] = "restrict"
    /\ Len(StepsOf("RequestLinuxNetworkCapability")) = 1
    /\ StepsOf("RequestLinuxNetworkCapability")[1] = "cap"
    /\ Len(StepsOf("CreateServiceFile")) = 3
    /\ StepsOf("CreateServiceFile")[1] = "unit"
    /\ StepsOf("CreateServiceFile")[2] = "unitLoaded"
    /\ StepsOf("CreateServiceFile")[3] = "unitSum"
    /\ Len(StepsOf("RestartService")) = 2
    /\ StepsOf("RestartService")[1] = "stop" /\ StepsOf("RestartService")[2] = "start"
    /\ Len(StepsOf("CreateBridge")) = 2
    /\ StepsOf("CreateBridge")[1] = "bridge" /\ StepsOf("CreateBridge")[2] = "bridgeUp"
    /\ Len(StepsOf("CreateGreInterfaces")) = 1
    /\ StepsOf("CreateGreInterfaces")[1] = "gre"
    /\ Len(StepsOf("ConnectDeviceInterfaces")) = 1
    /\ StepsOf("ConnectDeviceInterfaces")[1] = "joined"
<1>1. StepsOf("Plugin") = <<"plugin">>
  BY DEF StepsOf
<1>2. StepsOf("WriteCaCertificate") = <<"caCarl", "caCarlSum">> \o <<"caOs", "trust", "caOsSum">>
  BY DEF StepsOf, WriteCaCertificate, WriteCarlCertificate, WriteOsCertStoreCertificate
<1>3. StepsOf("WriteCaCertificate") = <<"caCarl", "caCarlSum", "caOs", "trust", "caOsSum">>
  BY <1>2
<1>4. StepsOf("CheckCommandLinePrograms") = <<"nothing">>
  BY DEF StepsOf
<1>5. StepsOf("CheckCarlReachable") = <<"nothing">>
  BY DEF StepsOf
<1>6. StepsOf("CopyExecutable") = <<"stop", "exe", "unlink", "link">>
  BY DEF StepsOf, CopyExecutable
<1>7. StepsOf("CopyRperf") = <<"rperf">>
  BY DEF StepsOf, CopyRperf
<1>8. StepsOf("LoadKernelModules") = <<"loaded">>
  BY DEF StepsOf, LoadKernelModules
<1>9. StepsOf("CreateKernelModuleLoadRule") = <<"vcanRule", "canGwRule">>
  BY DEF StepsOf, CreateKernelModuleLoadRule
<1>10. StepsOf("NetbirdUnpack") = <<"netbird", "netbirdSum">>
  BY DEF StepsOf, NetbirdUnpack
<1>11. StepsOf("NetbirdInstallService") = <<"netbirdService">>
  BY DEF StepsOf, NetbirdInstallService
<1>12. StepsOf("NetbirdRestartService") = <<"socket">>
  BY DEF StepsOf, NetbirdRestartService
<1>13. StepsOf("NetbirdConnect") = <<"vpn">>
  BY DEF StepsOf, NetbirdConnect
<1>14. StepsOf("CreateUser") = <<"users">>
  BY DEF StepsOf, CreateUser
<1>15. StepsOf("ClaimFileOwnership") = <<"owner", "restrict">>
  BY DEF StepsOf, ClaimFileOwnership
<1>16. StepsOf("RequestLinuxNetworkCapability") = <<"cap">>
  BY DEF StepsOf, RequestLinuxNetworkCapability
<1>17. StepsOf("CreateServiceFile") = <<"unit", "unitLoaded", "unitSum">>
  BY DEF StepsOf, CreateServiceFile
<1>18. StepsOf("RestartService") = <<"stop", "start">>
  BY DEF StepsOf, RestartService
<1>19. StepsOf("CreateBridge") = <<"bridge", "bridgeUp">>
  BY DEF StepsOf, CreateBridge
<1>20. StepsOf("CreateGreInterfaces") = <<"gre">>
  BY DEF StepsOf, CreateGreInterfaces
<1>21. StepsOf("ConnectDeviceInterfaces") = <<"joined">>
  BY DEF StepsOf, ConnectDeviceInterfaces
<1> QED
  BY <1>1, <1>2, <1>3, <1>4, <1>5, <1>6, <1>7, <1>8, <1>9, <1>10, <1>11, <1>12, <1>13,
     <1>14, <1>15, <1>16, <1>17, <1>18, <1>19, <1>20, <1>21

\* A step writes only what its task may touch.
LEMMA StepTouches ==
    ASSUME NEW t \in TaskNames, NEW n \in 1 .. Len(StepsOf(t))
    PROVE  /\ StepsOf(t)[n] \in StepNames
           /\ \A f \in Fields(StepsOf(t)[n]) : MayTouch(t, f)
           /\ Len(StepsOf(t)) \in 1 .. 5
<1>1. CASE t = "Plugin"
  <2>1. Len(StepsOf(t)) = 1 /\ 1 .. 1 = {1}
    BY <1>1, Steps
  <2>2. StepsOf(t)[n] \in {"plugin"}
    BY <1>1, <2>1, Steps
  <2>3. \A a \in {"plugin"} : a \in StepNames /\ \A f \in Fields(a) : MayTouch("Plugin", f)
    BY DEF StepNames, Fields, MayTouch, Owner
  <2> QED
    BY <1>1, <2>1, <2>2, <2>3
<1>2. CASE t = "WriteCaCertificate"
  <2>1. Len(StepsOf(t)) = 5 /\ 1 .. 5 = {1, 2, 3, 4, 5}
    BY <1>2, Steps
  <2>2. StepsOf(t)[n] \in {"caCarl", "caCarlSum", "caOs", "trust", "caOsSum"}
    BY <1>2, <2>1, Steps
  <2>3. \A a \in {"caCarl", "caCarlSum", "caOs", "trust", "caOsSum"} : a \in StepNames /\ \A f \in Fields(a) : MayTouch("WriteCaCertificate", f)
    BY DEF StepNames, Fields, MayTouch, Owner
  <2> QED
    BY <1>2, <2>1, <2>2, <2>3
<1>3. CASE t = "CheckCommandLinePrograms"
  <2>1. Len(StepsOf(t)) = 1 /\ 1 .. 1 = {1}
    BY <1>3, Steps
  <2>2. StepsOf(t)[n] \in {"nothing"}
    BY <1>3, <2>1, Steps
  <2>3. \A a \in {"nothing"} : a \in StepNames /\ \A f \in Fields(a) : MayTouch("CheckCommandLinePrograms", f)
    BY DEF StepNames, Fields, MayTouch, Owner
  <2> QED
    BY <1>3, <2>1, <2>2, <2>3
<1>4. CASE t = "CheckCarlReachable"
  <2>1. Len(StepsOf(t)) = 1 /\ 1 .. 1 = {1}
    BY <1>4, Steps
  <2>2. StepsOf(t)[n] \in {"nothing"}
    BY <1>4, <2>1, Steps
  <2>3. \A a \in {"nothing"} : a \in StepNames /\ \A f \in Fields(a) : MayTouch("CheckCarlReachable", f)
    BY DEF StepNames, Fields, MayTouch, Owner
  <2> QED
    BY <1>4, <2>1, <2>2, <2>3
<1>5. CASE t = "CopyExecutable"
  <2>1. Len(StepsOf(t)) = 4 /\ 1 .. 4 = {1, 2, 3, 4}
    BY <1>5, Steps
  <2>2. StepsOf(t)[n] \in {"stop", "exe", "unlink", "link"}
    BY <1>5, <2>1, Steps
  <2>3. \A a \in {"stop", "exe", "unlink", "link"} : a \in StepNames /\ \A f \in Fields(a) : MayTouch("CopyExecutable", f)
    BY DEF StepNames, Fields, MayTouch, Owner
  <2> QED
    BY <1>5, <2>1, <2>2, <2>3
<1>6. CASE t = "CopyRperf"
  <2>1. Len(StepsOf(t)) = 1 /\ 1 .. 1 = {1}
    BY <1>6, Steps
  <2>2. StepsOf(t)[n] \in {"rperf"}
    BY <1>6, <2>1, Steps
  <2>3. \A a \in {"rperf"} : a \in StepNames /\ \A f \in Fields(a) : MayTouch("CopyRperf", f)
    BY DEF StepNames, Fields, MayTouch, Owner
  <2> QED
    BY <1>6, <2>1, <2>2, <2>3
<1>7. CASE t = "LoadKernelModules"
  <2>1. Len(StepsOf(t)) = 1 /\ 1 .. 1 = {1}
    BY <1>7, Steps
  <2>2. StepsOf(t)[n] \in {"loaded"}
    BY <1>7, <2>1, Steps
  <2>3. \A a \in {"loaded"} : a \in StepNames /\ \A f \in Fields(a) : MayTouch("LoadKernelModules", f)
    BY DEF StepNames, Fields, MayTouch, Owner
  <2> QED
    BY <1>7, <2>1, <2>2, <2>3
<1>8. CASE t = "CreateKernelModuleLoadRule"
  <2>1. Len(StepsOf(t)) = 2 /\ 1 .. 2 = {1, 2}
    BY <1>8, Steps
  <2>2. StepsOf(t)[n] \in {"vcanRule", "canGwRule"}
    BY <1>8, <2>1, Steps
  <2>3. \A a \in {"vcanRule", "canGwRule"} : a \in StepNames /\ \A f \in Fields(a) : MayTouch("CreateKernelModuleLoadRule", f)
    BY DEF StepNames, Fields, MayTouch, Owner
  <2> QED
    BY <1>8, <2>1, <2>2, <2>3
<1>9. CASE t = "NetbirdUnpack"
  <2>1. Len(StepsOf(t)) = 2 /\ 1 .. 2 = {1, 2}
    BY <1>9, Steps
  <2>2. StepsOf(t)[n] \in {"netbird", "netbirdSum"}
    BY <1>9, <2>1, Steps
  <2>3. \A a \in {"netbird", "netbirdSum"} : a \in StepNames /\ \A f \in Fields(a) : MayTouch("NetbirdUnpack", f)
    BY DEF StepNames, Fields, MayTouch, Owner
  <2> QED
    BY <1>9, <2>1, <2>2, <2>3
<1>10. CASE t = "NetbirdInstallService"
  <2>1. Len(StepsOf(t)) = 1 /\ 1 .. 1 = {1}
    BY <1>10, Steps
  <2>2. StepsOf(t)[n] \in {"netbirdService"}
    BY <1>10, <2>1, Steps
  <2>3. \A a \in {"netbirdService"} : a \in StepNames /\ \A f \in Fields(a) : MayTouch("NetbirdInstallService", f)
    BY DEF StepNames, Fields, MayTouch, Owner
  <2> QED
    BY <1>10, <2>1, <2>2, <2>3
<1>11. CASE t = "NetbirdRestartService"
  <2>1. Len(StepsOf(t)) = 1 /\ 1 .. 1 = {1}
    BY <1>11, Steps
  <2>2. StepsOf(t)[n] \in {"socket"}
    BY <1>11, <2>1, Steps
  <2>3. \A a \in {"socket"} : a \in StepNames /\ \A f \in Fields(a) : MayTouch("NetbirdRestartService", f)
    BY DEF StepNames, Fields, MayTouch, Owner
  <2> QED
    BY <1>11, <2>1, <2>2, <2>3
<1>12. CASE t = "NetbirdConnect"
  <2>1. Len(StepsOf(t)) = 1 /\ 1 .. 1 = {1}
    BY <1>12, Steps
  <2>2. StepsOf(t)[n] \in {"vpn"}
    BY <1>12, <2>1, Steps
  <2>3. \A a \in {"vpn"} : a \in StepNames /\ \A f \in Fields(a) : MayTouch("NetbirdConnect", f)
    BY DEF StepNames, Fields, MayTouch, Owner
  <2> QED
    BY <1>12, <2>1, <2>2, <2>3
<1>13. CASE t = "CreateUser"
  <2>1. Len(StepsOf(t)) = 1 /\ 1 .. 1 = {1}
    BY <1>13, Steps
  <2>2. StepsOf(t)[n] \in {"users"}
    BY <1>13, <2>1, Steps
  <2>3. \A a \in {"users"} : a \in StepNames /\ \A f \in Fields(a) : MayTouch("CreateUser", f)
    BY DEF StepNames, Fields, MayTouch, Owner
  <2> QED
    BY <1>13, <2>1, <2>2, <2>3
<1>14. CASE t = "ClaimFileOwnership"
  <2>1. Len(StepsOf(t)) = 2 /\ 1 .. 2 = {1, 2}
    BY <1>14, Steps
  <2>2. StepsOf(t)[n] \in {"owner", "restrict"}
    BY <1>14, <2>1, Steps
  <2>3. \A a \in {"owner", "restrict"} : a \in StepNames /\ \A f \in Fields(a) : MayTouch("ClaimFileOwnership", f)
    BY DEF StepNames, Fields, MayTouch, Owner
  <2> QED
    BY <1>14, <2>1, <2>2, <2>3
<1>15. CASE t = "RequestLinuxNetworkCapability"
  <2>1. Len(StepsOf(t)) = 1 /\ 1 .. 1 = {1}
    BY <1>15, Steps
  <2>2. StepsOf(t)[n] \in {"cap"}
    BY <1>15, <2>1, Steps
  <2>3. \A a \in {"cap"} : a \in StepNames /\ \A f \in Fields(a) : MayTouch("RequestLinuxNetworkCapability", f)
    BY DEF StepNames, Fields, MayTouch, Owner
  <2> QED
    BY <1>15, <2>1, <2>2, <2>3
<1>16. CASE t = "CreateServiceFile"
  <2>1. Len(StepsOf(t)) = 3 /\ 1 .. 3 = {1, 2, 3}
    BY <1>16, Steps
  <2>2. StepsOf(t)[n] \in {"unit", "unitLoaded", "unitSum"}
    BY <1>16, <2>1, Steps
  <2>3. \A a \in {"unit", "unitLoaded", "unitSum"} : a \in StepNames /\ \A f \in Fields(a) : MayTouch("CreateServiceFile", f)
    BY DEF StepNames, Fields, MayTouch, Owner
  <2> QED
    BY <1>16, <2>1, <2>2, <2>3
<1>17. CASE t = "RestartService"
  <2>1. Len(StepsOf(t)) = 2 /\ 1 .. 2 = {1, 2}
    BY <1>17, Steps
  <2>2. StepsOf(t)[n] \in {"stop", "start"}
    BY <1>17, <2>1, Steps
  <2>3. \A a \in {"stop", "start"} : a \in StepNames /\ \A f \in Fields(a) : MayTouch("RestartService", f)
    BY DEF StepNames, Fields, MayTouch, Owner
  <2> QED
    BY <1>17, <2>1, <2>2, <2>3
<1>18. CASE t = "CreateBridge"
  <2>1. Len(StepsOf(t)) = 2 /\ 1 .. 2 = {1, 2}
    BY <1>18, Steps
  <2>2. StepsOf(t)[n] \in {"bridge", "bridgeUp"}
    BY <1>18, <2>1, Steps
  <2>3. \A a \in {"bridge", "bridgeUp"} : a \in StepNames /\ \A f \in Fields(a) : MayTouch("CreateBridge", f)
    BY DEF StepNames, Fields, MayTouch, Owner
  <2> QED
    BY <1>18, <2>1, <2>2, <2>3
<1>19. CASE t = "CreateGreInterfaces"
  <2>1. Len(StepsOf(t)) = 1 /\ 1 .. 1 = {1}
    BY <1>19, Steps
  <2>2. StepsOf(t)[n] \in {"gre"}
    BY <1>19, <2>1, Steps
  <2>3. \A a \in {"gre"} : a \in StepNames /\ \A f \in Fields(a) : MayTouch("CreateGreInterfaces", f)
    BY DEF StepNames, Fields, MayTouch, Owner
  <2> QED
    BY <1>19, <2>1, <2>2, <2>3
<1>20. CASE t = "ConnectDeviceInterfaces"
  <2>1. Len(StepsOf(t)) = 1 /\ 1 .. 1 = {1}
    BY <1>20, Steps
  <2>2. StepsOf(t)[n] \in {"joined"}
    BY <1>20, <2>1, Steps
  <2>3. \A a \in {"joined"} : a \in StepNames /\ \A f \in Fields(a) : MayTouch("ConnectDeviceInterfaces", f)
    BY DEF StepNames, Fields, MayTouch, Owner
  <2> QED
    BY <1>20, <2>1, <2>2, <2>3
<1> QED
  BY <1>1, <1>2, <1>3, <1>4, <1>5, <1>6, <1>7, <1>8, <1>9, <1>10, <1>11, <1>12, <1>13,
     <1>14, <1>15, <1>16, <1>17, <1>18, <1>19, <1>20 DEF TaskNames

\* Of the host only what is set changes.
LEMMA SetsHost ==
    ASSUME NEW h, NEW g, NEW f, NEW v, HostOK(h), Sets(g, h, f, v), f \in Flags => v \in BOOLEAN
    PROVE  HostOK(g) /\ \A x \in HostFields : g[x] # h[x] => x = f
  BY DEF HostOK, Sets, Flags, HostFields

\* The same for a step that sets two fields, the second a flag.
LEMMA Sets2Host ==
    ASSUME NEW h, NEW g, NEW e, NEW u, NEW f, NEW v, HostOK(h), Sets2(g, h, e, u, f, v),
           e \notin Flags, v \in BOOLEAN
    PROVE  HostOK(g) /\ \A x \in HostFields : g[x] # h[x] => x \in {e, f}
  BY DEF HostOK, Sets2, Flags, HostFields

\* A step of a task keeps the host well-formed and writes its fields only.
LEMMA DoneWrites ==
    ASSUME NEW h, HostOK(h), NEW s, NEW a \in StepNames
    PROVE  /\ HostOK(Done(a, s, h))
           /\ \A x \in HostFields : Done(a, s, h)[x] # h[x] => x \in Fields(a)
<1> DEFINE g == Done(a, s, h)
<1>0. DOMAIN h = HostFields
  BY DEF HostOK
<1>1. CASE a \in {"nothing", "restrict"}
  BY <1>0, <1>1, DoneSets
<1>2. CASE a \in {"caCarl", "caCarlSum", "caOs", "trust", "caOsSum", "rperf", "netbird",
                  "netbirdSum", "vcanRule", "canGwRule", "users", "unit", "unitLoaded", "unitSum"}
  <2>1. a \notin Flags /\ Fields(a) = {a}
    BY <1>2 DEF Flags, Fields
  <2>2. \E v : Sets(g, h, a, v)
    <3> DEFINE S(x) == \E v : Sets(Done(x, s, h), h, x, v)
    <3>1. S("caCarl") /\ S("caCarlSum") /\ S("caOs") /\ S("trust") /\ S("caOsSum")
      BY <1>0, DoneSets
    <3>2. S("rperf") /\ S("netbird") /\ S("netbirdSum") /\ S("vcanRule") /\ S("canGwRule")
      BY <1>0, DoneSets
    <3>3. S("users") /\ S("unit") /\ S("unitLoaded") /\ S("unitSum")
      BY <1>0, DoneSets
    <3> HIDE DEF S
    <3>4. S(a)
      BY <1>2, <3>1, <3>2, <3>3
    <3> QED
      BY <3>4 DEF S
  <2> QED
    BY <2>1, <2>2, SetsHost
<1>3. CASE a \in {"plugin", "link", "loaded", "netbirdService", "socket", "vpn", "cap",
                  "bridge", "bridgeUp", "gre", "joined"}
  <2>1. Fields(a) = {a}
    BY <1>3 DEF Fields
  <2>2. Sets(g, h, a, TRUE)
    BY <1>0, <1>3, DoneSets
  <2> QED
    BY <2>1, <2>2, SetsHost
<1>4. CASE a = "stop"
  <2>1. "service" \notin Flags /\ Fields(a) = {"service"}
    BY <1>4 DEF Flags, Fields
  <2>2. Sets(g, h, "service", Absent)
    BY <1>0, <1>4, DoneSets
  <2> QED
    BY <2>1, <2>2, SetsHost
<1>5. CASE a = "unlink"
  <2>1. Fields(a) = {"link"}
    BY <1>5 DEF Fields
  <2>2. Sets(g, h, "link", FALSE) /\ FALSE \in BOOLEAN
    BY <1>0, <1>5, DoneSets
  <2>3. HostOK(g) /\ \A x \in HostFields : g[x] # h[x] => x = "link"
    BY <2>2, SetsHost
  <2> QED
    BY <2>1, <2>3
<1>6. CASE a = "start"
  <2>1. Fields(a) = {"service", "enabled"} /\ "service" \notin Flags
    BY <1>6 DEF Fields, Flags
  <2>2. Sets2(g, h, "service", Service(h), "enabled", TRUE)
    BY <1>0, <1>6, DoneSets
  <2> QED
    BY <2>1, <2>2, Sets2Host
<1>7. CASE a \in {"exe", "owner"}
  <2>1. Fields(a) = {a, "cap"} /\ a \notin Flags
    BY <1>7 DEF Fields, Flags
  <2>2. \E v : Sets2(g, h, a, v, "cap", FALSE)
    BY <1>0, <1>7, DoneSets
  <2> QED
    BY <2>1, <2>2, Sets2Host
<1> QED
  BY <1>1, <1>2, <1>3, <1>4, <1>5, <1>6, <1>7 DEF StepNames

\* So a step touches no more of the host than its task may.
LEMMA DoneTouches ==
    ASSUME NEW h, HostOK(h), NEW s, NEW t \in TaskNames, NEW n \in 1 .. Len(StepsOf(t))
    PROVE  Touches(t, h, Done(StepsOf(t)[n], s, h))
  BY DoneWrites, StepTouches DEF Touches

\* A file cut while it was written.
LEMMA TornSets ==
    ASSUME NEW h, DOMAIN h = HostFields, NEW a \in Written
    PROVE  /\ a # "exe" => Sets(Torn(a, h), h, a, Partial)
           /\ a = "exe" => Sets2(Torn(a, h), h, "exe", Partial, "cap", FALSE)
<1>1. a \in HostFields /\ "cap" \in HostFields /\ "exe" # "cap" /\ "exe" \in HostFields
  BY DEF Written, HostFields
<1>2. a # "exe" => Torn(a, h) = [h EXCEPT ![a] = Partial]
  BY DEF Torn
<1>3. a = "exe" => Torn(a, h) = [h EXCEPT !["exe"] = Partial, !["cap"] = FALSE]
  BY DEF Torn
<1>4. a # "exe" => Sets(Torn(a, h), h, a, Partial)
  BY <1>1, <1>2 DEF Sets
<1>5. a = "exe" => Sets2(Torn(a, h), h, "exe", Partial, "cap", FALSE)
  BY <1>1, <1>3 DEF Sets2
<1> QED
  BY <1>4, <1>5

\* Nor does a step that is cut while it writes a file.
LEMMA TornTouches ==
    ASSUME NEW h, HostOK(h), NEW t \in TaskNames, NEW n \in 1 .. Len(StepsOf(t)),
           StepsOf(t)[n] \in Written
    PROVE  Touches(t, h, Torn(StepsOf(t)[n], h))
<1> DEFINE a == StepsOf(t)[n]
           g == Torn(a, h)
<1>1. DOMAIN h = HostFields /\ a \in Written
  BY DEF HostOK
<1>2. \A f \in Fields(a) : MayTouch(t, f)
  BY StepTouches
<1> HIDE DEF a
<1>3. CASE a = "exe"
  <2>1. Fields(a) = {"exe", "cap"} /\ "exe" \notin Flags
    BY <1>3 DEF Fields, Flags
  <2>2. Sets2(g, h, "exe", Partial, "cap", FALSE)
    BY <1>1, <1>3, TornSets
  <2>3. HostOK(g) /\ \A x \in HostFields : g[x] # h[x] => x \in {"exe", "cap"}
    BY <2>1, <2>2, Sets2Host
  <2> QED
    BY <1>2, <2>1, <2>3 DEF Touches, a
<1>4. CASE a # "exe"
  <2>1. Fields(a) = {a} /\ a \notin Flags
    BY <1>1, <1>4 DEF Fields, Flags, Written
  <2>2. Sets(g, h, a, Partial)
    BY <1>1, <1>4, TornSets
  <2>3. HostOK(g) /\ \A x \in HostFields : g[x] # h[x] => x = a
    BY <2>1, <2>2, SetsHost
  <2> QED
    BY <1>2, <2>1, <2>3 DEF Touches, a
<1> QED
  BY <1>3, <1>4

----------------------------------------------------------------------------
(* What a step leaves of the work of other tasks.                           *)

FitsOf(t, h, C) ==
    /\ t = "WriteCaCertificate" => CertFits(h, C)
    /\ t = "CopyExecutable" => ExeFits(h, C)
    /\ t = "CreateKernelModuleLoadRule" => RuleFits(h, C)
    /\ t = "NetbirdUnpack" => NetbirdFits(h, C)
    /\ t = "CreateServiceFile" => UnitFits(h, C)
    /\ t = "CreateBridge" => BridgeFits(h, C)

\* Fits, said task by task.
LEMMA FitsByTask ==
    ASSUME NEW h, NEW C
    PROVE  Fits(h, C) <=> \A t \in TaskNames : FitsOf(t, h, C)
<1>1. /\ "WriteCaCertificate" \in TaskNames /\ "CopyExecutable" \in TaskNames
      /\ "CreateKernelModuleLoadRule" \in TaskNames /\ "NetbirdUnpack" \in TaskNames
      /\ "CreateServiceFile" \in TaskNames /\ "CreateBridge" \in TaskNames
  BY DEF TaskNames
<1>2. Fits(h, C) => \A t \in TaskNames : FitsOf(t, h, C)
  BY DEF Fits, FitsOf
<1>3. (\A t \in TaskNames : FitsOf(t, h, C)) => Fits(h, C)
  BY <1>1 DEF Fits, FitsOf
<1> QED
  BY <1>2, <1>3

\* C and D differ in what was cut of task u only.
CutsBut(u, C, D) == \A t \in TaskNames : t # u => D[t] = C[t]

\* What a host looks like depends on a task's own fields.
LEMMA FitsElsewhere ==
    ASSUME NEW t \in TaskNames, NEW u \in TaskNames, t # u, NEW h, NEW g, NEW C, NEW D,
           Touches(u, h, g), CutsBut(u, C, D), FitsOf(t, h, C)
    PROVE  FitsOf(t, g, D)
<1>1. D[t] = C[t]
  BY DEF CutsBut
<1>2. \A f \in HostFields : Owner(f) = t /\ f \notin {"cap", "service"} => g[f] = h[f]
  BY DEF Touches, MayTouch
<1>3. CASE t = "WriteCaCertificate"
  <2>1. /\ g.caOsSum = h.caOsSum /\ g.caCarl = h.caCarl /\ g.caCarlSum = h.caCarlSum
        /\ g.caOs = h.caOs /\ g.trust = h.trust
    BY <1>2, <1>3 DEF HostFields, Owner
  <2> QED
    BY <1>1, <1>3, <2>1 DEF FitsOf, CertFits, Other
<1>4. CASE t = "CopyExecutable"
  <2>1. g.exe = h.exe /\ g.link = h.link
    BY <1>2, <1>4 DEF HostFields, Owner
  <2> QED
    BY <1>1, <1>4, <2>1 DEF FitsOf, ExeFits
<1>5. CASE t = "CreateKernelModuleLoadRule"
  <2>1. g.vcanRule = h.vcanRule /\ g.canGwRule = h.canGwRule
    BY <1>2, <1>5 DEF HostFields, Owner
  <2> QED
    BY <1>1, <1>5, <2>1 DEF FitsOf, RuleFits
<1>6. CASE t = "NetbirdUnpack"
  <2>1. g.netbird = h.netbird /\ g.netbirdSum = h.netbirdSum
    BY <1>2, <1>6 DEF HostFields, Owner
  <2> QED
    BY <1>1, <1>6, <2>1 DEF FitsOf, NetbirdFits, Other
<1>7. CASE t = "CreateServiceFile"
  <2>1. g.unit = h.unit /\ g.unitLoaded = h.unitLoaded /\ g.unitSum = h.unitSum
    BY <1>2, <1>7 DEF HostFields, Owner
  <2> QED
    BY <1>1, <1>7, <2>1 DEF FitsOf, UnitFits, Other
<1>8. CASE t = "CreateBridge"
  <2>1. g.bridge = h.bridge /\ g.bridgeUp = h.bridgeUp
    BY <1>2, <1>8 DEF HostFields, Owner
  <2> QED
    BY <1>1, <1>8, <2>1 DEF FitsOf, BridgeFits
<1>9. CASE t \notin {"WriteCaCertificate", "CopyExecutable", "CreateKernelModuleLoadRule",
                     "NetbirdUnpack", "CreateServiceFile", "CreateBridge"}
  BY <1>9 DEF FitsOf
<1> QED
  BY <1>3, <1>4, <1>5, <1>6, <1>7, <1>8, <1>9

\* What a task has done is not undone by one that comes after it.
LEMMA PostElsewhere ==
    ASSUME NEW mode, NEW t \in TaskNames, NEW u \in TaskNames, Rank(mode, t) < Rank(mode, u),
           NEW s, NEW h, NEW g, NEW C, NEW D,
           Touches(u, h, g), CutsBut(u, C, D), Post(t, s, h, C)
    PROVE  Post(t, s, g, D)
<1>1. /\ t # u
      /\ ~ (t = "RequestLinuxNetworkCapability" /\ u \in {"CopyExecutable", "ClaimFileOwnership"})
      /\ ~ (t = "RestartService" /\ u \in {"CopyExecutable", "CreateServiceFile"})
  BY Precedence
<1>2. D[t] = C[t] /\ (t = "RestartService" => D["CreateServiceFile"] = C["CreateServiceFile"])
  BY <1>1 DEF CutsBut, TaskNames
<1>3. \A f \in HostFields : MayTouch(u, f) \/ g[f] = h[f]
  BY DEF Touches
<1>4. \A f \in HostFields : Owner(f) = t /\ f \notin {"cap", "service"} => g[f] = h[f]
  BY <1>1, <1>3 DEF MayTouch
<1>5. CASE t = "WriteCaCertificate"
  <2>1. /\ g.caCarl = h.caCarl /\ g.caOs = h.caOs /\ g.trust = h.trust
        /\ g.caCarlSum = h.caCarlSum /\ g.caOsSum = h.caOsSum
    BY <1>4, <1>5 DEF HostFields, Owner
  <2> QED
    BY <1>2, <1>5, <2>1 DEF Post, Other
<1>6. CASE t = "CopyExecutable"
  <2>1. g.exe = h.exe /\ g.link = h.link
    BY <1>4, <1>6 DEF HostFields, Owner
  <2> QED
    BY <1>2, <1>6, <2>1 DEF Post
<1>7. CASE t = "LoadKernelModules"
  <2>1. g.loaded = h.loaded
    BY <1>4, <1>7 DEF HostFields, Owner
  <2> QED
    BY <1>7, <2>1 DEF Post
<1>8. CASE t = "CreateKernelModuleLoadRule"
  <2>1. g.vcanRule = h.vcanRule /\ g.canGwRule = h.canGwRule
    BY <1>4, <1>8 DEF HostFields, Owner
  <2> QED
    BY <1>2, <1>8, <2>1 DEF Post
<1>9. CASE t = "NetbirdUnpack"
  <2>1. g.netbird = h.netbird
    BY <1>4, <1>9 DEF HostFields, Owner
  <2> QED
    BY <1>2, <1>9, <2>1 DEF Post, Other
<1>10. CASE t = "CreateUser"
  <2>1. g.users = h.users
    BY <1>4, <1>10 DEF HostFields, Owner
  <2> QED
    BY <1>10, <2>1 DEF Post
<1>11. CASE t = "ClaimFileOwnership"
  <2>1. g.owner = h.owner
    BY <1>4, <1>11 DEF HostFields, Owner
  <2> QED
    BY <1>11, <2>1 DEF Post
<1>12. CASE t = "RequestLinuxNetworkCapability"
  <2>1. ~ MayTouch(u, "cap")
    BY <1>1, <1>12 DEF MayTouch, Owner
  <2>2. g.cap = h.cap
    BY <1>3, <2>1 DEF HostFields
  <2> QED
    BY <1>12, <2>2 DEF Post
<1>13. CASE t = "CreateServiceFile"
  <2>1. g.unit = h.unit /\ g.unitLoaded = h.unitLoaded
    BY <1>4, <1>13 DEF HostFields, Owner
  <2> QED
    BY <1>2, <1>13, <2>1 DEF Post, Other
<1>14. CASE t = "RestartService"
  <2>1. ~ MayTouch(u, "service") /\ ~ MayTouch(u, "enabled")
    BY <1>1, <1>14 DEF MayTouch, Owner
  <2>2. g.service = h.service /\ g.enabled = h.enabled
    BY <1>3, <2>1 DEF HostFields
  <2> QED
    BY <1>2, <1>14, <2>2 DEF Post, Other
<1>15. CASE t = "CreateBridge"
  <2>1. g.bridgeUp = h.bridgeUp
    BY <1>4, <1>15 DEF HostFields, Owner
  <2> QED
    BY <1>2, <1>15, <2>1 DEF Post
<1>16. CASE t = "CreateGreInterfaces"
  <2>1. g.gre = h.gre
    BY <1>4, <1>16 DEF HostFields, Owner
  <2> QED
    BY <1>16, <2>1 DEF Post
<1>17. CASE t = "ConnectDeviceInterfaces"
  <2>1. g.joined = h.joined
    BY <1>4, <1>17 DEF HostFields, Owner
  <2> QED
    BY <1>17, <2>1 DEF Post
<1>18. CASE t \notin {"WriteCaCertificate", "CopyExecutable", "LoadKernelModules",
                      "CreateKernelModuleLoadRule", "NetbirdUnpack", "CreateUser",
                      "ClaimFileOwnership", "RequestLinuxNetworkCapability", "CreateServiceFile",
                      "RestartService", "CreateBridge", "CreateGreInterfaces",
                      "ConnectDeviceInterfaces"}
  BY <1>18 DEF Post
<1> QED
  BY <1>5, <1>6, <1>7, <1>8, <1>9, <1>10, <1>11, <1>12, <1>13, <1>14, <1>15, <1>16, <1>17, <1>18

----------------------------------------------------------------------------
(* What a step does for its own task.                                       *)

\* The more attempts were cut, the less a vouching checksum has to mean.
LEMMA FitsWider ==
    ASSUME NEW t, NEW h, NEW C, NEW D, C[t] \subseteq D[t], FitsOf(t, h, C)
    PROVE  FitsOf(t, h, D)
<1>1. \A field, v : Other(C, t, field, v) => Other(D, t, field, v)
  BY DEF Other
<1> QED
  BY <1>1 DEF FitsOf, CertFits, ExeFits, RuleFits, NetbirdFits, UnitFits, BridgeFits

\* A task that is due wants to be.
LEMMA DueUndone ==
    ASSUME NEW s \in Setups, NEW t \in TaskNames, NEW h, NEW C, FitsOf(t, h, C), ~ Fulfilled(t, s, h)
    PROVE  Undone(t, s, h, C)
<1>1. /\ s.cert \notin {Absent, Partial} /\ s.version \notin {Absent, Partial}
      /\ s.user \notin {Absent, Partial}
  BY SetupFacts
<1>2. ASSUME t = "WriteCaCertificate", h.caOsSum = s.cert
      PROVE  Other(C, t, "cert", s.cert)
  <2>1. CertFits(h, C)
    BY <1>2 DEF FitsOf
  <2>2. \/ h.caCarl = s.cert /\ h.caCarlSum = s.cert /\ h.caOs = s.cert
        \/ Other(C, "WriteCaCertificate", "cert", s.cert)
    BY <1>1, <1>2, <2>1 DEF CertFits
  <2>3. ~ WriteCaCertificateFulfilled(s, h)
    BY <1>2 DEF Fulfilled
  <2> QED
    BY <1>1, <1>2, <2>2, <2>3 DEF WriteCaCertificateFulfilled
<1>3. t = "NetbirdUnpack" => h.netbirdSum # s.version
  BY DEF Fulfilled, NetbirdUnpackFulfilled
<1>4. t = "CreateServiceFile" => h.unitSum # s.user
  BY DEF Fulfilled, CreateServiceFileFulfilled
<1> QED
  BY <1>2, <1>3, <1>4 DEF Undone

\* What a task that is fulfilled would have done is there.
LEMMA SkipPost ==
    ASSUME NEW s \in Setups, NEW t \in TaskNames, NEW h, NEW C, HostOK(h), FitsOf(t, h, C),
           Fulfilled(t, s, h)
    PROVE  Post(t, s, h, C)
<1>1. /\ s.cert \notin {Absent, Partial} /\ s.version \notin {Absent, Partial}
      /\ s.user \notin {Absent, Partial}
  BY SetupFacts
<1>2. CASE t = "WriteCaCertificate"
  <2>1. CertFits(h, C)
    BY <1>2 DEF FitsOf
  <2>2. WriteCaCertificateFulfilled(s, h)
    BY <1>2 DEF Fulfilled
  <2>3. \/ /\ h.caCarl = s.cert /\ h.caOs = s.cert
           /\ h.trust = s.cert \/ (Absent \in {h.caCarlSum, h.caOsSum} /\ C[t] # {})
        \/ Other(C, t, "cert", s.cert)
    BY <1>1, <1>2, <2>1, <2>2 DEF CertFits, WriteCaCertificateFulfilled
  <2> QED
    BY <1>2, <2>3 DEF Post
<1>3. CASE t = "CopyExecutable"
  <2>1. ExeFits(h, C) /\ h.exe = s.version
    BY <1>3 DEF FitsOf, Fulfilled, CopyExecutableFulfilled
  <2> QED
    BY <1>1, <1>3, <2>1 DEF Post, ExeFits
<1>4. CASE t = "LoadKernelModules"
  <2>1. h.loaded
    BY <1>4 DEF Fulfilled, LoadKernelModulesFulfilled
  <2>2. h.loaded \in BOOLEAN
    BY DEF HostOK, Flags
  <2>3. h.loaded = TRUE
    BY <2>1, <2>2
  <2> QED
    BY <1>4, <2>3 DEF Post
<1>5. CASE t = "CreateKernelModuleLoadRule"
  <2>1. RuleFits(h, C) /\ h.vcanRule # Absent /\ h.canGwRule # Absent
    BY <1>5 DEF FitsOf, Fulfilled, CreateKernelModuleLoadRuleFulfilled
  <2> QED
    BY <1>5, <2>1 DEF Post, RuleFits
<1>6. CASE t = "NetbirdUnpack"
  <2>1. NetbirdFits(h, C) /\ h.netbirdSum = s.version
    BY <1>6 DEF FitsOf, Fulfilled, NetbirdUnpackFulfilled
  <2> QED
    BY <1>1, <1>6, <2>1 DEF Post, NetbirdFits
<1>7. CASE t = "CreateUser"
  BY <1>7 DEF Post, Fulfilled, CreateUserFulfilled
<1>8. CASE t = "RequestLinuxNetworkCapability"
  <2>1. h.cap
    BY <1>8 DEF Fulfilled, RequestLinuxNetworkCapabilityFulfilled
  <2>2. h.cap \in BOOLEAN
    BY DEF HostOK, Flags
  <2>3. h.cap = TRUE
    BY <2>1, <2>2
  <2> QED
    BY <1>8, <2>3 DEF Post
<1>9. CASE t = "CreateServiceFile"
  <2>1. UnitFits(h, C) /\ h.unitSum = s.user
    BY <1>9 DEF FitsOf, Fulfilled, CreateServiceFileFulfilled
  <2> QED
    BY <1>1, <1>9, <2>1 DEF Post, UnitFits
<1>10. CASE t = "CreateBridge"
  <2>1. BridgeFits(h, C) /\ h.bridge
    BY <1>10 DEF FitsOf, Fulfilled, CreateBridgeFulfilled
  <2>2. h.bridge \in BOOLEAN
    BY DEF HostOK, Flags
  <2>3. h.bridge = TRUE
    BY <2>1, <2>2
  <2> QED
    BY <1>10, <2>1, <2>3 DEF Post, BridgeFits
<1>11. CASE t \in {"ClaimFileOwnership", "RestartService", "CreateGreInterfaces",
                   "ConnectDeviceInterfaces"}
  BY <1>11 DEF Fulfilled
<1>12. CASE t \notin {"WriteCaCertificate", "CopyExecutable", "LoadKernelModules",
                      "CreateKernelModuleLoadRule", "NetbirdUnpack", "CreateUser",
                      "ClaimFileOwnership", "RequestLinuxNetworkCapability", "CreateServiceFile",
                      "RestartService", "CreateBridge", "CreateGreInterfaces",
                      "ConnectDeviceInterfaces"}
  BY <1>12 DEF Post
<1> QED
  BY <1>2, <1>3, <1>4, <1>5, <1>6, <1>7, <1>8, <1>9, <1>10, <1>11, <1>12

\* Checksum files are as before, or cut while they were written.
Vouching(h, g) ==
    /\ g.caOsSum \in {h.caOsSum, Partial}
    /\ g.netbirdSum \in {h.netbirdSum, Partial}
    /\ g.unitSum \in {h.unitSum, Partial}

\* A task that s has left half executed.
LEMMA FitsMid ==
    ASSUME NEW s, NEW t \in TaskNames, NEW h, NEW g, NEW C, NEW D,
           Undone(t, s, h, C), C[t] \subseteq D[t], s \in D[t], Vouching(h, g)
    PROVE  FitsOf(t, g, D)
<1>1. \A field, v : s[field] # v => Other(D, t, field, v)
  BY DEF Other
<1>2. D[t] # {}
  OBVIOUS
<1>3. ASSUME t = "WriteCaCertificate", g.caOsSum \notin {Absent, Partial}
      PROVE  Other(D, t, "cert", g.caOsSum)
  <2>1. g.caOsSum = h.caOsSum /\ (h.caOsSum # s.cert \/ Other(C, t, "cert", s.cert))
    BY <1>3 DEF Vouching, Undone
  <2>2. CASE h.caOsSum # s.cert
    BY <1>1, <2>1, <2>2
  <2>3. CASE h.caOsSum = s.cert
    BY <2>1, <2>3 DEF Other
  <2> QED
    BY <2>2, <2>3
<1>4. ASSUME t = "NetbirdUnpack", g.netbirdSum \notin {Absent, Partial}
      PROVE  Other(D, t, "version", g.netbirdSum)
  BY <1>1, <1>4 DEF Vouching, Undone
<1>5. ASSUME t = "CreateServiceFile", g.unitSum \notin {Absent, Partial}
      PROVE  Other(D, t, "user", g.unitSum)
  BY <1>1, <1>5 DEF Vouching, Undone
<1> QED
  BY <1>2, <1>3, <1>4, <1>5
     DEF FitsOf, CertFits, ExeFits, RuleFits, NetbirdFits, UnitFits, BridgeFits

\* Until the last step of a task its checksum file is as before.
SameSums(h, g) == g.caOsSum = h.caOsSum /\ g.netbirdSum = h.netbirdSum /\ g.unitSum = h.unitSum

\* No step but a task's last writes a checksum that vouches for its result.
LEMMA DoneSums ==
    ASSUME NEW s, NEW t \in TaskNames, NEW h, HostOK(h),
           NEW n \in 1 .. Len(StepsOf(t)), n < Len(StepsOf(t))
    PROVE  SameSums(h, Done(StepsOf(t)[n], s, h))
<1> DEFINE a == StepsOf(t)[n]
           g == Done(a, s, h)
<1>1. /\ a \in StepNames /\ \A f \in Fields(a) : MayTouch(t, f)
      /\ Len(StepsOf(t)) \in 1 .. 5
  BY StepTouches
<1>2. ASSUME a = "caOsSum" PROVE FALSE
  <2>1. t = "WriteCaCertificate"
    BY <1>1, <1>2 DEF Fields, MayTouch, Owner
  <2>2. Len(StepsOf(t)) = 5
    BY <2>1, Steps
  <2>3. n \in {1, 2, 3, 4}
    BY <2>2
  <2> QED
    BY <1>2, <2>1, <2>3, Steps
<1>3. ASSUME a = "netbirdSum" PROVE FALSE
  <2>1. t = "NetbirdUnpack"
    BY <1>1, <1>3 DEF Fields, MayTouch, Owner
  <2>2. Len(StepsOf(t)) = 2
    BY <2>1, Steps
  <2>3. n = 1
    BY <2>2
  <2> QED
    BY <1>3, <2>1, <2>3, Steps
<1>4. ASSUME a = "unitSum" PROVE FALSE
  <2>1. t = "CreateServiceFile"
    BY <1>1, <1>4 DEF Fields, MayTouch, Owner
  <2>2. Len(StepsOf(t)) = 3
    BY <2>1, Steps
  <2>3. n \in {1, 2}
    BY <2>2
  <2> QED
    BY <1>4, <2>1, <2>3, Steps
<1> HIDE DEF a
<1>5. \A x \in {"caOsSum", "netbirdSum", "unitSum"} : x \notin Fields(a)
  BY <1>1, <1>2, <1>3, <1>4 DEF Fields, StepNames
<1>6. \A x \in HostFields : x \notin Fields(a) => g[x] = h[x]
  BY <1>1, DoneWrites
<1>7. {"caOsSum", "netbirdSum", "unitSum"} \subseteq HostFields
  BY DEF HostFields
<1>8. \A x \in {"caOsSum", "netbirdSum", "unitSum"} : g[x] = h[x]
  BY <1>5, <1>6, <1>7
<1> QED
  BY <1>8 DEF SameSums, a

\* A write that is cut short leaves checksums alone or makes them partial.
LEMMA TornVouching ==
    ASSUME NEW h, HostOK(h), NEW a \in Written
    PROVE  Vouching(h, Torn(a, h))
<1>1. DOMAIN h = HostFields
  BY DEF HostOK
<1>2. CASE a = "exe"
  <2>1. Sets2(Torn(a, h), h, "exe", Partial, "cap", FALSE)
    BY <1>1, <1>2, TornSets
  <2> QED
    BY <2>1 DEF Sets2, Vouching, HostFields
<1>3. CASE a # "exe"
  <2>1. Sets(Torn(a, h), h, a, Partial)
    BY <1>1, <1>3, TornSets
  <2>2. \A x \in HostFields : Torn(a, h)[x] = h[x] \/ Torn(a, h)[x] = Partial
    BY <2>1 DEF Sets
  <2> QED
    BY <2>2 DEF Vouching, HostFields
<1> QED
  BY <1>2, <1>3

\* Before the next step of its task.
LEMMA BegunNext ==
    ASSUME NEW s, NEW t \in TaskNames, NEW h, HostOK(h), NEW C, NEW D,
           NEW n \in 1 .. Len(StepsOf(t)), n < Len(StepsOf(t)),
           Undone(t, s, h, C), TaskBegun(t, n, s, h, C), C[t] \subseteq D[t]
    PROVE  TaskBegun(t, n + 1, s, Done(StepsOf(t)[n], s, h), D)
<1> DEFINE g == Done(StepsOf(t)[n], s, h)
<1>0. DOMAIN h = HostFields
  BY DEF HostOK
<1>1. Undone(t, s, g, D)
  <2>1. SameSums(h, g)
    BY DoneSums
  <2>2. Other(C, t, "cert", s.cert) => Other(D, t, "cert", s.cert)
    BY DEF Other
  <2> QED
    BY <2>1, <2>2 DEF Undone, SameSums
<1>2. n \in Nat /\ n + 1 \in Nat
  OBVIOUS
<1>3. CASE t = "WriteCaCertificate"
  <2>0. Len(StepsOf(t)) = 5
    BY <1>3, Steps
  <2>1. n \in {1, 2, 3, 4}
    BY <2>0
  <2>2. CASE n = 1
    <3>1. g = Done("caCarl", s, h)
      BY <1>3, <2>2, Steps
    <3>2. Sets(g, h, "caCarl", s.cert)
      BY <1>0, <3>1, DoneSets
    <3>3. g.caCarl = s.cert
      BY <1>3, <2>2, <3>2 DEF TaskBegun, Sets, HostFields
    <3> QED
      BY <1>1, <1>3, <2>2, <3>3 DEF TaskBegun
  <2>3. CASE n = 2
    <3>1. g = Done("caCarlSum", s, h)
      BY <1>3, <2>3, Steps
    <3>2. Sets(g, h, "caCarlSum", h.caCarl)
      BY <1>0, <3>1, DoneSets
    <3>3. g.caCarlSum = s.cert /\ g.caCarl = s.cert
      BY <1>3, <2>3, <3>2 DEF TaskBegun, Sets, HostFields
    <3> QED
      BY <1>1, <1>3, <2>3, <3>3 DEF TaskBegun
  <2>4. CASE n = 3
    <3>1. g = Done("caOs", s, h)
      BY <1>3, <2>4, Steps
    <3>2. Sets(g, h, "caOs", h.caCarl)
      BY <1>0, <3>1, DoneSets
    <3>3. g.caOs = s.cert /\ g.caCarl = s.cert /\ g.caCarlSum = s.cert
      BY <1>3, <2>4, <3>2 DEF TaskBegun, Sets, HostFields
    <3> QED
      BY <1>1, <1>3, <2>4, <3>3 DEF TaskBegun
  <2>5. CASE n = 4
    <3>1. g = Done("trust", s, h)
      BY <1>3, <2>5, Steps
    <3>2. Sets(g, h, "trust", h.caOs)
      BY <1>0, <3>1, DoneSets
    <3>3. g.caOs = s.cert /\ g.caCarl = s.cert /\ g.caCarlSum = s.cert /\ g.trust = s.cert
      BY <1>3, <2>5, <3>2 DEF TaskBegun, Sets, HostFields
    <3> QED
      BY <1>1, <1>3, <2>5, <3>3 DEF TaskBegun
  <2> QED
    BY <2>1, <2>2, <2>3, <2>4, <2>5
<1>4. CASE t = "CopyExecutable"
  <2>0. Len(StepsOf(t)) = 4
    BY <1>4, Steps
  <2>1. n \in {1, 2, 3}
    BY <2>0
  <2>2. CASE n = 1
    BY <1>1, <1>4, <2>2 DEF TaskBegun
  <2>3. CASE n = 2
    <3>1. g = Done("exe", s, h)
      BY <1>4, <2>3, Steps
    <3>2. Sets2(g, h, "exe", s.version, "cap", FALSE)
      BY <1>0, <3>1, DoneSets
    <3>3. g.exe = s.version
      BY <3>2 DEF Sets2
    <3> QED
      BY <1>1, <1>4, <2>3, <3>3 DEF TaskBegun
  <2>4. CASE n = 3
    <3>1. g = Done("unlink", s, h)
      BY <1>4, <2>4, Steps
    <3>2. Sets(g, h, "link", FALSE)
      BY <1>0, <3>1, DoneSets
    <3>3. g.exe = s.version
      BY <1>4, <2>4, <3>2 DEF TaskBegun, Sets, HostFields
    <3> QED
      BY <1>1, <1>4, <2>4, <3>3 DEF TaskBegun
  <2> QED
    BY <2>1, <2>2, <2>3, <2>4
<1>5. CASE t = "CreateKernelModuleLoadRule"
  <2>0. Len(StepsOf(t)) = 2
    BY <1>5, Steps
  <2>1. n = 1
    BY <2>0
  <2>2. g = Done("vcanRule", s, h)
    BY <1>5, <2>1, Steps
  <2>3. Sets(g, h, "vcanRule", "rule")
    BY <1>0, <2>2, DoneSets
  <2>4. g.vcanRule = "rule"
    BY <2>3 DEF Sets
  <2> QED
    BY <1>1, <1>5, <2>1, <2>4 DEF TaskBegun
<1>6. CASE t = "NetbirdUnpack"
  <2>0. Len(StepsOf(t)) = 2
    BY <1>6, Steps
  <2>1. n = 1
    BY <2>0
  <2>2. g = Done("netbird", s, h)
    BY <1>6, <2>1, Steps
  <2>3. Sets(g, h, "netbird", s.version)
    BY <1>0, <2>2, DoneSets
  <2>4. g.netbird = s.version
    BY <2>3 DEF Sets
  <2> QED
    BY <1>1, <1>6, <2>1, <2>4 DEF TaskBegun
<1>7. CASE t = "ClaimFileOwnership"
  <2>0. Len(StepsOf(t)) = 2
    BY <1>7, Steps
  <2>1. n = 1
    BY <2>0
  <2>2. g = Done("owner", s, h)
    BY <1>7, <2>1, Steps
  <2>3. Sets2(g, h, "owner", s.user, "cap", FALSE)
    BY <1>0, <2>2, DoneSets
  <2>4. g.owner = s.user
    BY <2>3 DEF Sets2
  <2> QED
    BY <1>1, <1>7, <2>1, <2>4 DEF TaskBegun
<1>8. CASE t = "CreateServiceFile"
  <2>0. Len(StepsOf(t)) = 3
    BY <1>8, Steps
  <2>1. n \in {1, 2}
    BY <2>0
  <2>2. CASE n = 1
    <3>1. g = Done("unit", s, h)
      BY <1>8, <2>2, Steps
    <3>2. Sets(g, h, "unit", s.user)
      BY <1>0, <3>1, DoneSets
    <3>3. g.unit = s.user
      BY <3>2 DEF Sets
    <3> QED
      BY <1>1, <1>8, <2>2, <3>3 DEF TaskBegun
  <2>3. CASE n = 2
    <3>1. g = Done("unitLoaded", s, h)
      BY <1>8, <2>3, Steps
    <3>2. Sets(g, h, "unitLoaded", h.unit)
      BY <1>0, <3>1, DoneSets
    <3>3. g.unitLoaded = s.user /\ g.unit = s.user
      BY <1>8, <2>3, <3>2 DEF TaskBegun, Sets, HostFields
    <3> QED
      BY <1>1, <1>8, <2>3, <3>3 DEF TaskBegun
  <2> QED
    BY <2>1, <2>2, <2>3
<1>9. CASE t \notin {"WriteCaCertificate", "CopyExecutable", "CreateKernelModuleLoadRule",
                     "NetbirdUnpack", "ClaimFileOwnership", "CreateServiceFile"}
  BY <1>1, <1>9 DEF TaskBegun
<1> QED
  BY <1>3, <1>4, <1>5, <1>6, <1>7, <1>8, <1>9

\* After its last step a task has done all it does: before, and for the service,
\* what it starts is what this setup installed.
LEMMA PostEnd ==
    ASSUME NEW s \in Setups, NEW t \in TaskNames, NEW h, HostOK(h), NEW C, NEW D,
           NEW n, n = Len(StepsOf(t)), TaskBegun(t, n, s, h, C),
           t = "RestartService" =>
               /\ h.exe = s.version /\ files.conf.peer = s.peer
               /\ h.unitLoaded = s.user \/ Other(D, "CreateServiceFile", "user", s.user)
    PROVE  LET g == Done(StepsOf(t)[n], s, h) IN Post(t, s, g, D) /\ FitsOf(t, g, D)
<1> DEFINE g == Done(StepsOf(t)[n], s, h)
<1>0. DOMAIN h = HostFields
  BY DEF HostOK
<1>1. CASE t = "WriteCaCertificate"
  <2>1. n = 5 /\ g = Done("caOsSum", s, h)
    BY <1>1, Steps
  <2>2. Sets(g, h, "caOsSum", h.caOs)
    BY <1>0, <2>1, DoneSets
  <2>3. h.caCarl = s.cert /\ h.caCarlSum = s.cert /\ h.caOs = s.cert /\ h.trust = s.cert
    <3>1. n > 1 /\ n > 2 /\ n > 3 /\ n > 4
      BY <2>1
    <3> QED
      BY <1>1, <3>1 DEF TaskBegun
  <2>4. /\ g.caCarl = s.cert /\ g.caCarlSum = s.cert /\ g.caOs = s.cert
        /\ g.trust = s.cert /\ g.caOsSum = s.cert
    BY <2>2, <2>3 DEF Sets, HostFields
  <2>5. s.cert # Absent
    BY SetupFacts
  <2> QED
    BY <1>1, <2>4, <2>5 DEF Post, FitsOf, CertFits
<1>2. CASE t = "CopyExecutable"
  <2>1. n = 4 /\ g = Done("link", s, h)
    BY <1>2, Steps
  <2>2. Sets(g, h, "link", TRUE)
    BY <1>0, <2>1, DoneSets
  <2>3. h.exe = s.version
    <3>1. n > 2
      BY <2>1
    <3> QED
      BY <1>2, <3>1 DEF TaskBegun
  <2>4. g.exe = s.version /\ g.link = TRUE
    BY <2>2, <2>3 DEF Sets, HostFields
  <2> QED
    BY <1>2, <2>4 DEF Post, FitsOf, ExeFits
<1>3. CASE t = "LoadKernelModules"
  <2>1. n = 1 /\ g = Done("loaded", s, h)
    BY <1>3, Steps
  <2>2. Sets(g, h, "loaded", TRUE)
    BY <1>0, <2>1, DoneSets
  <2>3. g.loaded = TRUE
    BY <2>2 DEF Sets
  <2> QED
    BY <1>3, <2>3 DEF Post, FitsOf
<1>4. CASE t = "CreateKernelModuleLoadRule"
  <2>1. n = 2 /\ g = Done("canGwRule", s, h)
    BY <1>4, Steps
  <2>2. Sets(g, h, "canGwRule", "rule")
    BY <1>0, <2>1, DoneSets
  <2>3. h.vcanRule = "rule"
    <3>1. n > 1
      BY <2>1
    <3> QED
      BY <1>4, <3>1 DEF TaskBegun
  <2>4. g.vcanRule = "rule" /\ g.canGwRule = "rule"
    BY <2>2, <2>3 DEF Sets, HostFields
  <2> QED
    BY <1>4, <2>4 DEF Post, FitsOf, RuleFits
<1>5. CASE t = "NetbirdUnpack"
  <2>1. n = 2 /\ g = Done("netbirdSum", s, h)
    BY <1>5, Steps
  <2>2. Sets(g, h, "netbirdSum", s.version)
    BY <1>0, <2>1, DoneSets
  <2>3. h.netbird = s.version
    <3>1. n > 1
      BY <2>1
    <3> QED
      BY <1>5, <3>1 DEF TaskBegun
  <2>4. g.netbird = s.version /\ g.netbirdSum = s.version
    BY <2>2, <2>3 DEF Sets, HostFields
  <2> QED
    BY <1>5, <2>4 DEF Post, FitsOf, NetbirdFits
<1>6. CASE t = "CreateUser"
  <2>1. n = 1 /\ g = Done("users", s, h)
    BY <1>6, Steps
  <2>2. Sets(g, h, "users", h.users \cup {s.user})
    BY <1>0, <2>1, DoneSets
  <2>3. s.user \in g.users
    BY <2>2 DEF Sets
  <2> QED
    BY <1>6, <2>3 DEF Post, FitsOf
<1>7. CASE t = "RequestLinuxNetworkCapability"
  <2>1. n = 1 /\ g = Done("cap", s, h)
    BY <1>7, Steps
  <2>2. Sets(g, h, "cap", TRUE)
    BY <1>0, <2>1, DoneSets
  <2>3. g.cap = TRUE
    BY <2>2 DEF Sets
  <2> QED
    BY <1>7, <2>3 DEF Post, FitsOf
<1>8. CASE t = "CreateServiceFile"
  <2>1. n = 3 /\ g = Done("unitSum", s, h)
    BY <1>8, Steps
  <2>2. Sets(g, h, "unitSum", s.user)
    BY <1>0, <2>1, DoneSets
  <2>3. h.unit = s.user /\ h.unitLoaded = s.user
    <3>1. n > 1 /\ n > 2
      BY <2>1
    <3> QED
      BY <1>8, <3>1 DEF TaskBegun
  <2>4. g.unit = s.user /\ g.unitLoaded = s.user /\ g.unitSum = s.user
    BY <2>2, <2>3 DEF Sets, HostFields
  <2> QED
    BY <1>8, <2>4 DEF Post, FitsOf, UnitFits
<1>9. CASE t = "CreateBridge"
  <2>1. n = 2 /\ g = Done("bridgeUp", s, h)
    BY <1>9, Steps
  <2>2. Sets(g, h, "bridgeUp", TRUE)
    BY <1>0, <2>1, DoneSets
  <2>3. g.bridgeUp = TRUE
    BY <2>2 DEF Sets
  <2> QED
    BY <1>9, <2>3 DEF Post, FitsOf, BridgeFits
<1>10. CASE t = "CreateGreInterfaces"
  <2>1. n = 1 /\ g = Done("gre", s, h)
    BY <1>10, Steps
  <2>2. Sets(g, h, "gre", TRUE)
    BY <1>0, <2>1, DoneSets
  <2>3. g.gre = TRUE
    BY <2>2 DEF Sets
  <2> QED
    BY <1>10, <2>3 DEF Post, FitsOf
<1>11. CASE t = "ConnectDeviceInterfaces"
  <2>1. n = 1 /\ g = Done("joined", s, h)
    BY <1>11, Steps
  <2>2. Sets(g, h, "joined", TRUE)
    BY <1>0, <2>1, DoneSets
  <2>3. g.joined = TRUE
    BY <2>2 DEF Sets
  <2> QED
    BY <1>11, <2>3 DEF Post, FitsOf
<1>12. CASE t = "ClaimFileOwnership"
  <2>1. n = 2 /\ g = Done("restrict", s, h)
    BY <1>12, Steps
  <2>2. h.owner = s.user
    <3>1. n > 1
      BY <2>1
    <3> QED
      BY <1>12, <3>1 DEF TaskBegun
  <2>3. g.owner = s.user
    BY <1>0, <2>1, <2>2, DoneSets
  <2> QED
    BY <1>12, <2>3 DEF Post, FitsOf
<1>13. CASE t = "RestartService"
  <2>1. n = 2 /\ g = Done("start", s, h)
    BY <1>13, Steps
  <2>2. Sets2(g, h, "service", Service(h), "enabled", TRUE)
    BY <1>0, <2>1, DoneSets
  <2>3. /\ g.enabled = TRUE
        /\ g.service = [version |-> h.exe, user |-> h.unitLoaded, peer |-> files.conf.peer]
    BY <2>2 DEF Sets2, Service
  <2>4. \/ g.service = [version |-> s.version, user |-> s.user, peer |-> s.peer]
        \/ Other(D, "CreateServiceFile", "user", s.user)
    BY <1>13, <2>3
  <2> QED
    BY <1>13, <2>3, <2>4 DEF Post, FitsOf
<1>14. CASE t \in {"Plugin", "CheckCommandLinePrograms", "CheckCarlReachable", "CopyRperf",
                  "NetbirdInstallService", "NetbirdRestartService", "NetbirdConnect"}
  BY <1>14 DEF Post, FitsOf
<1> QED
  BY <1>1, <1>2, <1>3, <1>4, <1>5, <1>6, <1>7, <1>8, <1>9, <1>10, <1>11, <1>12, <1>13,
     <1>14 DEF TaskNames

\* What a step that is not cut leaves is whole.
LEMMA DoneWhole ==
    ASSUME NEW s \in Setups, NEW t \in TaskNames, NEW h, HostOK(h), NEW C,
           NEW n \in 1 .. Len(StepsOf(t)), TaskBegun(t, n, s, h, C)
    PROVE  LET g == Done(StepsOf(t)[n], s, h) IN
           /\ t = "NetbirdUnpack" => g.netbird # Partial
           /\ t = "CreateServiceFile" => g.unit # Partial
<1> DEFINE g == Done(StepsOf(t)[n], s, h)
<1>0. DOMAIN h = HostFields /\ s.version # Partial /\ s.user # Partial
  BY SetupFacts DEF HostOK
<1>1. CASE t = "NetbirdUnpack"
  <2>0. Len(StepsOf(t)) = 2
    BY <1>1, Steps
  <2>1. n \in {1, 2}
    BY <2>0
  <2>2. CASE n = 1
    <3>1. Sets(g, h, "netbird", s.version)
      BY <1>0, <1>1, <2>2, Steps, DoneSets
    <3> QED
      BY <1>0, <1>1, <3>1 DEF Sets
  <2>3. CASE n = 2
    <3>1. Sets(g, h, "netbirdSum", s.version)
      BY <1>0, <1>1, <2>3, Steps, DoneSets
    <3>2. g.netbird = s.version
      BY <1>1, <2>3, <3>1 DEF TaskBegun, Sets, HostFields
    <3> QED
      BY <1>0, <1>1, <3>2
  <2> QED
    BY <2>1, <2>2, <2>3
<1>2. CASE t = "CreateServiceFile"
  <2>0. Len(StepsOf(t)) = 3
    BY <1>2, Steps
  <2>1. n \in {1, 2, 3}
    BY <2>0
  <2>2. CASE n = 1
    <3>1. Sets(g, h, "unit", s.user)
      BY <1>0, <1>2, <2>2, Steps, DoneSets
    <3> QED
      BY <1>0, <1>2, <3>1 DEF Sets
  <2>3. CASE n = 2
    <3>1. Sets(g, h, "unitLoaded", h.unit)
      BY <1>0, <1>2, <2>3, Steps, DoneSets
    <3>2. g.unit = s.user
      BY <1>2, <2>3, <3>1 DEF TaskBegun, Sets, HostFields
    <3> QED
      BY <1>0, <1>2, <3>2
  <2>4. CASE n = 3
    <3>1. Sets(g, h, "unitSum", s.user)
      BY <1>0, <1>2, <2>4, Steps, DoneSets
    <3>2. g.unit = s.user
      BY <1>2, <2>4, <3>1 DEF TaskBegun, Sets, HostFields
    <3> QED
      BY <1>0, <1>2, <3>2
  <2> QED
    BY <2>1, <2>2, <2>3, <2>4
<1> QED
  BY <1>1, <1>2

----------------------------------------------------------------------------
(* The steps of a run.                                                      *)

\* Every task has a step, and up to five.
LEMMA ExecutionLen ==
    ASSUME NEW t \in TaskNames PROVE Len(StepsOf(t)) \in 1 .. 5
<1>1. \A u \in TaskNames : Len(StepsOf(u)) \in {1, 2, 3, 4, 5}
  BY Steps DEF TaskNames
<1>2. \A k \in {1, 2, 3, 4, 5} : k \in 1 .. 5
  OBVIOUS
<1> QED
  BY <1>1, <1>2

\* Before its first step a task has done nothing.
LEMMA BegunFirst ==
    ASSUME NEW t, NEW s, NEW h, NEW C PROVE TaskBegun(t, 1, s, h, C)
<1>1. ~ (1 > 1) /\ ~ (1 > 2) /\ ~ (1 > 3) /\ ~ (1 > 4)
  OBVIOUS
<1> QED
  BY <1>1 DEF TaskBegun

\* The tasks stay the same while the machine does.
LEMMA NextTasks ==
    ASSUME docker' = docker
    PROVE  /\ (Tasks(run.setup))' = Tasks(run'.setup) /\ (TasksOf(run.setup))' = TasksOf(run'.setup)
           /\ Task' = Tasks(run'.setup)[run'.task]
           /\ (TasksOf(last))' = TasksOf(last')
  BY DEF TasksOf, Task, Tasks, Managed

\* What is half executed is so on behalf of the setup under way.
LEMMA CutsOfTask ==
    /\ \A t \in TaskNames : t # Task => Cuts[t] = cut[t]
    /\ run.at # "tasks" \/ run.step = 1 => \A t \in TaskNames : Cuts[t] = cut[t]
    /\ \A t \in TaskNames : Cuts[t] \subseteq cut[t] \cup {run.setup} /\ cut[t] \subseteq Cuts[t]
<1>1. run.step = 1 => ~ (run.step > 1)
  OBVIOUS
<1> QED
  BY <1>1 DEF Cuts

\* The cuts of the next state, from its run and history.
LEMMA CutsNext ==
    /\ run'.at # "tasks" \/ run'.step = 1 => \A t \in TaskNames : Cuts'[t] = cut'[t]
    /\ run'.at = "tasks" /\ run'.step > 1 =>
           \A t \in TaskNames : Cuts'[t] = cut'[t] \cup (IF Task' = t THEN {run'.setup} ELSE {})
<1>1. run'.step = 1 => ~ (run'.step > 1)
  OBVIOUS
<1> QED
  BY <1>1 DEF Cuts

\* Fits depends on the cuts of the tasks only.
LEMMA FitsSame ==
    ASSUME NEW h, NEW C, NEW D, \A t \in TaskNames : D[t] = C[t]
    PROVE  Fits(h, C) <=> Fits(h, D)
<1>1. \A t \in TaskNames : FitsOf(t, h, C) => FitsOf(t, h, D)
  BY FitsWider
<1>2. \A t \in TaskNames : FitsOf(t, h, D) => FitsOf(t, h, C)
  BY FitsWider
<1> QED
  BY <1>1, <1>2, FitsByTask

\* What is known of a run in which a task is due, or asked.
LEMMA TaskFacts ==
    ASSUME FilesInv, RunInv, run.at = "tasks"
    PROVE  /\ run # NotRunning /\ run.setup \in Setups /\ run.task \in 1 .. Len(Tasks(run.setup))
           /\ Task \in TaskNames /\ Task \in TasksOf(run.setup)
           /\ run.step \in 1 .. Len(StepsOf(Task)) /\ Len(StepsOf(Task)) \in 1 .. 5
<1>1. run # NotRunning
  BY IdleFacts
<1>2. /\ run.setup \in Setups /\ run.task \in 1 .. Len(Tasks(run.setup))
      /\ run.step \in 1 .. Len(StepsOf(Task))
  BY <1>1 DEF RunInv
<1>3. Task \in TaskNames /\ Task \in TasksOf(run.setup)
  BY <1>2, TasksBefore DEF Task
<1> QED
  BY <1>1, <1>2, <1>3, ExecutionLen

\* What the machine is like when no task is half executed, for the invariant.
Rested(h, C) == HostOK(h) /\ Fits(h, C) /\ Whole(h, C)

\* When no task is half executed, the cuts are those of the past.
LEMMA RestedNext ==
    ASSUME Rested(host', cut'), run'.at # "tasks" \/ run'.step = 1
    PROVE  HostInv'
<1>1. \A t \in TaskNames : Cuts'[t] = cut'[t]
  BY CutsNext
<1>2. HostOK(host') /\ Fits(host', cut') /\ Whole(host', cut')
  BY DEF Rested
<1>3. Fits(host', Cuts')
  BY <1>1, <1>2, FitsSame
<1> QED
  BY <1>2, <1>3 DEF HostInv

\* A run that ends.
LEMMA EndedRun ==
    ASSUME FilesInv, RunInv, run' = NotRunning, docker' = docker, interruptions' \in 0 .. MaxInterruptions,
           cut' \in [TaskNames -> SUBSET Setups], Rested(host', cut')
    PROVE  RunInv' /\ HostInv' /\ TasksInv'
<1>1. run'.at = "idle"
  BY IdleFacts
<1>2. HostInv'
  BY <1>1, RestedNext
<1>3. RunInv'
  BY <1>1 DEF RunInv, Configuring
<1> QED
  BY <1>1, <1>2, <1>3 DEF TasksInv

\* On to the next task.
LEMMA NextTaskInv ==
    ASSUME FilesInv, RunInv, LastInv, run.at = "tasks", NextTask,
           UNCHANGED <<docker, interruptions>>, files'.conf.peer = files.conf.peer,
           cut' \in [TaskNames -> SUBSET Setups], Rested(host', cut'),
           run.setup.dry => UNCHANGED <<files, host, cut>>,
           ~ run.setup.dry =>
               \A t \in TasksOf(run.setup) :
                   t = Task \/ Rank(run.setup.mode, t) < Rank(run.setup.mode, Task) =>
                       Post(t, run.setup, host', cut')
    PROVE  RunInv' /\ HostInv' /\ TasksInv' /\ LastInv'
<1> DEFINE s == run.setup
           i == run.task
           R(t) == Rank(s.mode, t)
<1>1. /\ run # NotRunning /\ s \in Setups /\ i \in 1 .. Len(Tasks(s)) /\ Task = Tasks(s)[i]
      /\ Task \in TaskNames
  BY TaskFacts DEF Task
<1>2. /\ s.dry \in BOOLEAN
      /\ ~ s.dry => last = NoSetup
      /\ ~ s.dry /\ s.mode = "managed" => files.conf.peer = s.peer
  BY <1>1, SetupFacts DEF RunInv
<1>3. DOMAIN run = {"at", "setup", "target", "task", "step"}
  BY DEF FilesInv
<1>4. ASSUME s.dry, last' = last PROVE LastInv'
  BY <1>4, NextTasks DEF LastInv
<1>5. CASE i = Len(Tasks(s))
  <2>1. run' = NotRunning /\ last' = IF s.dry THEN last ELSE s
    BY <1>5 DEF NextTask
  <2>2. interruptions' \in 0 .. MaxInterruptions
    BY DEF RunInv
  <2>3. RunInv' /\ HostInv' /\ TasksInv'
    BY <2>1, <2>2, EndedRun
  <2>4. CASE s.dry
    BY <1>4, <2>1, <2>3, <2>4
  <2>5. CASE ~ s.dry
    <3>1. last' = s /\ (TasksOf(last))' = TasksOf(s)
      BY <2>1, <2>5, NextTasks
    <3>2. \A t \in TasksOf(s) : t = Task \/ R(t) < R(Task)
      BY <1>1, <1>5, TasksBefore
    <3>3. \A t \in TasksOf(s) : Post(t, s, host', cut')
      BY <2>5, <3>2
    <3>4. \A t \in TasksOf(s) : Left(t, s, host', cut')
      BY <3>3 DEF Left, Post
    <3>5. s.mode = "managed" => files'.conf.peer = s.peer
      BY <1>2, <2>5
    <3> HIDE DEF s
    <3>6. LastInv'
      BY <1>1, <3>1, <3>4, <3>5 DEF LastInv
    <3> QED
      BY <2>3, <3>6
  <2> QED
    BY <1>2, <2>4, <2>5
<1>6. CASE i # Len(Tasks(s))
  <2>1. run' = [run EXCEPT !.task = @ + 1, !.step = 1] /\ last' = last
    BY <1>6 DEF NextTask
  <2>2. /\ run'.at = "tasks" /\ run'.setup = s /\ run'.task = i + 1 /\ run'.step = 1
    BY <1>3, <2>1
  <2>3. /\ i + 1 \in 1 .. Len(Tasks(s))
        /\ \A t \in TasksOf(s) : R(t) < R(Tasks(s)[i + 1]) => t = Task \/ R(t) < R(Task)
    BY <1>1, <1>6, TasksBefore
  <2>4. /\ Task' = Tasks(s)[i + 1] /\ Task' \in TaskNames
        /\ (TasksOf(run.setup))' = TasksOf(s) /\ (Tasks(run.setup))' = Tasks(s)
    BY <1>1, <2>2, <2>3, NextTasks, TasksBefore
  <2>5. HostInv'
    BY <2>2, RestedNext
  <2>6. 1 \in 1 .. Len(StepsOf(Task'))
    <3>1. \A t \in TaskNames : Len(StepsOf(t)) \in 1 .. 5
      BY ExecutionLen
    <3>2. \A k \in 1 .. 5 : 1 \in 1 .. k
      OBVIOUS
    <3> QED
      BY <2>4, <3>1, <3>2
  <2> HIDE DEF s, i
  <2>7. RunInv'
    <3>1. docker' \in BOOLEAN /\ interruptions' \in 0 .. MaxInterruptions
      BY DEF RunInv
    <3>2. run'.setup \in Setups /\ run'.task \in 1 .. Len((Tasks(run.setup))')
      BY <1>1, <2>2, <2>3, <2>4
    <3>3. run'.step \in 1 .. Len(StepsOf(Task'))
      BY <2>2, <2>6
    <3>4. ~ run'.setup.dry => last' = NoSetup
      BY <1>2, <2>1, <2>2
    <3>5. ~ run'.setup.dry /\ run'.setup.mode = "managed" => files'.conf.peer = run'.setup.peer
      BY <1>2, <2>2
    <3> QED
      BY <2>2, <3>1, <3>2, <3>3, <3>4, <3>5 DEF RunInv, Configuring
  <2>8. TasksInv'
    <3>1. TaskBegun(Task', run'.step, run'.setup, host', Cuts')
      BY <2>2, BegunFirst
    <3>2. ASSUME ~ s.dry, NEW t \in TasksOf(s), R(t) < R(Task')
          PROVE  Post(t, s, host', cut')
      BY <2>3, <2>4, <3>2 DEF s
    <3> QED
      BY <2>2, <2>4, <3>1, <3>2 DEF TasksInv
  <2>9. LastInv'
    <3>1. CASE s.dry
      BY <1>4, <2>1, <3>1
    <3>2. CASE ~ s.dry
      BY <1>2, <2>1, <3>2 DEF LastInv
    <3> QED
      BY <3>1, <3>2
  <2> QED
    BY <2>5, <2>7, <2>8, <2>9
<1> QED
  BY <1>5, <1>6

\* What is known of a run with a task that is due.
LEMMA DueFacts ==
    ASSUME SetupInv, Due
    PROVE  /\ run.at = "tasks" /\ ~ run.setup.dry /\ last = NoSetup
           /\ HostOK(host) /\ Whole(host, cut) /\ \A t \in TaskNames : FitsOf(t, host, Cuts)
           /\ Undone(Task, run.setup, host, Cuts)
           /\ TaskBegun(Task, run.step, run.setup, host, Cuts)
           /\ \A t \in TasksOf(run.setup) :
                  Rank(run.setup.mode, t) < Rank(run.setup.mode, Task) => Post(t, run.setup, host, cut)
           /\ run.setup.mode = "managed" => files.conf.peer = run.setup.peer
           /\ cut \in [TaskNames -> SUBSET Setups]
<1>1. FilesInv /\ RunInv /\ HostInv /\ TasksInv
  BY DEF SetupInv
<1>2. run.at = "tasks" /\ ~ run.setup.dry
  BY <1>1, DueIsNotDry
<1>3. /\ run # NotRunning /\ run.setup \in Setups /\ Task \in TaskNames
      /\ run.step \in 1 .. Len(StepsOf(Task)) /\ Len(StepsOf(Task)) \in 1 .. 5
  BY <1>1, <1>2, TaskFacts
<1>4. /\ last = NoSetup /\ cut \in [TaskNames -> SUBSET Setups]
      /\ run.setup.mode = "managed" => files.conf.peer = run.setup.peer
  BY <1>1, <1>2, <1>3 DEF RunInv
<1>5. HostOK(host) /\ Whole(host, cut) /\ \A t \in TaskNames : FitsOf(t, host, Cuts)
  BY <1>1, FitsByTask DEF HostInv
<1>6. /\ TaskBegun(Task, run.step, run.setup, host, Cuts)
      /\ \A t \in TasksOf(run.setup) :
             Rank(run.setup.mode, t) < Rank(run.setup.mode, Task) => Post(t, run.setup, host, cut)
  BY <1>1, <1>2 DEF TasksInv
<1>7. Undone(Task, run.setup, host, Cuts)
  <2>1. CASE run.step = 1
    <3>1. ~ Fulfilled(Task, run.setup, host)
      BY <2>1 DEF Due
    <3> QED
      BY <1>3, <1>5, <3>1, DueUndone
  <2>2. CASE run.step > 1
    BY <1>6, <2>2 DEF TaskBegun
  <2>3. run.step = 1 \/ run.step > 1
    BY <1>3
  <2> QED
    BY <2>1, <2>2, <2>3
<1> QED
  BY <1>2, <1>4, <1>5, <1>6, <1>7

\* A task may leave only its own file partial, and only if it is cut.
LEMMA WholeElsewhere ==
    ASSUME NEW u \in TaskNames, NEW h, NEW g, NEW C, NEW D,
           Touches(u, h, g), CutsBut(u, C, D), Whole(h, C),
           u = "NetbirdUnpack" => g.netbird # Partial \/ D[u] # {},
           u = "CreateServiceFile" => g.unit # Partial \/ D[u] # {}
    PROVE  Whole(g, D)
<1>1. u # "NetbirdUnpack" => g.netbird = h.netbird /\ D["NetbirdUnpack"] = C["NetbirdUnpack"]
  <2>1. MayTouch(u, "netbird") => u = "NetbirdUnpack"
    BY DEF MayTouch, Owner
  <2> QED
    BY <2>1 DEF Touches, CutsBut, HostFields, TaskNames
<1>2. u # "CreateServiceFile" => g.unit = h.unit /\ D["CreateServiceFile"] = C["CreateServiceFile"]
  <2>1. MayTouch(u, "unit") => u = "CreateServiceFile"
    BY DEF MayTouch, Owner
  <2> QED
    BY <2>1 DEF Touches, CutsBut, HostFields, TaskNames
<1> QED
  BY <1>1, <1>2 DEF Whole

\* Executing leaves the peer of the configuration file.
LEMMA ExecutePeer ==
    ASSUME FilesInv, Execute PROVE files'.conf.peer = files.conf.peer
<1>1. files' = files \/ files' = [files EXCEPT !["conf"] = [files["conf"] EXCEPT !.private = TRUE]]
  BY DEF Execute
<1>2. DOMAIN files = FileNames /\ DOMAIN files["conf"] = FileFields
  BY DEF FilesInv, FileNames
<1>3. CASE files' = [files EXCEPT !["conf"] = [files["conf"] EXCEPT !.private = TRUE]]
  <2>1. files'["conf"] = [files["conf"] EXCEPT !.private = TRUE]
    BY <1>2, <1>3 DEF FileNames
  <2> QED
    BY <1>2, <2>1 DEF FileFields
<1> QED
  BY <1>1, <1>3

\* A step before the last of its task.
LEMMA ExecuteMid ==
    ASSUME SetupInv, Execute, run.step < Len(StepsOf(Task))
    PROVE  RunInv' /\ HostInv' /\ TasksInv' /\ LastInv'
<1> DEFINE s == run.setup
           u == Task
           n == run.step
           g == host'
<1>1. Due /\ FilesInv /\ RunInv /\ HostInv /\ TasksInv
  BY DEF Execute, SetupInv
<1>2. /\ run.at = "tasks" /\ ~ s.dry /\ last = NoSetup
      /\ HostOK(host) /\ Whole(host, cut) /\ \A t \in TaskNames : FitsOf(t, host, Cuts)
      /\ Undone(u, s, host, Cuts) /\ TaskBegun(u, n, s, host, Cuts)
      /\ \A t \in TasksOf(s) : Rank(s.mode, t) < Rank(s.mode, u) => Post(t, s, host, cut)
      /\ s.mode = "managed" => files.conf.peer = s.peer
      /\ cut \in [TaskNames -> SUBSET Setups]
  BY <1>1, DueFacts
<1>3. /\ run # NotRunning /\ s \in Setups /\ run.task \in 1 .. Len(Tasks(s)) /\ u \in TaskNames
      /\ n \in 1 .. Len(StepsOf(u)) /\ Len(StepsOf(u)) \in 1 .. 5
  BY <1>1, <1>2, TaskFacts
<1>4. /\ g = Done(StepsOf(u)[n], s, host)
      /\ run' = [run EXCEPT !.step = @ + 1]
      /\ UNCHANGED <<cut, last, docker, interruptions>>
  BY DEF Execute
<1>5. DOMAIN run = {"at", "setup", "target", "task", "step"}
  BY <1>1 DEF FilesInv
<1>6. run'.at = "tasks" /\ run'.setup = s /\ run'.task = run.task /\ run'.step = n + 1
  BY <1>2, <1>4, <1>5
<1>7. Task' = u /\ (TasksOf(run.setup))' = TasksOf(s) /\ (Tasks(run.setup))' = Tasks(s)
  BY <1>4, <1>6, NextTasks DEF Task
<1>8. /\ n + 1 \in 1 .. Len(StepsOf(u)) /\ n + 1 > 1
  BY <1>3
<1>9. \A t \in TaskNames : Cuts'[t] = cut[t] \cup (IF t = u THEN {s} ELSE {})
  BY <1>4, <1>6, <1>7, <1>8, CutsNext
<1>10. CutsBut(u, Cuts, Cuts') /\ Cuts[u] \subseteq Cuts'[u] /\ s \in Cuts'[u]
  BY <1>3, <1>9, CutsOfTask DEF CutsBut
<1> HIDE DEF s, u, n, g
<1>11. Touches(u, host, g)
  BY <1>2, <1>3, <1>4, DoneTouches
<1>12. SameSums(host, g)
  BY <1>2, <1>3, <1>4, DoneSums DEF u, n
<1>13. FitsOf(u, g, Cuts')
  <2>1. Vouching(host, g)
    BY <1>12 DEF SameSums, Vouching
  <2> QED
    BY <1>2, <1>3, <1>10, <2>1, FitsMid
<1>14. \A t \in TaskNames : FitsOf(t, g, Cuts')
  BY <1>2, <1>3, <1>10, <1>11, <1>13, FitsElsewhere
<1>15. Whole(g, cut)
  <2>1. CutsBut(u, cut, cut)
    BY DEF CutsBut
  <2>2. /\ u = "NetbirdUnpack" => g.netbird # Partial
        /\ u = "CreateServiceFile" => g.unit # Partial
    BY <1>2, <1>3, <1>4, DoneWhole
  <2> QED
    BY <1>2, <1>3, <1>11, <2>1, <2>2, WholeElsewhere
<1>16. HostInv'
  BY <1>4, <1>11, <1>14, <1>15, FitsByTask DEF HostInv, Touches, g
<1>17. TaskBegun(u, n + 1, s, g, Cuts')
  BY <1>2, <1>3, <1>4, <1>10, BegunNext DEF u, n
<1>18. ASSUME NEW t \in TasksOf(s), Rank(s.mode, t) < Rank(s.mode, u)
       PROVE  Post(t, s, g, cut)
  <2>1. t \in TaskNames
    <3>1. \A i \in 1 .. Len(Tasks(s)) : Tasks(s)[i] \in TaskNames
      BY <1>3, TasksBefore
    <3> QED
      BY <3>1 DEF TasksOf, Entries
  <2>2. CutsBut(u, cut, cut)
    BY DEF CutsBut
  <2> QED
    BY <1>2, <1>3, <1>11, <1>18, <2>1, <2>2, PostElsewhere
<1>19. TasksInv'
  BY <1>4, <1>6, <1>7, <1>17, <1>18 DEF TasksInv, g
<1>20. LastInv'
  BY <1>2, <1>4 DEF LastInv
<1>21. RunInv'
  <2>1. docker' \in BOOLEAN /\ interruptions' \in 0 .. MaxInterruptions
    BY <1>1, <1>4 DEF RunInv
  <2>2. run'.task \in 1 .. Len((Tasks(run.setup))') /\ run'.step \in 1 .. Len(StepsOf(Task'))
    BY <1>3, <1>6, <1>7, <1>8
  <2>3. s.mode = "managed" => files'.conf.peer = s.peer
    BY <1>1, <1>2, ExecutePeer
  <2> QED
    BY <1>2, <1>3, <1>4, <1>6, <2>1, <2>2, <2>3 DEF RunInv, Configuring
<1> QED
  BY <1>16, <1>19, <1>20, <1>21

\* The last step of a task.
LEMMA ExecuteEnd ==
    ASSUME SetupInv, Execute, run.step = Len(StepsOf(Task))
    PROVE  RunInv' /\ HostInv' /\ TasksInv' /\ LastInv'
<1> DEFINE s == run.setup
           u == Task
           n == run.step
           g == host'
<1>1. Due /\ FilesInv /\ RunInv /\ HostInv /\ TasksInv /\ LastInv
  BY DEF Execute, SetupInv
<1>2. /\ run.at = "tasks" /\ ~ s.dry /\ last = NoSetup
      /\ HostOK(host) /\ Whole(host, cut) /\ \A t \in TaskNames : FitsOf(t, host, Cuts)
      /\ TaskBegun(u, n, s, host, Cuts)
      /\ \A t \in TasksOf(s) : Rank(s.mode, t) < Rank(s.mode, u) => Post(t, s, host, cut)
      /\ s.mode = "managed" => files.conf.peer = s.peer
      /\ cut \in [TaskNames -> SUBSET Setups]
  BY <1>1, DueFacts
<1>3. /\ run # NotRunning /\ s \in Setups /\ run.task \in 1 .. Len(Tasks(s)) /\ u \in TaskNames
      /\ u \in TasksOf(s)
      /\ n \in 1 .. Len(StepsOf(u)) /\ Len(StepsOf(u)) \in 1 .. 5
  BY <1>1, <1>2, TaskFacts
<1>4. /\ g = Done(StepsOf(u)[n], s, host)
      /\ cut' = [cut EXCEPT ![u] = {}]
      /\ NextTask \/ (run' = NotRunning /\ last' = last)
      /\ UNCHANGED <<docker, interruptions>>
  <2>1. ~ (run.step < Len(StepsOf(Task)))
    BY <1>3
  <2> QED
    BY <2>1 DEF Execute
<1>5. files'.conf.peer = files.conf.peer
  BY <1>1, ExecutePeer
<1>6. cut' \in [TaskNames -> SUBSET Setups]
  BY <1>2, <1>4
<1>7. /\ \A t \in TaskNames : t # u => cut'[t] = cut[t]
      /\ CutsBut(u, Cuts, cut') /\ CutsBut(u, cut, cut')
  BY <1>2, <1>4, CutsOfTask DEF CutsBut
<1> HIDE DEF s, u, n, g
<1>8. Touches(u, host, g)
  BY <1>2, <1>3, <1>4, DoneTouches
<1>9. ASSUME NEW t \in TasksOf(s) PROVE t \in TaskNames
  <2>1. \A i \in 1 .. Len(Tasks(s)) : Tasks(s)[i] \in TaskNames
    BY <1>3, TasksBefore
  <2> QED
    BY <2>1 DEF TasksOf, Entries
<1>10. ASSUME u = "RestartService"
       PROVE  /\ host.exe = s.version /\ files.conf.peer = s.peer
              /\ host.unitLoaded = s.user \/ Other(cut', "CreateServiceFile", "user", s.user)
  <2>1. /\ s.mode = "managed"
        /\ "CopyExecutable" \in TasksOf(s) /\ "CreateServiceFile" \in TasksOf(s)
    BY <1>3, <1>10, TasksTogether
  <2>2. /\ Post("CopyExecutable", s, host, cut) /\ Post("CreateServiceFile", s, host, cut)
    BY <1>2, <1>10, <2>1, ServiceLast
  <2>3. cut'["CreateServiceFile"] = cut["CreateServiceFile"]
    BY <1>7, <1>10 DEF TaskNames
  <2>4. host.exe = s.version
    BY <2>2 DEF Post
  <2>5. host.unitLoaded = s.user \/ Other(cut, "CreateServiceFile", "user", s.user)
    BY <2>2 DEF Post
  <2> QED
    BY <1>2, <2>1, <2>3, <2>4, <2>5 DEF Other
<1>11. Post(u, s, g, cut') /\ FitsOf(u, g, cut')
  <2>1. n = Len(StepsOf(u))
    BY DEF n, u
  <2> QED
    BY <1>2, <1>3, <1>4, <1>10, <2>1, PostEnd
<1>12. \A t \in TaskNames : FitsOf(t, g, cut')
  BY <1>2, <1>3, <1>7, <1>8, <1>11, FitsElsewhere
<1>13. Whole(g, cut')
  <2>1. /\ u = "NetbirdUnpack" => g.netbird # Partial
        /\ u = "CreateServiceFile" => g.unit # Partial
    BY <1>2, <1>3, <1>4, DoneWhole
  <2> QED
    BY <1>2, <1>3, <1>7, <1>8, <2>1, WholeElsewhere
<1>14. Rested(g, cut')
  BY <1>8, <1>12, <1>13, FitsByTask DEF Rested, Touches
<1>15. ASSUME NEW t \in TasksOf(s), t = u \/ Rank(s.mode, t) < Rank(s.mode, u)
       PROVE  Post(t, s, g, cut')
  <2>1. CASE t = u
    BY <1>11, <2>1
  <2>2. CASE Rank(s.mode, t) < Rank(s.mode, u)
    BY <1>2, <1>3, <1>7, <1>8, <1>9, <2>2, PostElsewhere
  <2> QED
    BY <1>15, <2>1, <2>2
<1>16. CASE NextTask
  <2>1. /\ \A t \in TasksOf(run.setup) :
               t = Task \/ Rank(run.setup.mode, t) < Rank(run.setup.mode, Task) =>
                   Post(t, run.setup, host', cut')
        /\ ~ run.setup.dry /\ run.at = "tasks" /\ Rested(host', cut')
    BY <1>2, <1>14, <1>15 DEF s, u, g
  <2> QED
    BY <1>1, <1>4, <1>5, <1>6, <1>16, <2>1, NextTaskInv
<1>17. CASE run' = NotRunning /\ last' = last
  <2>1. LastInv'
    BY <1>2, <1>17 DEF LastInv
  <2>2. interruptions' \in 0 .. MaxInterruptions /\ Rested(host', cut')
    BY <1>1, <1>4, <1>14 DEF RunInv, g
  <2> QED
    BY <1>1, <1>4, <1>6, <1>17, <2>1, <2>2, EndedRun
<1> QED
  BY <1>4, <1>16, <1>17

\* Execute keeps the invariant: in the middle of a task and at its end.
LEMMA ExecuteInv ==
    ASSUME SetupInv, Execute PROVE RunInv' /\ HostInv' /\ TasksInv' /\ LastInv'
<1>1. FilesInv /\ RunInv /\ run.at = "tasks"
  BY DEF SetupInv, Execute, Due
<1>2. run.step \in 1 .. Len(StepsOf(Task)) /\ Len(StepsOf(Task)) \in 1 .. 5
  BY <1>1, TaskFacts
<1>3. run.step < Len(StepsOf(Task)) \/ run.step = Len(StepsOf(Task))
  BY <1>2
<1> QED
  BY <1>3, ExecuteMid, ExecuteEnd

\* Skip keeps it: a task that is fulfilled has been done, see SkipPost.
LEMMA SkipInv ==
    ASSUME SetupInv, Skip PROVE RunInv' /\ HostInv' /\ TasksInv' /\ LastInv'
<1> DEFINE s == run.setup
<1>1. FilesInv /\ RunInv /\ HostInv /\ TasksInv /\ LastInv
  BY DEF SetupInv
<1>2. /\ run.at = "tasks" /\ run.step = 1 /\ NextTask
      /\ Fulfilled(Task, s, host) \/ s.dry
      /\ UNCHANGED <<docker, files, host, interruptions, cut>>
  BY DEF Skip
<1>3. s \in Setups /\ Task \in TaskNames
  BY <1>1, <1>2, TaskFacts
<1>4. HostOK(host) /\ Fits(host, cut) /\ Whole(host, cut) /\ cut \in [TaskNames -> SUBSET Setups]
  BY <1>1, <1>2, CutsOfTask, FitsSame DEF HostInv, RunInv
<1>5. Rested(host', cut') /\ cut' \in [TaskNames -> SUBSET Setups]
  BY <1>2, <1>4 DEF Rested
<1>6. ASSUME ~ s.dry, NEW t \in TasksOf(s), t = Task \/ Rank(s.mode, t) < Rank(s.mode, Task)
      PROVE  Post(t, s, host, cut)
  <2>1. CASE t = Task
    BY <1>2, <1>3, <1>4, <1>6, <2>1, SkipPost, FitsByTask
  <2>2. CASE Rank(s.mode, t) < Rank(s.mode, Task)
    BY <1>1, <1>2, <1>6, <2>2 DEF TasksInv
  <2> QED
    BY <1>6, <2>1, <2>2
<1>7. /\ ~ run.setup.dry =>
             \A t \in TasksOf(run.setup) :
                 t = Task \/ Rank(run.setup.mode, t) < Rank(run.setup.mode, Task) =>
                     Post(t, run.setup, host', cut')
      /\ files'.conf.peer = files.conf.peer /\ UNCHANGED <<docker, interruptions>>
      /\ UNCHANGED <<files, host, cut>>
  BY <1>2, <1>6
<1> QED
  BY <1>1, <1>2, <1>5, <1>7, NextTaskInv

\* Giving up inside Docker keeps it: it leaves everything as it was.
LEMMA BailInv ==
    ASSUME SetupInv, BailInDocker PROVE RunInv' /\ HostInv' /\ TasksInv' /\ LastInv'
<1>1. FilesInv /\ RunInv /\ HostInv /\ TasksInv /\ LastInv
  BY DEF SetupInv
<1>2. /\ Due /\ Task = "LoadKernelModules" /\ run' = NotRunning
      /\ UNCHANGED <<docker, files, host, interruptions, last, cut>>
  BY DEF BailInDocker
<1>3. run.at = "tasks" /\ last = NoSetup
  BY <1>2, DueFacts
<1>4. run.step \in 1 .. Len(StepsOf("LoadKernelModules"))
  <2>1. run.step \in 1 .. Len(StepsOf(Task))
    BY <1>1, <1>3, TaskFacts
  <2> QED
    BY <1>2, <2>1
<1>5. Len(StepsOf("LoadKernelModules")) = 1
  BY Steps
<1>6. run.step = 1
  <2>1. \A k \in 1 .. 1 : k = 1
    OBVIOUS
  <2> QED
    BY <1>4, <1>5, <2>1
<1>7. Rested(host, cut) /\ cut \in [TaskNames -> SUBSET Setups] /\ interruptions \in 0 .. MaxInterruptions
  BY <1>1, <1>6, CutsOfTask, FitsSame DEF HostInv, RunInv, Rested
<1>8. LastInv'
  BY <1>2, <1>3 DEF LastInv
<1>9. /\ docker' = docker /\ interruptions' \in 0 .. MaxInterruptions /\ cut' \in [TaskNames -> SUBSET Setups]
      /\ Rested(host', cut')
  BY <1>2, <1>7
<1> QED
  BY <1>1, <1>2, <1>8, <1>9, EndedRun

----------------------------------------------------------------------------
(* Before the tasks, and what cuts them short.                              *)

\* A step towards the configuration file.
LEMMA ConfigStep ==
    ASSUME SetupInv, run.at \in Configuring, UNCHANGED <<docker, host, interruptions, last, cut>>,
           \/ run' = NotRunning
           \/ /\ run'.at \in {"tasks"} \cup Configuring /\ run'.setup = run.setup
              /\ run'.task = run.task /\ run'.step = run.step
              /\ run'.at = "tasks" => files'.conf.peer = run.setup.peer
    PROVE  RunInv' /\ HostInv' /\ TasksInv' /\ LastInv'
<1>1. FilesInv /\ RunInv /\ HostInv
  BY DEF SetupInv
<1>2. /\ run # NotRunning /\ run.at # "tasks" /\ ~ run.setup.dry
  BY <1>1, IdleFacts DEF FilesInv, Configuring
<1>3. /\ last = NoSetup /\ run.setup \in Setups /\ run.task = 1 /\ run.step = 1
      /\ run.setup.mode = "managed" /\ docker \in BOOLEAN /\ interruptions \in 0 .. MaxInterruptions
      /\ cut \in [TaskNames -> SUBSET Setups]
  BY <1>1, <1>2 DEF RunInv
<1>4. Rested(host, cut)
  BY <1>1, <1>2, CutsOfTask, FitsSame DEF HostInv, Rested
<1>5. LastInv'
  BY <1>3 DEF LastInv
<1>6. /\ docker' = docker /\ interruptions' \in 0 .. MaxInterruptions /\ cut' \in [TaskNames -> SUBSET Setups]
      /\ Rested(host', cut')
  BY <1>3, <1>4
<1>7. CASE run' = NotRunning
  BY <1>1, <1>5, <1>6, <1>7, EndedRun
<1>8. CASE /\ run'.at \in {"tasks"} \cup Configuring /\ run'.setup = run.setup
           /\ run'.task = run.task /\ run'.step = run.step
           /\ run'.at = "tasks" => files'.conf.peer = run.setup.peer
  <2>1. run'.step = 1 /\ run'.task = 1
    BY <1>3, <1>8
  <2>2. HostInv'
    BY <1>6, <2>1, RestedNext
  <2>3. /\ 1 \in 1 .. Len(Tasks(run.setup)) /\ Tasks(run.setup)[1] \in TaskNames
    <3>1. Len(Tasks(run.setup)) \in Nat /\ Len(Tasks(run.setup)) > 0
      BY <1>3, TasksInOrder
    <3>2. 1 \in 1 .. Len(Tasks(run.setup))
      BY <3>1
    <3> QED
      BY <1>3, <3>2, TasksBefore
  <2>4. /\ Task' = Tasks(run.setup)[1] /\ (Tasks(run.setup))' = Tasks(run.setup)
        /\ (TasksOf(run.setup))' = TasksOf(run.setup)
    BY <1>6, <1>8, <2>1, NextTasks
  <2>5. 1 \in 1 .. Len(StepsOf(Task'))
    <3>1. \A t \in TaskNames : Len(StepsOf(t)) \in 1 .. 5
      BY ExecutionLen
    <3>2. \A k \in 1 .. 5 : 1 \in 1 .. k
      OBVIOUS
    <3> QED
      BY <2>3, <2>4, <3>1, <3>2
  <2>6. RunInv'
    <3>1. docker' \in BOOLEAN
      BY <1>3, <1>6
    <3>2. run'.setup \in Setups /\ run'.setup.mode = "managed" /\ last' = NoSetup
      BY <1>3, <1>8
    <3>3. run'.task \in 1 .. Len((Tasks(run.setup))') /\ run'.step \in 1 .. Len(StepsOf(Task'))
      BY <2>1, <2>3, <2>4, <2>5
    <3> QED
      BY <1>6, <1>8, <2>1, <3>1, <3>2, <3>3 DEF RunInv, Configuring
  <2>7. TasksInv'
    <3>1. TaskBegun(Task', run'.step, run'.setup, host', Cuts')
      BY <2>1, BegunFirst
    <3>2. \A t \in TasksOf(run.setup) : ~ (Rank(run.setup.mode, t) < Rank(run.setup.mode, Task'))
      BY <1>3, <2>4, NothingBefore
    <3> QED
      BY <1>8, <2>4, <3>1, <3>2 DEF TasksInv
  <2> QED
    BY <1>5, <2>2, <2>6, <2>7
<1> QED
  BY <1>7, <1>8

\* Looking at the configuration file keeps it.
LEMMA ConfigureInv ==
    ASSUME SetupInv, Configure PROVE RunInv' /\ HostInv' /\ TasksInv' /\ LastInv'
<1>1. DOMAIN run = {"at", "setup", "target", "task", "step"}
  BY DEF SetupInv, FilesInv
<1>2. /\ run.at = "configure" /\ UNCHANGED <<docker, files, host, interruptions, last, cut>>
      /\ \/ files.conf.peer = run.setup.peer /\ run' = [run EXCEPT !.at = "tasks"]
         \/ \E t : run' = [run EXCEPT !.at = "create", !.target = t]
  BY DEF Configure
<1>3. CASE files.conf.peer = run.setup.peer /\ run' = [run EXCEPT !.at = "tasks"]
  <2>1. /\ run'.at = "tasks" /\ run'.setup = run.setup /\ run'.task = run.task /\ run'.step = run.step
        /\ files'.conf.peer = run.setup.peer
    BY <1>1, <1>2, <1>3
  <2> QED
    BY <1>2, <2>1, ConfigStep DEF Configuring
<1>4. ASSUME NEW t, run' = [run EXCEPT !.at = "create", !.target = t]
      PROVE  RunInv' /\ HostInv' /\ TasksInv' /\ LastInv'
  <2>1. /\ run'.at = "create" /\ run'.setup = run.setup /\ run'.task = run.task
        /\ run'.step = run.step
    BY <1>1, <1>4
  <2> QED
    BY <1>2, <2>1, ConfigStep DEF Configuring
<1> QED
  BY <1>2, <1>3, <1>4

\* Creating and restricting the file keeps it.
LEMMA CreateInv ==
    ASSUME SetupInv, Create \/ SetPermissions PROVE RunInv' /\ HostInv' /\ TasksInv' /\ LastInv'
<1>1. DOMAIN run = {"at", "setup", "target", "task", "step"}
  BY DEF SetupInv, FilesInv
<1>2. /\ run.at \in {"create", "restrict"} /\ UNCHANGED <<docker, host, interruptions, last, cut>>
      /\ \E a \in {"restrict", "write"} : run' = [run EXCEPT !.at = a]
  BY DEF Create, SetPermissions
<1>3. /\ run'.at \in {"restrict", "write"} /\ run'.setup = run.setup /\ run'.task = run.task
      /\ run'.step = run.step
  BY <1>1, <1>2
<1> QED
  BY <1>2, <1>3, ConfigStep DEF Configuring

\* Writing it keeps it: from here on the peer is the one asked for.
LEMMA WriteInv ==
    ASSUME SetupInv, Write PROVE RunInv' /\ HostInv' /\ TasksInv' /\ LastInv'
<1> DEFINE own == files.conf.text = "toml" /\ files.conf.own
           g == [files[run.target] EXCEPT !.text = "toml", !.peer = run.setup.peer, !.own = own]
<1>1. /\ DOMAIN run = {"at", "setup", "target", "task", "step"} /\ run.target \in FileNames
      /\ DOMAIN files = FileNames /\ \A f \in FileNames : DOMAIN files[f] = FileFields
  BY DEF SetupInv, FilesInv
<1>2. /\ run.at = "write" /\ UNCHANGED <<docker, host, interruptions, last, cut>>
      /\ files' = [files EXCEPT ![run.target] = g]
      /\ run' = IF run.target = "conf" THEN [run EXCEPT !.at = "tasks"] ELSE NotRunning
  BY DEF Write
<1> HIDE DEF own
<1>3. DOMAIN g = FileFields /\ g.peer = run.setup.peer
  BY <1>1 DEF FileFields
<1> HIDE DEF g
<1>4. files'[run.target] = g
  BY <1>1, <1>2
<1>5. CASE run.target = "conf"
  <2>1. /\ run'.at = "tasks" /\ run'.setup = run.setup /\ run'.task = run.task /\ run'.step = run.step
        /\ files'.conf.peer = run.setup.peer
    BY <1>1, <1>2, <1>3, <1>4, <1>5
  <2> QED
    BY <1>2, <2>1, ConfigStep DEF Configuring
<1>6. CASE run.target # "conf"
  <2>1. run' = NotRunning
    BY <1>2, <1>6
  <2> QED
    BY <1>2, <2>1, ConfigStep DEF Configuring
<1> QED
  BY <1>5, <1>6

\* Starting a setup keeps it: nothing is installed as required any longer.
LEMMA StartInv ==
    ASSUME SetupInv, NEW s \in Setups, StartSetup(s)
    PROVE  RunInv' /\ HostInv' /\ TasksInv' /\ LastInv'
<1> DEFINE a == IF s.mode = "managed" /\ ~s.dry THEN "configure" ELSE "tasks"
           r == NotRunning
<1>1. FilesInv /\ RunInv /\ HostInv /\ LastInv
  BY DEF SetupInv
<1>2. /\ run = r /\ run' = [r EXCEPT !.at = a, !.setup = s]
      /\ last' = IF s.dry THEN last ELSE NoSetup
      /\ UNCHANGED <<docker, files, host, interruptions, cut>>
  BY DEF StartSetup
<1>3. /\ DOMAIN r = {"at", "setup", "target", "task", "step"} /\ r.at = "idle"
      /\ r.task = 1 /\ r.step = 1
  BY IdleFacts
<1>4. /\ a \in {"configure", "tasks"} /\ s.dry \in BOOLEAN
      /\ a = "configure" => s.mode = "managed"
      /\ a = "tasks" /\ ~ s.dry => s.mode # "managed"
  BY SetupFacts
<1> HIDE DEF a, r
<1>5. run'.at = a /\ run'.setup = s /\ run'.task = 1 /\ run'.step = 1
  BY <1>2, <1>3
<1>6. /\ cut \in [TaskNames -> SUBSET Setups] /\ docker \in BOOLEAN /\ interruptions \in 0 .. MaxInterruptions
      /\ Rested(host, cut)
  BY <1>1, <1>2, <1>3, CutsOfTask, FitsSame DEF HostInv, Rested, RunInv
<1>7. Rested(host', cut')
  BY <1>2, <1>6
<1>8. HostInv'
  BY <1>5, <1>7, RestedNext
<1>9. 1 \in 1 .. Len(Tasks(s)) /\ Tasks(s)[1] \in TaskNames
  <2>1. Len(Tasks(s)) \in Nat /\ Len(Tasks(s)) > 0
    BY TasksInOrder
  <2>2. 1 \in 1 .. Len(Tasks(s))
    BY <2>1
  <2> QED
    BY <2>2, TasksBefore
<1>10. /\ Task' = Tasks(s)[1] /\ (Tasks(run.setup))' = Tasks(s)
       /\ (TasksOf(run.setup))' = TasksOf(s)
  BY <1>2, <1>5, NextTasks
<1>11. 1 \in 1 .. Len(StepsOf(Task'))
  <2>1. \A t \in TaskNames : Len(StepsOf(t)) \in 1 .. 5
    BY ExecutionLen
  <2>2. \A k \in 1 .. 5 : 1 \in 1 .. k
    OBVIOUS
  <2> QED
    BY <1>9, <1>10, <2>1, <2>2
<1>12. RunInv'
  <2>1. docker' \in BOOLEAN /\ interruptions' \in 0 .. MaxInterruptions /\ cut' \in [TaskNames -> SUBSET Setups]
    BY <1>2, <1>6
  <2>2. ~ s.dry => last' = NoSetup
    BY <1>2
  <2>3. run'.task \in 1 .. Len((Tasks(run.setup))') /\ run'.step \in 1 .. Len(StepsOf(Task'))
    BY <1>5, <1>9, <1>10, <1>11
  <2>4. run'.setup \in Setups
    BY <1>5
  <2> QED
    BY <1>4, <1>5, <2>1, <2>2, <2>3, <2>4 DEF RunInv, Configuring
<1>13. TasksInv'
  <2>1. TaskBegun(Task', run'.step, run'.setup, host', Cuts')
    BY <1>5, BegunFirst
  <2>2. \A t \in TasksOf(s) : ~ (Rank(s.mode, t) < Rank(s.mode, Task'))
    BY <1>10, NothingBefore
  <2> QED
    BY <1>5, <1>10, <2>1, <2>2 DEF TasksInv
<1>14. LastInv'
  <2>1. CASE s.dry
    BY <1>1, <1>2, <2>1, NextTasks DEF LastInv
  <2>2. CASE ~ s.dry
    BY <1>2, <2>2 DEF LastInv
  <2> QED
    BY <1>4, <2>1, <2>2
<1> QED
  BY <1>8, <1>12, <1>13, <1>14

\* Cut in a task that is due.
LEMMA FaultDue ==
    ASSUME SetupInv, Interrupt, Due PROVE RunInv' /\ HostInv' /\ TasksInv' /\ LastInv'
<1> DEFINE s == run.setup
           u == Task
           n == run.step
           g == host'
<1>1. FilesInv /\ RunInv
  BY DEF SetupInv
<1>2. /\ run.at = "tasks" /\ last = NoSetup
      /\ HostOK(host) /\ Whole(host, cut) /\ \A t \in TaskNames : FitsOf(t, host, Cuts)
      /\ Undone(u, s, host, Cuts) /\ cut \in [TaskNames -> SUBSET Setups]
  BY DueFacts
<1>3. s \in Setups /\ u \in TaskNames /\ n \in 1 .. Len(StepsOf(u))
  BY <1>1, <1>2, TaskFacts
<1>4. /\ run' = NotRunning /\ UNCHANGED <<docker, last>> /\ interruptions' = interruptions + 1 /\ interruptions < MaxInterruptions
      /\ cut' = [cut EXCEPT ![u] = @ \cup {s}]
      /\ \/ g = host
         \/ StepsOf(u)[n] \in Written /\ g = Torn(StepsOf(u)[n], host)
  BY DEF Interrupt, LeftHost, LeftCut
<1>5. cut' \in [TaskNames -> SUBSET Setups] /\ cut'[u] = cut[u] \cup {s}
  BY <1>2, <1>3, <1>4
<1>6. /\ \A t \in TaskNames : t # u => cut'[t] = cut[t]
      /\ CutsBut(u, Cuts, cut') /\ CutsBut(u, cut, cut')
      /\ Cuts[u] \subseteq cut'[u] /\ s \in cut'[u] /\ cut'[u] # {}
  BY <1>2, <1>3, <1>4, <1>5, CutsOfTask DEF CutsBut
<1>7. interruptions' \in 0 .. MaxInterruptions
  BY <1>1, <1>4, SetupAssumption DEF RunInv
<1> HIDE DEF s, u, n, g
<1>8. Touches(u, host, g) /\ Vouching(host, g)
  <2>1. CASE g = host
    BY <1>2, <2>1 DEF Touches, Vouching
  <2>2. CASE StepsOf(u)[n] \in Written /\ g = Torn(StepsOf(u)[n], host)
    BY <1>2, <1>3, <2>2, TornTouches, TornVouching
  <2> QED
    BY <1>4, <2>1, <2>2
<1>9. FitsOf(u, g, cut')
  BY <1>2, <1>3, <1>6, <1>8, FitsMid
<1>10. \A t \in TaskNames : FitsOf(t, g, cut')
  BY <1>2, <1>3, <1>6, <1>8, <1>9, FitsElsewhere
<1>11. Whole(g, cut')
  BY <1>2, <1>3, <1>6, <1>8, WholeElsewhere
<1>12. Rested(host', cut')
  BY <1>8, <1>10, <1>11, FitsByTask DEF Rested, Touches, g
<1>13. LastInv'
  BY <1>2, <1>4 DEF LastInv
<1> QED
  BY <1>1, <1>4, <1>5, <1>7, <1>12, <1>13, EndedRun

\* A fault keeps it: the task under way joins those that were cut.
LEMMA FaultInv ==
    ASSUME SetupInv, Interrupt PROVE RunInv' /\ HostInv' /\ TasksInv' /\ LastInv'
<1>1. FilesInv /\ RunInv /\ HostInv /\ LastInv
  BY DEF SetupInv
<1>2. CASE ~ Due
  <2>1. /\ run # NotRunning /\ run' = NotRunning /\ UNCHANGED <<docker, host, last, cut>>
        /\ interruptions' = interruptions + 1 /\ interruptions < MaxInterruptions /\ files' \in LeftFiles
    BY <1>2 DEF Interrupt, LeftHost, LeftCut
  <2>2. interruptions' \in 0 .. MaxInterruptions /\ cut \in [TaskNames -> SUBSET Setups]
    BY <1>1, <2>1, SetupAssumption DEF RunInv
  <2>3. run.at # "tasks" \/ run.step = 1
    BY <1>2 DEF Due
  <2>4. Rested(host, cut)
    BY <1>1, <2>3, CutsOfTask, FitsSame DEF HostInv, Rested
  <2>5. LastInv'
    <3>1. CASE run.setup.dry
      <4>1. run.at = "tasks"
        BY <1>1, <2>1, <3>1 DEF FilesInv
      <4>2. files' = files
        BY <2>1, <4>1 DEF LeftFiles
      <4> QED
        BY <1>1, <2>1, <4>2, NextTasks DEF LastInv
    <3>2. CASE ~ run.setup.dry
      <4>1. last' = NoSetup
        BY <1>1, <2>1, <3>2 DEF RunInv
      <4> QED
        BY <4>1 DEF LastInv
    <3> QED
      BY <3>1, <3>2
  <2>6. docker' = docker /\ cut' \in [TaskNames -> SUBSET Setups] /\ Rested(host', cut')
    BY <2>1, <2>2, <2>4
  <2> QED
    BY <1>1, <2>1, <2>2, <2>5, <2>6, EndedRun
<1> QED
  BY <1>2, FaultDue

\* What booting sets anew.
Rebooted == {"unitLoaded", "service", "loaded", "bridge", "bridgeUp", "gre", "joined"}

\* What booting leaves, sets anew and starts.
LEMMA BootedFacts ==
    ASSUME NEW h, HostOK(h)
    PROVE  /\ HostOK(Booted(h)) /\ Booted(h).unitLoaded = h.unit /\ Booted(h).bridge = FALSE
           /\ \A f \in HostFields : f \notin Rebooted => Booted(h)[f] = h[f]
           /\ docker => Booted(h).loaded = h.loaded
           /\ ~ docker /\ h.vcanRule = "rule" /\ h.canGwRule = "rule" => Booted(h).loaded = TRUE
           /\ /\ h.enabled = TRUE /\ h.exe \notin {Absent, Partial} /\ h.unit \notin {Absent, Partial}
              /\ files.conf.peer # Absent
              => Booted(h).service = [version |-> h.exe, user |-> h.unit, peer |-> files.conf.peer]
<1> DEFINE l == [h EXCEPT !.unitLoaded = h.unit]
           bootable == /\ h.enabled /\ h.exe \notin {Absent, Partial} /\ h.unit \notin {Absent, Partial}
                       /\ files.conf.peer # Absent
           sv == IF bootable THEN Service(l) ELSE Absent
           ld == IF docker THEN l.loaded ELSE h.vcanRule = "rule" /\ h.canGwRule = "rule"
           g == [l EXCEPT !.service = sv, !.loaded = ld,
                          !.bridge = FALSE, !.bridgeUp = FALSE, !.gre = FALSE, !.joined = FALSE]
<1>1. Booted(h) = g
  BY DEF Booted
<1>2. DOMAIN h = HostFields /\ \A f \in Flags : h[f] \in BOOLEAN
  BY DEF HostOK
<1>3. Sets(l, h, "unitLoaded", h.unit)
  BY <1>2 DEF Sets, HostFields
<1>4. DOMAIN l = HostFields /\ l.exe = h.exe /\ l.unitLoaded = h.unit /\ l.loaded = h.loaded
  BY <1>3 DEF Sets, HostFields
<1>5. ld \in BOOLEAN
  BY <1>2, <1>4 DEF Flags
<1>6. /\ docker => ld = h.loaded
      /\ ~ docker /\ h.vcanRule = "rule" /\ h.canGwRule = "rule" => ld = TRUE
  BY <1>4
<1>7. bootable => sv = [version |-> h.exe, user |-> h.unit, peer |-> files.conf.peer]
  BY <1>4 DEF Service
<1> HIDE DEF l, sv, ld
<1>8. /\ DOMAIN g = HostFields /\ g.service = sv /\ g.loaded = ld
      /\ g.bridge = FALSE /\ g.bridgeUp = FALSE /\ g.gre = FALSE /\ g.joined = FALSE
  BY <1>4 DEF HostFields
<1>9. \A f \in HostFields : f \notin Rebooted \ {"unitLoaded"} => g[f] = l[f]
  BY <1>4 DEF Rebooted
<1>10. g.unitLoaded = h.unit
  BY <1>4, <1>9 DEF Rebooted, HostFields
<1>11. \A f \in HostFields : f \notin Rebooted => g[f] = h[f]
  BY <1>3, <1>9 DEF Sets, Rebooted
<1> HIDE DEF g
<1>12. \A f \in Flags : g[f] \in BOOLEAN
  <2>1. \A f \in Flags : f \in HostFields
    BY DEF Flags, HostFields
  <2>2. \A f \in Flags : f \in Rebooted => f \in {"loaded", "bridge", "bridgeUp", "gre", "joined"}
    BY DEF Flags, Rebooted
  <2> QED
    BY <1>2, <1>5, <1>8, <1>11, <2>1, <2>2
<1> QED
  BY <1>1, <1>6, <1>7, <1>8, <1>10, <1>11, <1>12 DEF HostOK

\* A reboot keeps it: Left is what survives of each task.
LEMMA RebootInv ==
    ASSUME SetupInv, Reboot PROVE RunInv' /\ HostInv' /\ TasksInv' /\ LastInv'
<1> DEFINE h == host
           g == host'
<1>1. FilesInv /\ RunInv /\ HostInv /\ LastInv
  BY DEF SetupInv
<1>2. /\ run = NotRunning /\ run' = NotRunning /\ g = Booted(h)
      /\ interruptions' = interruptions + 1 /\ interruptions < MaxInterruptions
      /\ last' = IF last # NoSetup /\ last.mode = "unmanaged" THEN NoSetup ELSE last
      /\ UNCHANGED <<docker, files, cut>>
  BY DEF Reboot
<1>3. interruptions' \in 0 .. MaxInterruptions /\ cut \in [TaskNames -> SUBSET Setups]
  BY <1>1, <1>2, SetupAssumption DEF RunInv
<1>4. Rested(h, cut)
  <2>1. run.at # "tasks"
    BY <1>2, IdleFacts
  <2> QED
    BY <1>1, <2>1, CutsOfTask, FitsSame DEF HostInv, Rested
<1> HIDE DEF g, h
<1>5. HostOK(h) /\ Fits(h, cut) /\ Whole(h, cut)
  BY <1>4 DEF Rested
<1>6. /\ HostOK(g) /\ g.unitLoaded = h.unit /\ g.bridge = FALSE
      /\ \A f \in HostFields : f \notin Rebooted => g[f] = h[f]
      /\ docker => g.loaded = h.loaded
      /\ ~ docker /\ h.vcanRule = "rule" /\ h.canGwRule = "rule" => g.loaded = TRUE
      /\ /\ h.enabled = TRUE /\ h.exe \notin {Absent, Partial} /\ h.unit \notin {Absent, Partial}
         /\ files.conf.peer # Absent
         => g.service = [version |-> h.exe, user |-> h.unit, peer |-> files.conf.peer]
  BY <1>2, <1>5, BootedFacts
<1>7. /\ g.caCarl = h.caCarl /\ g.caCarlSum = h.caCarlSum /\ g.caOs = h.caOs /\ g.caOsSum = h.caOsSum
      /\ g.trust = h.trust
      /\ g.exe = h.exe /\ g.link = h.link /\ g.vcanRule = h.vcanRule /\ g.canGwRule = h.canGwRule
      /\ g.netbird = h.netbird /\ g.netbirdSum = h.netbirdSum
  BY <1>6 DEF HostFields, Rebooted
<1>8. /\ g.unit = h.unit /\ g.unitSum = h.unitSum
      /\ g.users = h.users /\ g.owner = h.owner /\ g.cap = h.cap /\ g.enabled = h.enabled
  BY <1>6 DEF HostFields, Rebooted
<1>9. Fits(g, cut)
  <2>1. CertFits(g, cut)
    BY <1>5, <1>7 DEF Fits, CertFits
  <2>2. ExeFits(g, cut) /\ RuleFits(g, cut) /\ NetbirdFits(g, cut)
    BY <1>5, <1>7 DEF Fits, ExeFits, RuleFits, NetbirdFits
  <2>3. UnitFits(g, cut)
    BY <1>5, <1>6, <1>8 DEF Fits, UnitFits
  <2>4. BridgeFits(g, cut)
    BY <1>6 DEF BridgeFits
  <2> QED
    BY <2>1, <2>2, <2>3, <2>4 DEF Fits
<1>10. Whole(g, cut)
  BY <1>5, <1>7, <1>8 DEF Whole
<1>11. Rested(host', cut')
  BY <1>2, <1>6, <1>9, <1>10 DEF Rested, g
<1>12. LastInv'
  <2>1. CASE last' = NoSetup
    BY <2>1 DEF LastInv
  <2>2. CASE last' # NoSetup
    <3> DEFINE s == last
    <3>1. /\ last' = s /\ s # NoSetup /\ s.mode # "unmanaged"
      BY <1>2, <2>2
    <3>2. /\ s \in Setups /\ \A t \in TasksOf(s) : Left(t, s, h, cut)
          /\ s.mode = "managed" => files.conf.peer = s.peer
      BY <1>1, <3>1 DEF LastInv, h
    <3>3. /\ s.mode = "managed" /\ s.peer # Absent
          /\ s.version \notin {Absent, Partial} /\ s.user \notin {Absent, Partial}
      BY <3>1, <3>2, SetupFacts
    <3>4. (TasksOf(last))' = TasksOf(s)
      BY <1>2, <3>1, NextTasks
    <3> HIDE DEF s
    <3>5. ASSUME NEW t \in TasksOf(s) PROVE Left(t, s, g, cut)
      <4>1. t \notin {"CreateBridge", "CreateGreInterfaces", "ConnectDeviceInterfaces"}
        BY <3>2, <3>3, TasksTogether
      <4>2. CASE t = "LoadKernelModules"
        <5>1. h.loaded = TRUE \/ cut["CreateKernelModuleLoadRule"] # {}
          BY <3>2, <4>2 DEF Left
        <5>2. CASE docker
          BY <1>6, <4>2, <5>1, <5>2 DEF Left
        <5>3. CASE ~ docker
          <6>1. "CreateKernelModuleLoadRule" \in TasksOf(s)
            BY <3>2, <4>2, <5>3, TasksTogether
          <6>2. \/ h.vcanRule = "rule" /\ h.canGwRule = "rule"
                \/ cut["CreateKernelModuleLoadRule"] # {}
            BY <3>2, <6>1 DEF Left, Post
          <6> QED
            BY <1>6, <4>2, <5>3, <6>2 DEF Left
        <5> QED
          BY <5>2, <5>3
      <4>3. CASE t = "CreateServiceFile"
        BY <1>6, <1>8, <3>2, <4>3 DEF Left, Post
      <4>4. CASE t = "RestartService"
        <5>1. "CopyExecutable" \in TasksOf(s) /\ "CreateServiceFile" \in TasksOf(s)
          BY <3>2, <4>4, TasksTogether
        <5>2. h.enabled = TRUE
          BY <3>2, <4>4 DEF Left, Post
        <5>3. h.exe = s.version
          BY <3>2, <5>1 DEF Left, Post
        <5>4. h.unit = s.user \/ Other(cut, "CreateServiceFile", "user", s.user)
          BY <3>2, <5>1 DEF Left, Post
        <5>5. files.conf.peer = s.peer
          BY <3>2, <3>3
        <5>6. h.unit = s.user =>
                  g.service = [version |-> s.version, user |-> s.user, peer |-> s.peer]
          BY <1>6, <3>3, <5>2, <5>3, <5>5
        <5> QED
          BY <1>8, <4>4, <5>2, <5>4, <5>6 DEF Left, Post
      <4>5. CASE t \notin {"LoadKernelModules", "CreateServiceFile", "RestartService"}
        <5>1. Post(t, s, h, cut)
          BY <3>2, <4>5 DEF Left
        <5>2. Post(t, s, g, cut)
          BY <1>7, <1>8, <4>1, <4>5, <5>1 DEF Post
        <5> QED
          BY <4>5, <5>2 DEF Left
      <4> QED
        BY <4>2, <4>3, <4>4, <4>5
    <3>6. s.mode = "managed" => files'.conf.peer = s.peer
      BY <1>2, <3>2
    <3> QED
      BY <1>2, <3>1, <3>2, <3>4, <3>5, <3>6 DEF LastInv, g
  <2> QED
    BY <2>1, <2>2
<1>13. docker' = docker /\ cut' \in [TaskNames -> SUBSET Setups]
  BY <1>2, <1>3
<1> QED
  BY <1>1, <1>2, <1>3, <1>11, <1>12, <1>13, EndedRun

----------------------------------------------------------------------------
(* The configuration file is one of four kinds.                             *)

\* Every step leaves a text of one of these kinds.
LEMMA TextsStep == FilesInv /\ TextsInv /\ [SetupNext]_setupVars => TextsInv'
<1> SUFFICES ASSUME FilesInv, TextsInv, [SetupNext]_setupVars PROVE TextsInv'
  OBVIOUS
<1>1. /\ DOMAIN files = FileNames /\ run.target \in FileNames /\ "conf" \in FileNames
      /\ \A f \in FileNames : DOMAIN files[f] = FileFields /\ files[f].text \in Texts
  BY DEF FilesInv, TextsInv, FileNames
<1>2. ASSUME NEW t \in FileNames, NEW g, files' = [files EXCEPT ![t] = g], g.text \in Texts
      PROVE  TextsInv'
  <2>1. \A f \in FileNames : files'[f] = IF f = t THEN g ELSE files[f]
    BY <1>1, <1>2
  <2> QED
    BY <1>1, <1>2, <2>1 DEF TextsInv
<1>3. CASE files' = files
  BY <1>3 DEF TextsInv
<1>4. CASE Create
  <2> DEFINE x == IF files[run.target].text = "none" THEN "empty" ELSE files[run.target].text
             g == [files[run.target] EXCEPT !.text = x]
  <2>1. files' = [files EXCEPT ![run.target] = g]
    BY <1>4 DEF Create
  <2>2. x \in Texts
    BY <1>1 DEF Texts
  <2> HIDE DEF x
  <2>3. g.text = x
    BY <1>1 DEF FileFields
  <2> HIDE DEF g
  <2> QED
    BY <1>1, <1>2, <2>1, <2>2, <2>3
<1>5. ASSUME NEW t \in FileNames, files' = [files EXCEPT ![t] = [files[t] EXCEPT !.private = TRUE]]
      PROVE  TextsInv'
  <2> DEFINE g == [files[t] EXCEPT !.private = TRUE]
  <2>1. g.text = files[t].text /\ files' = [files EXCEPT ![t] = g]
    BY <1>1, <1>5 DEF FileFields
  <2> HIDE DEF g
  <2> QED
    BY <1>1, <1>2, <2>1
<1>6. CASE Write
  <2> DEFINE own == files.conf.text = "toml" /\ files.conf.own
             g == [files[run.target] EXCEPT !.text = "toml", !.peer = run.setup.peer, !.own = own]
  <2>1. files' = [files EXCEPT ![run.target] = g]
    BY <1>6 DEF Write
  <2> HIDE DEF own
  <2>2. g.text = "toml"
    BY <1>1 DEF FileFields
  <2> HIDE DEF g
  <2> QED
    BY <1>1, <1>2, <2>1, <2>2 DEF Texts
<1>7. CASE Interrupt
  <2>1. files' \in LeftFiles
    BY <1>7 DEF Interrupt
  <2> DEFINE g == [files[run.target] EXCEPT !.text = "partial", !.own = FALSE]
  <2>2. files' = files \/ files' = [files EXCEPT ![run.target] = g]
    BY <2>1 DEF LeftFiles
  <2>3. g.text = "partial"
    BY <1>1 DEF FileFields
  <2> HIDE DEF g
  <2> QED
    BY <1>1, <1>2, <1>3, <2>2, <2>3 DEF Texts
<1>8. CASE Execute
  <2>1. \/ files' = files
        \/ files' = [files EXCEPT !["conf"] = [files["conf"] EXCEPT !.private = TRUE]]
    BY <1>8 DEF Execute
  <2> QED
    BY <1>1, <1>3, <1>5, <2>1
<1>9. CASE SetPermissions
  <2>1. files' = [files EXCEPT ![run.target] = [files[run.target] EXCEPT !.private = TRUE]]
    BY <1>9 DEF SetPermissions
  <2> QED
    BY <1>1, <1>5, <2>1
<1>10. Configure \/ Skip \/ BailInDocker \/ Reboot \/ (\E s \in Setups : StartSetup(s)) => files' = files
  BY DEF Configure, Skip, BailInDocker, Reboot, StartSetup
<1>11. UNCHANGED setupVars => files' = files
  BY DEF setupVars
<1> QED
  BY <1>3, <1>4, <1>6, <1>7, <1>8, <1>9, <1>10, <1>11 DEF SetupNext, RunStep

----------------------------------------------------------------------------
(* The invariant holds.                                                     *)

\* To begin with no setup is under way and none was cut.
LEMMA SetupBegins == SetupInit => SetupInv
<1> SUFFICES ASSUME SetupInit PROVE SetupInv
  OBVIOUS
<1>1. FilesInv
  BY FilesInit
<1>2. /\ run = NotRunning /\ run.at = "idle" /\ interruptions = 0 /\ docker \in BOOLEAN /\ last = NoSetup
      /\ cut = [t \in TaskNames |-> {}]
  BY IdleFacts DEF SetupInit
<1>3. TextsInv
  <2>1. PICK c \in {NoFile, OwnFile} : files = [conf |-> c, suggestion |-> NoFile]
    BY DEF SetupInit
  <2>2. c.text \in {"none", "toml"} /\ NoFile.text = "none"
    BY DEF NoFile, OwnFile
  <2>3. files["conf"] = c /\ files["suggestion"] = NoFile
    BY <2>1
  <2> QED
    BY <2>2, <2>3 DEF TextsInv, Texts, FileNames
<1>4. cut \in [TaskNames -> SUBSET Setups]
  BY <1>2
<1>5. RunInv
  <2>1. interruptions \in 0 .. MaxInterruptions
    BY <1>2, SetupAssumption
  <2> QED
    BY <1>2, <1>4, <2>1 DEF RunInv, Configuring
<1>6. Rested(host, cut)
  <2>1. PICK b \in BOOLEAN : host = [FreshHost EXCEPT !.loaded = b]
    BY DEF SetupInit
  <2>2. /\ DOMAIN FreshHost = HostFields
        /\ FreshHost.caOs = Absent /\ FreshHost.caOsSum = Absent /\ FreshHost.exe = Absent /\ FreshHost.vcanRule = Absent
        /\ FreshHost.canGwRule = Absent /\ FreshHost.netbird = Absent /\ FreshHost.netbirdSum = Absent
        /\ FreshHost.unit = Absent /\ FreshHost.unitSum = Absent
    BY DEF FreshHost, HostFields
  <2>3. /\ FreshHost.bridge = FALSE /\ FreshHost.link = FALSE /\ FreshHost.cap = FALSE
        /\ FreshHost.bridgeUp = FALSE /\ FreshHost.gre = FALSE /\ FreshHost.joined = FALSE
        /\ FreshHost.enabled = FALSE
    BY DEF FreshHost
  <2> DEFINE f == FreshHost
  <2>4. DOMAIN f = HostFields /\ host = [f EXCEPT !.loaded = b]
    BY <2>1, <2>2
  <2> HIDE DEF f
  <2>5. Sets(host, f, "loaded", b)
    BY <2>4 DEF Sets, HostFields
  <2>6. /\ DOMAIN host = HostFields
        /\ host.caOs = Absent /\ host.caOsSum = Absent /\ host.exe = Absent /\ host.vcanRule = Absent /\ host.canGwRule = Absent
        /\ host.netbird = Absent /\ host.netbirdSum = Absent /\ host.unit = Absent /\ host.unitSum = Absent
    BY <2>2, <2>5 DEF Sets, HostFields, f
  <2>7. /\ host.bridge = FALSE /\ host.link = FALSE /\ host.cap = FALSE
        /\ host.bridgeUp = FALSE /\ host.gre = FALSE /\ host.joined = FALSE
        /\ host.enabled = FALSE /\ host.loaded = b
    BY <2>3, <2>5 DEF Sets, HostFields, f
  <2>8. HostOK(host)
    BY <2>6, <2>7 DEF HostOK, Flags
  <2>9. Absent # Partial
    BY SetupAssumption
  <2>10. Fits(host, cut)
    BY <2>6, <2>7 DEF Fits, CertFits, ExeFits, RuleFits, NetbirdFits, UnitFits, BridgeFits
  <2>11. Whole(host, cut)
    BY <2>6, <2>9 DEF Whole
  <2> QED
    BY <2>8, <2>10, <2>11 DEF Rested
<1>7. HostInv
  <2>1. \A t \in TaskNames : Cuts[t] = cut[t]
    BY <1>2, CutsOfTask
  <2> QED
    BY <1>6, <2>1, FitsSame DEF HostInv, Rested
<1>8. TasksInv /\ LastInv
  BY <1>2 DEF TasksInv, LastInv
<1> QED
  BY <1>1, <1>3, <1>5, <1>7, <1>8 DEF SetupInv

\* Every step of a setup and every fault keep it.
LEMMA SetupStep == SetupInv /\ [SetupNext]_setupVars => SetupInv'
<1> SUFFICES ASSUME SetupInv, [SetupNext]_setupVars PROVE SetupInv'
  OBVIOUS
<1>1. FilesInv' /\ TextsInv'
  BY FilesStep, TextsStep DEF SetupInv
<1>2. CASE UNCHANGED setupVars
  <2>1. UNCHANGED <<docker, files, host, run, interruptions, last, cut>>
    BY <1>2 DEF setupVars
  <2>2. RunInv /\ HostInv /\ TasksInv /\ LastInv
    BY DEF SetupInv
  <2>3. /\ (Tasks(run.setup))' = Tasks(run.setup) /\ (TasksOf(run.setup))' = TasksOf(run.setup)
        /\ Task' = Task /\ (TasksOf(last))' = TasksOf(last)
    BY <2>1, NextTasks DEF Task
  <2>4. Cuts' = Cuts
    BY <2>1, <2>3 DEF Cuts
  <2>5. RunInv' /\ HostInv' /\ TasksInv' /\ LastInv'
    BY <2>1, <2>2, <2>3, <2>4 DEF RunInv, HostInv, TasksInv, LastInv
  <2> QED
    BY <1>1, <2>5 DEF SetupInv
<1>3. CASE SetupNext
  <2>1. RunInv' /\ HostInv' /\ TasksInv' /\ LastInv'
    BY <1>3, StartInv, ConfigureInv, CreateInv, WriteInv, SkipInv, ExecuteInv, BailInv, FaultInv,
       RebootInv DEF SetupNext, RunStep
  <2> QED
    BY <1>1, <2>1 DEF SetupInv
<1> QED
  BY <1>2, <1>3

\* A setup whose tasks all succeeded has installed what was asked for, however
\* many setups of whatever contents were cut short before it, and wherever; and a
\* reboot keeps it so. The type invariant is part of it.
THEOREM Installed == SetupSpec => []InstalledAsRequested
<1>1. SetupInv => InstalledAsRequested
  <2> SUFFICES ASSUME SetupInv PROVE InstalledAsRequested
    OBVIOUS
  <2>1. FilesInv /\ TextsInv /\ RunInv /\ HostInv /\ LastInv
    BY DEF SetupInv
  <2>2. SetupTypeOK
    <3>1. \A f \in DOMAIN files : files[f].text \in {"none", "empty", "partial", "toml"}
      BY <2>1 DEF FilesInv, TextsInv, Texts
    <3>2. run = NotRunning \/ (run.setup \in Setups /\ run.task \in 1 .. Len(Tasks(run.setup)))
      BY <2>1 DEF RunInv
    <3>3. Whole(host, cut)
      BY <2>1 DEF HostInv
    <3>4. last \in Setups \cup {NoSetup}
      BY <2>1 DEF LastInv
    <3>5. docker \in BOOLEAN /\ interruptions \in 0 .. MaxInterruptions
      BY <2>1 DEF RunInv
    <3>6. run.at = "tasks" => run.step \in 1 .. Len(StepsOf(Task))
      BY <2>1 DEF RunInv
    <3> QED
      BY <3>1, <3>2, <3>3, <3>4, <3>5, <3>6 DEF SetupTypeOK, Whole
  <2>3. ASSUME last # NoSetup
        PROVE  LET Has(t) == \E i \in 1 .. Len(Tasks(last)) : Tasks(last)[i] = t IN
               /\ Has("WriteCaCertificate") =>
                      \/ /\ host.caCarl = last.cert /\ host.caOs = last.cert
                         /\ host.trust = last.cert \/ JudgedByFiles
                      \/ CutWith("WriteCaCertificate", "cert")
               /\ Has("CopyExecutable") =>
                      host.exe = last.version /\ (host.link \/ cut["CopyExecutable"] # {})
               /\ Has("NetbirdUnpack") =>
                      host.netbird = last.version \/ CutWith("NetbirdUnpack", "version")
               /\ Has("CreateServiceFile") =>
                      host.unit = last.user \/ CutWith("CreateServiceFile", "user")
               /\ Has("RestartService") =>
                      \/ host.service = [version |-> last.version, user |-> last.user, peer |-> last.peer]
                      \/ CutWith("CreateServiceFile", "user")
               /\ Has("RequestLinuxNetworkCapability") =>
                      host.cap /\ last.user \in host.users /\ host.owner = last.user
               /\ Has("LoadKernelModules") =>
                      host.loaded \/ cut["CreateKernelModuleLoadRule"] # {}
               /\ Has("CreateBridge") =>
                      host.joined /\ host.gre /\ (host.bridgeUp \/ cut["CreateBridge"] # {})
    <3> DEFINE Has(t) == \E i \in 1 .. Len(Tasks(last)) : Tasks(last)[i] = t
    <3>1. last \in Setups /\ \A t \in TasksOf(last) : Left(t, last, host, cut)
      BY <2>1, <2>3 DEF LastInv
    <3>2. \A t : Has(t) => t \in TasksOf(last)
      BY DEF TasksOf, Entries
    <3> HIDE DEF Has
    <3>3. ASSUME NEW t, Has(t), t # "LoadKernelModules"
          PROVE  Post(t, last, host, cut)
      BY <3>1, <3>2, <3>3 DEF Left
    <3>4. \A t \in TasksOf(last) : t # "LoadKernelModules" => Post(t, last, host, cut)
      BY <3>1 DEF Left
    <3>5. \A t, field : Other(cut, t, field, last[field]) => CutWith(t, field)
      BY DEF Other, CutWith
    <3>6. /\ Has("WriteCaCertificate") =>
                 \/ /\ host.caCarl = last.cert /\ host.caOs = last.cert
                    /\ host.trust = last.cert \/ JudgedByFiles
                 \/ CutWith("WriteCaCertificate", "cert")
          /\ Has("CopyExecutable") =>
                 host.exe = last.version /\ (host.link = TRUE \/ cut["CopyExecutable"] # {})
          /\ Has("NetbirdUnpack") =>
                 host.netbird = last.version \/ CutWith("NetbirdUnpack", "version")
          /\ Has("CreateServiceFile") =>
                 host.unit = last.user \/ CutWith("CreateServiceFile", "user")
      BY <3>3, <3>5 DEF Post, JudgedByFiles
    <3>7. Has("RestartService") =>
              \/ host.service = [version |-> last.version, user |-> last.user, peer |-> last.peer]
              \/ CutWith("CreateServiceFile", "user")
      BY <3>3, <3>5 DEF Post
    <3>8. Has("RequestLinuxNetworkCapability") =>
              host.cap = TRUE /\ last.user \in host.users /\ host.owner = last.user
      <4>1. "RequestLinuxNetworkCapability" \in TasksOf(last) =>
                "CreateUser" \in TasksOf(last) /\ "ClaimFileOwnership" \in TasksOf(last)
        BY <3>1, TasksTogether
      <4> QED
        BY <3>2, <3>4, <4>1 DEF Post
    <3>9. Has("LoadKernelModules") =>
              host.loaded = TRUE \/ cut["CreateKernelModuleLoadRule"] # {}
      BY <3>1, <3>2 DEF Left
    <3>10. Has("CreateBridge") =>
               host.joined = TRUE /\ host.gre = TRUE /\ (host.bridgeUp = TRUE \/ cut["CreateBridge"] # {})
      <4>1. "CreateBridge" \in TasksOf(last) =>
                "CreateGreInterfaces" \in TasksOf(last) /\ "ConnectDeviceInterfaces" \in TasksOf(last)
        BY <3>1, TasksTogether
      <4> QED
        BY <3>2, <3>4, <4>1 DEF Post
    <3> QED
      BY <3>6, <3>7, <3>8, <3>9, <3>10 DEF Has
  <2> QED
    BY <2>2, <2>3 DEF InstalledAsRequested
<1> QED
  BY <1>1, SetupBegins, SetupStep, PTL DEF SetupSpec
=============================================================================

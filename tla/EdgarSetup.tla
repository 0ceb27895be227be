----------------------------- MODULE EdgarSetup -----------------------------
(***************************************************************************)
(* `edgar setup`: the configuration file is written, then a runner takes   *)
(* one task after the other.  A task says whether it is fulfilled, is      *)
(* executed if it is not, and is asked again; the first failure ends the   *)
(* setup, and the operator runs it again, perhaps with the Setup-String of *)
(* another peer or from another distribution.                              *)
(*                                                                         *)
(* A task executes in steps, between and inside which the setup can be cut *)
(* short: an error, a signal, the machine going down.  Several tasks judge *)
(* by a checksum file which they write last.                               *)
(***************************************************************************)
EXTENDS Integers, Sequences

CONSTANTS
    Setups,    \* [mode, dry, noConfirm, cert, version, user, peer, vpn]: command lines
    NoSetup,
    Absent,    \* no such file, or nobody
    Partial,   \* what a write that is cut short leaves in a file
    MaxInterruptions \* bound on errors, signals and reboots

ASSUME SetupAssumption ==
    /\ MaxInterruptions \in Nat /\ Absent # Partial
    /\ \A s \in Setups :
        /\ DOMAIN s = {"mode", "dry", "noConfirm", "cert", "version", "user", "peer", "vpn"}
        /\ s.mode \in {"managed", "unmanaged"}
        /\ {s.dry, s.noConfirm, s.vpn} \subseteq BOOLEAN
        /\ {Absent, Partial} \cap {s.cert, s.version, s.user, s.peer} = {}

VARIABLES
    docker,  \* running_in_docker()
    files,   \* edgar.toml and the suggestion for a merged one
    host,    \* everything else the tasks change
    run,     \* the setup under way: at, of which command line, task, step
    interruptions, \* errors, signals and reboots so far
    \* history
    last,    \* the setup whose tasks all succeeded, unless another has begun since
    cut      \* per task, the setups that left it half executed since it was last executed

setupVars == <<docker, files, host, run, interruptions, last, cut>>

\* edgar.toml: `own` stands for settings of the operator, `peer` for what the
\* Setup-String says, the client secret included.
NoFile == [text |-> "none", peer |-> Absent, own |-> FALSE, private |-> FALSE]
OwnFile == [text |-> "toml", peer |-> Absent, own |-> TRUE, private |-> FALSE]

FreshHost ==
    [caCarl |-> Absent, caCarlSum |-> Absent, caOs |-> Absent, caOsSum |-> Absent, trust |-> Absent,
     exe |-> Absent, link |-> FALSE, cap |-> FALSE, rperf |-> Absent,
     loaded |-> FALSE, vcanRule |-> Absent, canGwRule |-> Absent,
     netbird |-> Absent, netbirdSum |-> Absent, netbirdService |-> FALSE, socket |-> FALSE, vpn |-> FALSE,
     users |-> {"root"}, owner |-> "root",
     unit |-> Absent, unitSum |-> Absent, unitLoaded |-> Absent, enabled |-> FALSE, service |-> Absent,
     bridge |-> FALSE, bridgeUp |-> FALSE, gre |-> FALSE, joined |-> FALSE, plugin |-> FALSE]

NotRunning == [at |-> "idle", setup |-> NoSetup, target |-> "conf", task |-> 1, step |-> 1]

TaskNames == {"Plugin", "WriteCaCertificate", "CheckCommandLinePrograms", "CheckCarlReachable",
    "CopyExecutable", "CopyRperf", "LoadKernelModules", "CreateKernelModuleLoadRule",
    "NetbirdUnpack", "NetbirdInstallService", "NetbirdRestartService", "NetbirdConnect",
    "CreateUser", "ClaimFileOwnership", "RequestLinuxNetworkCapability", "CreateServiceFile",
    "RestartService", "CreateBridge", "CreateGreInterfaces", "ConnectDeviceInterfaces"}

\* In a container the modules may have been loaded by the machine around it.
SetupInit ==
    /\ docker \in BOOLEAN
    /\ \E c \in {NoFile, OwnFile} : files = [conf |-> c, suggestion |-> NoFile]
    /\ \E l \in BOOLEAN : (l => docker) /\ host = [FreshHost EXCEPT !.loaded = l]
    /\ run = NotRunning /\ interruptions = 0
    /\ last = NoSetup /\ cut = [t \in TaskNames |-> {}]

----------------------------------------------------------------------------
\* The tasks: what each executes, step by step.
WriteCarlCertificate      == <<"caCarl", "caCarlSum">>
\* As a bug would have it: the checksum is there before what it vouches for.
ChecksumBeforeUpdate      == <<"caOs", "caOsSum", "trust">>
WriteOsCertStoreCertificate == <<"caOs", "trust", "caOsSum">>
WriteCaCertificate        == WriteCarlCertificate \o WriteOsCertStoreCertificate
CopyExecutable            == <<"stop", "exe", "unlink", "link">>
CopyRperf                 == <<"rperf">>
LoadKernelModules         == <<"loaded">>
CreateKernelModuleLoadRule == <<"vcanRule", "canGwRule">>
NetbirdUnpack             == <<"netbird", "netbirdSum">>
NetbirdInstallService     == <<"netbirdService">>
NetbirdRestartService     == <<"socket">>
NetbirdConnect            == <<"vpn">>
CreateUser                == <<"users">>
ClaimFileOwnership        == <<"owner", "restrict">>
RequestLinuxNetworkCapability == <<"cap">>
CreateServiceFile         == <<"unit", "unitLoaded", "unitSum">>
RestartService            == <<"stop", "start">>
CreateBridge              == <<"bridge", "bridgeUp">>
CreateGreInterfaces       == <<"gre">>
ConnectDeviceInterfaces   == <<"joined">>

\* The two checks execute commands and change nothing.
StepsOf(t) ==
    CASE t = "Plugin"                 -> <<"plugin">>
      [] t = "WriteCaCertificate"     -> WriteCaCertificate
      [] t \in {"CheckCommandLinePrograms", "CheckCarlReachable"} -> <<"nothing">>
      [] t = "CopyExecutable"         -> CopyExecutable
      [] t = "CopyRperf"              -> CopyRperf
      [] t = "LoadKernelModules"      -> LoadKernelModules
      [] t = "CreateKernelModuleLoadRule" -> CreateKernelModuleLoadRule
      [] t = "NetbirdUnpack"          -> NetbirdUnpack
      [] t = "NetbirdInstallService"  -> NetbirdInstallService
      [] t = "NetbirdRestartService"  -> NetbirdRestartService
      [] t = "NetbirdConnect"         -> NetbirdConnect
      [] t = "CreateUser"             -> CreateUser
      [] t = "ClaimFileOwnership"     -> ClaimFileOwnership
      [] t = "RequestLinuxNetworkCapability" -> RequestLinuxNetworkCapability
      [] t = "CreateServiceFile"      -> CreateServiceFile
      [] t = "RestartService"         -> RestartService
      [] t = "CreateBridge"           -> CreateBridge
      [] t = "CreateGreInterfaces"    -> CreateGreInterfaces
      [] t = "ConnectDeviceInterfaces" -> ConnectDeviceInterfaces

\* systemd starts the service as the unit it has loaded says.
Service(h) == [version |-> h.exe, user |-> h.unitLoaded, peer |-> files.conf.peer]

\* What a step leaves behind.  Writing to an executable, or giving it to another
\* owner, makes the kernel drop its capabilities.
Done(a, s, h) ==
    CASE a = "nothing" \/ a = "restrict" -> h
      [] a = "caCarl"             -> [h EXCEPT !.caCarl = s.cert]
      [] a = "caCarlSum"          -> [h EXCEPT !.caCarlSum = h.caCarl]
      [] a = "caOs"               -> [h EXCEPT !.caOs = h.caCarl]
      [] a = "trust"              -> [h EXCEPT !.trust = h.caOs]
      [] a = "caOsSum"            -> [h EXCEPT !.caOsSum = h.caOs]
      [] a = "stop"               -> [h EXCEPT !.service = Absent]
      [] a = "exe"                -> [h EXCEPT !.exe = s.version, !.cap = FALSE]
      [] a = "unlink"             -> [h EXCEPT !.link = FALSE]
      [] a = "rperf"              -> [h EXCEPT !.rperf = s.version]
      [] a = "netbird"            -> [h EXCEPT !.netbird = s.version]
      [] a = "netbirdSum"         -> [h EXCEPT !.netbirdSum = s.version]
      [] a \in {"vcanRule", "canGwRule"} -> [h EXCEPT ![a] = "rule"]
      [] a = "users"              -> [h EXCEPT !.users = @ \cup {s.user}]
      [] a = "owner"              -> [h EXCEPT !.owner = s.user, !.cap = FALSE]
      [] a = "unit"               -> [h EXCEPT !.unit = s.user]
      [] a = "unitLoaded"         -> [h EXCEPT !.unitLoaded = h.unit]
      [] a = "unitSum"            -> [h EXCEPT !.unitSum = s.user]
      [] a = "start"              -> [h EXCEPT !.service = Service(h), !.enabled = TRUE]
      [] OTHER                    -> [h EXCEPT ![a] = TRUE]

\* Cut in the middle of writing a file.
Written == {"caCarl", "caCarlSum", "caOs", "caOsSum", "exe", "rperf", "netbird", "netbirdSum",
            "vcanRule", "canGwRule", "unit", "unitSum"}
Torn(a, h) == IF a = "exe" THEN [h EXCEPT !.exe = Partial, !.cap = FALSE]
              ELSE [h EXCEPT ![a] = Partial]

----------------------------------------------------------------------------
\* The tasks: when each holds to be fulfilled.
WriteCaCertificateFulfilled(s, h) ==
    /\ h.caCarl # Absent /\ h.caOs # Absent
    /\ IF h.caCarlSum # Absent /\ h.caOsSum # Absent
       THEN h.caCarlSum = s.cert /\ h.caOsSum = s.cert
       ELSE h.caCarl = s.cert /\ h.caOs = s.cert

CopyExecutableFulfilled(s, h)        == h.exe = s.version
CopyRperfFulfilled(h)                == h.rperf # Absent
LoadKernelModulesFulfilled(h)        == h.loaded
\* As a bug would have it: an options file is missed where there are no options.
OptionsForEveryModule(h)             == h.vcanRule = "options" /\ h.canGwRule # Absent
CreateKernelModuleLoadRuleFulfilled(h) == h.vcanRule # Absent /\ h.canGwRule # Absent
NetbirdUnpackFulfilled(s, h)         == h.netbirdSum = s.version
NetbirdInstallServiceFulfilled(h)    == h.netbirdService
NetbirdConnectFulfilled(h)           == h.vpn
CreateUserFulfilled(s, h)            == s.user \in h.users
RequestLinuxNetworkCapabilityFulfilled(h) == h.cap
CreateServiceFileFulfilled(s, h)     == h.unitSum = s.user
CreateBridgeFulfilled(h)             == h.bridge
PluginFulfilled(h)                   == h.plugin

Unchecked == {"CheckCommandLinePrograms", "CheckCarlReachable", "NetbirdRestartService",
              "ClaimFileOwnership", "RestartService", "CreateGreInterfaces",
              "ConnectDeviceInterfaces"}

\* check_fulfilled answered Yes.
Fulfilled(t, s, h) ==
    CASE t = "Plugin"                -> PluginFulfilled(h)
      [] t = "WriteCaCertificate"    -> WriteCaCertificateFulfilled(s, h)
      [] t = "CopyExecutable"        -> CopyExecutableFulfilled(s, h)
      [] t = "CopyRperf"             -> CopyRperfFulfilled(h)
      [] t = "LoadKernelModules"     -> LoadKernelModulesFulfilled(h)
      [] t = "CreateKernelModuleLoadRule" -> CreateKernelModuleLoadRuleFulfilled(h)
      [] t = "NetbirdUnpack"         -> NetbirdUnpackFulfilled(s, h)
      [] t = "NetbirdInstallService" -> NetbirdInstallServiceFulfilled(h)
      [] t = "NetbirdConnect"        -> NetbirdConnectFulfilled(h)
      [] t = "CreateUser"            -> CreateUserFulfilled(s, h)
      [] t = "RequestLinuxNetworkCapability" -> RequestLinuxNetworkCapabilityFulfilled(h)
      [] t = "CreateServiceFile"     -> CreateServiceFileFulfilled(s, h)
      [] t = "CreateBridge"          -> CreateBridgeFulfilled(h)
      [] OTHER                       -> FALSE

Netbird == <<"NetbirdUnpack", "NetbirdInstallService", "NetbirdRestartService", "NetbirdConnect">>

UserTasks(s) ==
    IF s.user = "root" THEN <<>>
    ELSE <<"CreateUser", "ClaimFileOwnership", "RequestLinuxNetworkCapability">>

Managed(s) ==
    <<"Plugin", "WriteCaCertificate", "CheckCommandLinePrograms", "CheckCarlReachable",
      "CopyExecutable", "CopyRperf", "LoadKernelModules">>
    \o (IF docker THEN <<>> ELSE <<"CreateKernelModuleLoadRule">>)
    \o (IF s.vpn THEN Netbird ELSE <<>>)
    \o UserTasks(s)
    \o <<"CreateServiceFile", "RestartService">>

Unmanaged ==
    <<"Plugin", "CheckCommandLinePrograms">> \o Netbird
    \o <<"CreateBridge", "CreateGreInterfaces", "ConnectDeviceInterfaces", "CopyRperf">>

Tasks(s) == IF s.mode = "managed" THEN Managed(s) ELSE Unmanaged

----------------------------------------------------------------------------
\* The operator starts a setup, and confirms that.
StartSetup(s) ==
    /\ run = NotRunning
    /\ run' = [NotRunning EXCEPT
                   !.at = IF s.mode = "managed" /\ ~s.dry THEN "configure" ELSE "tasks",
                   !.setup = s]
    /\ last' = IF s.dry THEN last ELSE NoSetup
    /\ UNCHANGED <<docker, files, host, interruptions, cut>>

\* WriteConfiguration: the settings of the Setup-String are put into what can be
\* read of the file.  A file with other settings is replaced only if the operator
\* agrees, beforehand or when asked; if not, or if nobody is there to ask, the
\* result goes to a file beside it and the setup ends with an error.
Configure ==
    /\ run.at = "configure"
    /\ LET f == files.conf IN
       \/ f.text = "toml" /\ f.peer = run.setup.peer /\ run' = [run EXCEPT !.at = "tasks"]
       \/ /\ ~(f.text = "toml" /\ f.peer = run.setup.peer)
          /\ \E t \in {"conf"} \cup
                      (IF f.text \in {"none", "empty"} \/ run.setup.noConfirm THEN {}
                       ELSE {"suggestion"}) :
                run' = [run EXCEPT !.at = "create", !.target = t]
    /\ UNCHANGED <<docker, files, host, interruptions, last, cut>>

\* create_file_and_ensure_it_can_only_be_read_or_modified_by_owner.
Create ==
    /\ run.at = "create"
    /\ files' = [files EXCEPT ![run.target].text = IF @ = "none" THEN "empty" ELSE @]
    /\ run' = [run EXCEPT !.at = "restrict"]
    /\ UNCHANGED <<docker, host, interruptions, last, cut>>

\* As a bug would have it: the content comes first.
RestrictLater ==
    /\ run.at = "restrict"
    /\ run' = [run EXCEPT !.at = "write"]
    /\ UNCHANGED <<docker, files, host, interruptions, last, cut>>

SetPermissions ==
    /\ run.at = "restrict"
    /\ files' = [files EXCEPT ![run.target].private = TRUE]
    /\ run' = [run EXCEPT !.at = "write"]
    /\ UNCHANGED <<docker, host, interruptions, last, cut>>

Write ==
    /\ run.at = "write"
    /\ files' = [files EXCEPT ![run.target] =
                    [@ EXCEPT !.text = "toml", !.peer = run.setup.peer,
                              !.own = files.conf.text = "toml" /\ files.conf.own]]
    /\ run' = IF run.target = "conf" THEN [run EXCEPT !.at = "tasks"] ELSE NotRunning
    /\ UNCHANGED <<docker, host, interruptions, last, cut>>

----------------------------------------------------------------------------
Task == Tasks(run.setup)[run.task]

\* On to the next task; after the last one the setup has succeeded.
NextTask ==
    IF run.task = Len(Tasks(run.setup))
    THEN run' = NotRunning /\ last' = IF run.setup.dry THEN last ELSE run.setup
    ELSE run' = [run EXCEPT !.task = @ + 1, !.step = 1] /\ UNCHANGED last

\* Before its first step a task is asked whether it is fulfilled.
Skip ==
    /\ run.at = "tasks" /\ run.step = 1
    /\ Fulfilled(Task, run.setup, host) \/ run.setup.dry
    /\ NextTask
    /\ UNCHANGED <<docker, files, host, interruptions, cut>>

\* As a bug would have it: a dry run executes what cannot be checked.
DueIgnoringDryRun ==
    /\ run.at = "tasks"
    /\ run.step = 1 => ~Fulfilled(Task, run.setup, host) /\ (run.setup.dry => Task \in Unchecked)

\* The task is being executed, or is about to be.
Due == run.at = "tasks" /\ (run.step = 1 => ~Fulfilled(Task, run.setup, host) /\ ~run.setup.dry)

\* One step of a task; after the last one the task is asked again, and the
\* setup ends if it still wants to be executed.
Execute ==
    /\ Due /\ ~(Task = "LoadKernelModules" /\ docker)
    /\ LET steps == StepsOf(Task)
           a     == steps[run.step] IN
       /\ host' = Done(a, run.setup, host)
       /\ files' = IF a = "restrict" THEN [files EXCEPT !.conf.private = TRUE] ELSE files
       /\ IF run.step < Len(steps)
          THEN run' = [run EXCEPT !.step = @ + 1] /\ UNCHANGED <<cut, last>>
          ELSE /\ cut' = [cut EXCEPT ![Task] = {}]
               /\ IF Fulfilled(Task, run.setup, host') \/ Task \in Unchecked THEN NextTask
                  ELSE run' = NotRunning /\ UNCHANGED last
    /\ UNCHANGED <<docker, interruptions>>

\* From within a container modules cannot be loaded.
BailInDocker ==
    /\ Due /\ Task = "LoadKernelModules" /\ docker
    /\ run' = NotRunning
    /\ UNCHANGED <<docker, files, host, interruptions, last, cut>>

RunStep == Configure \/ Create \/ SetPermissions \/ Write \/ Skip \/ Execute \/ BailInDocker

----------------------------------------------------------------------------
\* Where the setup is cut: a file that is being written may be left partial.
LeftHost ==
    {host} \cup (IF Due /\ StepsOf(Task)[run.step] \in Written
                 THEN {Torn(StepsOf(Task)[run.step], host)} ELSE {})
LeftFiles ==
    {files} \cup (IF run.at = "write"
                  THEN {[files EXCEPT ![run.target] = [@ EXCEPT !.text = "partial", !.own = FALSE]]}
                  ELSE {})
LeftCut == IF Due THEN [cut EXCEPT ![Task] = @ \cup {run.setup}] ELSE cut

\* A step or a check fails, or the setup is killed: the runner ends.
Interrupt ==
    /\ run # NotRunning /\ interruptions < MaxInterruptions
    /\ interruptions' = interruptions + 1
    /\ host' \in LeftHost /\ files' \in LeftFiles /\ cut' = LeftCut
    /\ run' = NotRunning
    /\ UNCHANGED <<docker, last>>

\* systemd, systemd-modules-load and NetBird's service start what they find.
Booted(h) ==
    LET bootable == /\ h.enabled /\ h.exe \notin {Absent, Partial} /\ h.unit \notin {Absent, Partial}
                    /\ files.conf.peer # Absent
        loaded   == [h EXCEPT !.unitLoaded = h.unit]
    IN [loaded EXCEPT
            !.service = IF bootable THEN Service(loaded) ELSE Absent,
            !.loaded = IF docker THEN @ ELSE h.vcanRule = "rule" /\ h.canGwRule = "rule",
            !.bridge = FALSE, !.bridgeUp = FALSE, !.gre = FALSE, !.joined = FALSE]

\* The machine goes down and comes up again; when it takes a setup down with
\* it, that is a fault first.
Reboot ==
    /\ run = NotRunning /\ interruptions < MaxInterruptions
    /\ interruptions' = interruptions + 1
    /\ host' = Booted(host)
    /\ last' = IF last # NoSetup /\ last.mode = "unmanaged" THEN NoSetup ELSE last
    /\ UNCHANGED <<docker, files, run, cut>>

SetupNext == (\E s \in Setups : StartSetup(s)) \/ RunStep \/ Interrupt \/ Reboot

SetupSpec == SetupInit /\ [][SetupNext]_setupVars

\* The setup is a program that runs on its own once it is started.
SetupFairSpec == SetupSpec /\ WF_setupVars(RunStep)

----------------------------------------------------------------------------
\* The run is where a run can be, and a file is partial only if the task that
\* writes it was left half executed.
SetupTypeOK ==
    /\ docker \in BOOLEAN /\ interruptions \in 0 .. MaxInterruptions
    /\ \A f \in DOMAIN files : files[f].text \in {"none", "empty", "partial", "toml"}
    /\ run = NotRunning \/ (run.setup \in Setups /\ run.task \in 1 .. Len(Tasks(run.setup)))
    /\ run.at = "tasks" => run.step \in 1 .. Len(StepsOf(Task))
    /\ host.netbird = Partial => cut["NetbirdUnpack"] # {}
    /\ host.unit = Partial => cut["CreateServiceFile"] # {}
    /\ last \in Setups \cup {NoSetup}

\* An attempt with another content left the task half executed.
CutWith(t, field) == \E s \in cut[t] : s[field] # last[field]

\* Unless both checksums exist the task compares the files, which are both there
\* although a run was cut before update-ca-certificates.
JudgedByFiles == Absent \in {host.caCarlSum, host.caOsSum} /\ cut["WriteCaCertificate"] # {}

\* A setup whose tasks all succeeded has installed what was asked for, however
\* many setups were cut short before it, and a reboot keeps it so: the
\* certificate, which the machine trusts, EDGAR and NetBird of this distribution,
\* the user's rights, the service file, and a service that runs with all of them.
\* Excused are a task that an attempt with other contents left half executed, those
\* that judge by existence if they were left half executed at all, and the trust
\* store of a machine on which every attempt was cut before the second checksum,
\* which the code takes for updated once the two files agree.  Half-written
\* files are the work of interrupted tasks only, as the type invariant says.
InstalledAsRequested ==
    /\ SetupTypeOK
    /\ last # NoSetup =>
        LET Has(t) == \E i \in 1 .. Len(Tasks(last)) : Tasks(last)[i] = t IN
        /\ Has("WriteCaCertificate") =>
               \/ /\ host.caCarl = last.cert /\ host.caOs = last.cert
                  /\ host.trust = last.cert \/ JudgedByFiles
               \/ CutWith("WriteCaCertificate", "cert")
        /\ Has("CopyExecutable") =>
               host.exe = last.version /\ (host.link \/ cut["CopyExecutable"] # {})
        /\ Has("NetbirdUnpack") =>
               host.netbird = last.version \/ CutWith("NetbirdUnpack", "version")
        /\ Has("CreateServiceFile") =>
               host.unit = last.user \/ CutWith("CreateServiceFile", "user")
        /\ Has("RestartService") =>
               \/ host.service = [version |-> last.version, user |-> last.user, peer |-> last.peer]
               \/ CutWith("CreateServiceFile", "user")
        /\ Has("RequestLinuxNetworkCapability") => host.cap /\ last.user \in host.users /\ host.owner = last.user
        /\ Has("LoadKernelModules") => host.loaded \/ cut["CreateKernelModuleLoadRule"] # {}
        /\ Has("CreateBridge") => host.joined /\ host.gre /\ (host.bridgeUp \/ cut["CreateBridge"] # {})

\* The client secret is never in a file that others may read, at no step of the
\* setup and wherever it is cut.
SecretStaysPrivate == \A f \in DOMAIN files : files[f].peer # Absent => files[f].private

\* A dry run changes nothing.
DryRunChangesNothing ==
    [][run # NotRunning /\ run.setup.dry => UNCHANGED <<files, host, cut>>]_setupVars

\* A setup that is tried again and again succeeds: no half-executed task is in
\* its own way.
RetriesSucceed ==
    \A s \in {x \in Setups : ~x.dry /\ x.noConfirm} :
        ([](docker => host.loaded) /\ []<><<StartSetup(s)>>_setupVars) => []<>(last = s)
=============================================================================

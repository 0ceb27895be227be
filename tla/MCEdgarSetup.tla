---------------------------- MODULE MCEdgarSetup ----------------------------
(* Two Setup-Strings that differ in everything, from two distributions, the  *)
(* first confirmed beforehand, the second by the operator; a dry run and an  *)
(* unmanaged setup.  Dry runs come before the first fault and containers      *)
(* start without a configuration file; what remains does not depend on these. *)
(* A setup is cut a second time only where it was cut before, in the same     *)
(* task or while it writes the configuration, tasks not sharing files, and    *)
(* only outside of a container, where there are more tasks.                   *)
EXTENDS EdgarSetup

Command(mode, dry, noConfirm, n, user, vpn) ==
    [mode |-> mode, dry |-> dry, noConfirm |-> noConfirm, cert |-> n, version |-> n,
     user |-> user, peer |-> n, vpn |-> vpn]

MCSetups == {Command("managed", FALSE, TRUE, 1, "opendut", TRUE),
             Command("managed", FALSE, FALSE, 2, "root", FALSE),
             Command("managed", TRUE, TRUE, 2, "opendut", TRUE),
             Command("unmanaged", FALSE, TRUE, 2, "root", TRUE)}

MCInit == SetupInit /\ (docker => files.conf = NoFile)

MCStart(s) == StartSetup(s) /\ (s.dry => interruptions = 0)

SecondCut == IF \A t \in TaskNames : cut[t] = {} THEN run.at # "tasks" ELSE Due /\ cut[Task] # {}
MCInterrupt  == Interrupt /\ (interruptions > 0 => SecondCut /\ ~docker)
MCReboot == Reboot /\ ~docker

MCNext == (\E s \in Setups : MCStart(s)) \/ RunStep \/ MCInterrupt \/ MCReboot

MCSpec == MCInit /\ [][MCNext]_setupVars /\ WF_setupVars(RunStep)
=============================================================================

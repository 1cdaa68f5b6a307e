----------------------------- MODULE Deployment -----------------------------
(***************************************************************************)
(* The scripts of shl/, the processes they start, and the database file:   *)
(* the process that serves the port opens the database when a page is      *)
(* first shown, install.sh upgrades it at any time, and a process that     *)
(* ends leaves the file as it is.                                          *)
(***************************************************************************)
EXTENDS ServiceControl, DbBootstrap

deployVars == <<controlVars, dbVars>>

Installing == upgrade # NotRunning

Served == \E p \in Pids : proc[p] = "serving"

DeployInit == ControlInit /\ DbInit

\* The engine belongs to the process that serves.
WithEngine == IF Served /\ ~Served' THEN ForgetEngine ELSE UNCHANGED dbVars

\* An operator runs one script at a time: one is left for another script.
SomebodyIsFree == Cardinality(Scripts) + (IF Installing THEN 1 ELSE 0) < Cardinality(Operators)

RunScript(o) ==
    /\ SomebodyIsFree
    /\ Begin(o, "start") \/ Begin(o, "stop")
    /\ UNCHANGED dbVars

ScriptStep(o) == (StartStep(o) \/ StopStep(o)) /\ WithEngine

Process(p) == ProcessStep(p) /\ WithEngine

RunInstall == SomebodyIsFree /\ UpgradeStart /\ UNCHANGED controlVars

InstallCut == UpgradeCut /\ UNCHANGED controlVars

InstallStep == (UpgradeStep \/ UpgradeFails) /\ UNCHANGED controlVars

ShowPage == Served /\ PageStep /\ UNCHANGED controlVars

DeployNext ==
    \/ \E o \in Operators : RunScript(o) \/ ScriptStep(o)
    \/ \E p \in Pids : Process(p)
    \/ RunInstall \/ InstallCut
    \/ InstallStep
    \/ ShowPage

DeploySpec == DeployInit /\ [][DeployNext]_deployVars

\* A script that was started runs on, a process that boots gets as far as its
\* port, what was killed ends, and pages are shown again and again.
FairDeploySpec ==
    /\ DeploySpec
    /\ \A o \in Operators : WF_deployVars(ScriptStep(o))
    /\ \A p \in Pids : /\ WF_deployVars((Bind(p) \/ PortTaken(p)) /\ WithEngine)
                       /\ WF_deployVars(Reap(p) /\ WithEngine)
    /\ WF_deployVars(InstallStep)
    /\ WF_deployVars(ShowPage)

-----------------------------------------------------------------------------
(* Properties.                                                             *)

\* The type invariant of a deployment, what the scripts rely on, and what the
\* running upgrade and create_all have done.
DeployIInv == ControlIInv /\ DbIInv

\* An application that goes on serving gets its tables, whatever half-done
\* upgrade it finds and however often one runs next to it.
TablesArrive == []<>(~Served \/ engine = "cached")
=============================================================================

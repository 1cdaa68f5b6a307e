--------------------------- MODULE ServiceControl ---------------------------
(***************************************************************************)
(* shl/start.sh and shl/stop.sh: the pid file by which operators start and *)
(* stop the Streamlit process, a command that reads or changes the pid     *)
(* file or a process a step (what a script tests of its own variables goes *)
(* with the command before), with processes that end at any time, ignore   *)
(* SIGTERM, and leave their pid to others.                                 *)
(***************************************************************************)
EXTENDS Integers, FiniteSets

CONSTANTS
    Operators,  \* who runs the scripts: people, systemd
    Pids,       \* the process ids of the machine
    NoFile,     \* there is no .krx.pid
    NoPid,      \* what cat reads from an empty file
    Timeout,    \* KRX_STOP_TIMEOUT
    MaxOthers   \* bound: processes that are not the application's

ASSUME ControlAssumption ==
    /\ NoFile \notin Pids /\ NoPid \notin Pids /\ NoFile # NoPid
    /\ IsFiniteSet(Pids) /\ Timeout \in Nat /\ MaxOthers \in Nat

VARIABLES
    pidFile,   \* NoFile, NoPid while it is empty, or a pid
    proc,      \* what runs under a pid
    pc,        \* the next command of an operator's script, or "idle"
    seen,      \* $existing_pid, $pid or $! of the script, while it is needed
    waited,    \* seconds waited for the process to end
    disturbed  \* whether two scripts have ever run at the same time

scriptVars == <<pc, seen, waited, disturbed>>
controlVars == <<pidFile, proc, scriptVars>>

StartLabels == {"start", "startCat", "startProbe", "startRemove",
                "launch", "truncate", "write"}
StopLabels == {"stop", "stopCat", "stopProbe", "terminate", "wait", "kill", "remove"}

ProcessStates == {"free", "booting", "serving", "dying", "other"}

\* kill -0: a process with this pid is there.
Alive(p) == p \in Pids /\ proc[p] # "free"

Scripts == {o \in Operators : pc[o] # "idle"}

ControlInit ==
    /\ pidFile = NoFile
    /\ proc = [p \in Pids |-> "free"]
    /\ pc = [o \in Operators |-> "idle"]
    /\ seen = [o \in Operators |-> NoPid]
    /\ waited = [o \in Operators |-> 0]
    /\ disturbed = FALSE

\* An operator runs a script.
Begin(o, label) ==
    /\ pc[o] = "idle"
    /\ pc' = [pc EXCEPT ![o] = label]
    /\ disturbed' = (disturbed \/ Scripts # {})
    /\ UNCHANGED <<pidFile, proc, seen, waited>>

Goto(o, label) ==
    /\ pc' = [pc EXCEPT ![o] = label]
    /\ UNCHANGED <<seen, waited, disturbed>>

\* A command is done, and the next one reads p.
GotoWith(o, label, p) ==
    /\ pc' = [pc EXCEPT ![o] = label]
    /\ seen' = [seen EXCEPT ![o] = p]
    /\ UNCHANGED <<waited, disturbed>>

\* The script needs its pid no more: it goes on without, or ends.
Forget(o, label) ==
    /\ pc' = [pc EXCEPT ![o] = label]
    /\ seen' = [seen EXCEPT ![o] = NoPid]
    /\ waited' = [waited EXCEPT ![o] = 0]
    /\ UNCHANGED disturbed

-----------------------------------------------------------------------------
(* start.sh                                                                *)

\* if [ -f "$PID_FILE" ]
StartCheck(o) ==
    /\ pc[o] = "start"
    /\ Goto(o, IF pidFile = NoFile THEN "launch" ELSE "startCat")
    /\ UNCHANGED <<pidFile, proc>>

\* $(cat "$PID_FILE"); set -e ends the script if the file is gone.
Cat(o, here, next) ==
    /\ pc[o] = here
    /\ IF pidFile = NoFile THEN Forget(o, "idle") ELSE GotoWith(o, next, pidFile)
    /\ UNCHANGED <<pidFile, proc>>

\* Mutant: the script does not look whether the process lives.
StartProbeNothing(o) ==
    /\ pc[o] = "startProbe"
    /\ Forget(o, "startRemove")
    /\ UNCHANGED <<pidFile, proc>>

\* "already running (pid=$existing_pid) - run stop.sh first"
StartProbe(o) ==
    /\ pc[o] = "startProbe"
    /\ Forget(o, IF Alive(seen[o]) THEN "idle" ELSE "startRemove")
    /\ UNCHANGED <<pidFile, proc>>

\* rm -f "$PID_FILE" of a stale file.
StartRemove(o) ==
    /\ pc[o] = "startRemove"
    /\ pidFile' = NoFile
    /\ Goto(o, "launch")
    /\ UNCHANGED proc

\* nohup streamlit run ... &
Launch(o) == \E p \in Pids :
    /\ pc[o] = "launch" /\ proc[p] = "free"
    /\ proc' = [proc EXCEPT ![p] = "booting"]
    /\ GotoWith(o, "truncate", p)
    /\ UNCHANGED pidFile

\* Without a free pid the shell cannot fork, and ends.
LaunchFails(o) ==
    /\ pc[o] = "launch" /\ \A p \in Pids : proc[p] # "free"
    /\ Forget(o, "idle")
    /\ UNCHANGED <<pidFile, proc>>

\* echo $! > "$PID_FILE": the redirection empties the file, echo fills it.
Truncate(o) ==
    /\ pc[o] = "truncate"
    /\ pidFile' = NoPid
    /\ Goto(o, "write")
    /\ UNCHANGED proc

Write(o) ==
    /\ pc[o] = "write"
    /\ pidFile' = seen[o]
    /\ Forget(o, "idle")
    /\ UNCHANGED proc

StartStep(o) ==
    \/ StartCheck(o)
    \/ Cat(o, "startCat", "startProbe")
    \/ StartProbe(o) \/ StartRemove(o)
    \/ Launch(o) \/ LaunchFails(o)
    \/ Truncate(o) \/ Write(o)

-----------------------------------------------------------------------------
(* stop.sh                                                                 *)

\* "no pid file - nothing to stop"
StopCheck(o) ==
    /\ pc[o] = "stop"
    /\ IF pidFile = NoFile THEN Forget(o, "idle") ELSE Goto(o, "stopCat")
    /\ UNCHANGED <<pidFile, proc>>

\* "not running - cleaning up stale pid file"
StopProbe(o) ==
    /\ pc[o] = "stopProbe"
    /\ IF Alive(seen[o]) THEN Goto(o, "terminate") ELSE Forget(o, "remove")
    /\ UNCHANGED <<pidFile, proc>>

\* kill "$pid" fails, and ends the script, when the process is gone.  A process
\* may end at any time, with a SIGTERM or without.
Terminate(o) ==
    /\ pc[o] = "terminate"
    /\ IF Alive(seen[o]) THEN Goto(o, "wait") ELSE Forget(o, "idle")
    /\ UNCHANGED <<pidFile, proc>>

HasEnded(o) ==
    /\ pc[o] = "wait" /\ ~Alive(seen[o])
    /\ Forget(o, "remove")
    /\ UNCHANGED <<pidFile, proc>>

\* Mutant: the seconds are not counted.
SleepUncounted(o) ==
    /\ pc[o] = "wait" /\ Alive(seen[o]) /\ waited[o] < Timeout
    /\ UNCHANGED controlVars

\* sleep 1; waited=$((waited + 1))
Sleep(o) ==
    /\ pc[o] = "wait" /\ Alive(seen[o]) /\ waited[o] < Timeout
    /\ waited' = [waited EXCEPT ![o] = @ + 1]
    /\ UNCHANGED <<pidFile, proc, pc, seen, disturbed>>

\* "timeout - sending SIGKILL"
TimeIsUp(o) ==
    /\ pc[o] = "wait" /\ Alive(seen[o]) /\ waited[o] >= Timeout
    /\ Goto(o, "kill")
    /\ UNCHANGED <<pidFile, proc>>

\* Mutant: no SIGKILL is sent when the time is over.
GiveUp(o) ==
    /\ pc[o] = "kill"
    /\ Forget(o, "remove")
    /\ UNCHANGED <<pidFile, proc>>

\* kill -9 "$pid" || true: whoever has the pid by now, and what becomes of it
\* is the kernel's; nothing if nobody has.
Kill(o) ==
    /\ pc[o] = "kill"
    /\ proc' = IF Alive(seen[o]) THEN [proc EXCEPT ![seen[o]] = "dying"] ELSE proc
    /\ Forget(o, "remove")
    /\ UNCHANGED pidFile

\* rm -f "$PID_FILE", and exit 0.
StopRemove(o) ==
    /\ pc[o] = "remove"
    /\ pidFile' = NoFile
    /\ Forget(o, "idle")
    /\ UNCHANGED proc

StopStep(o) ==
    \/ StopCheck(o)
    \/ Cat(o, "stopCat", "stopProbe")
    \/ StopProbe(o) \/ Terminate(o)
    \/ HasEnded(o) \/ Sleep(o) \/ TimeIsUp(o) \/ Kill(o)
    \/ StopRemove(o)

-----------------------------------------------------------------------------
(* Processes.                                                              *)

Becomes(p, state) ==
    /\ proc' = [proc EXCEPT ![p] = state]
    /\ UNCHANGED <<pidFile, scriptVars>>

\* Streamlit listens on the port.
Bind(p) ==
    /\ proc[p] = "booting" /\ \A q \in Pids : proc[q] # "serving"
    /\ Becomes(p, "serving")

\* "Port 8501 is already in use": Streamlit exits.
PortTaken(p) ==
    /\ proc[p] = "booting" /\ \E q \in Pids : proc[q] \in {"serving", "dying"}
    /\ Becomes(p, "free")

\* A process crashes, obeys a SIGTERM, or is done.
Exit(p) == proc[p] \in {"booting", "serving", "other"} /\ Becomes(p, "free")

Reap(p) == proc[p] = "dying" /\ Becomes(p, "free")

Others == {p \in Pids : proc[p] = "other"}

\* Another program gets the pid.
OtherStarts(p) ==
    /\ proc[p] = "free" /\ Cardinality(Others) < MaxOthers
    /\ Becomes(p, "other")

ProcessStep(p) == Bind(p) \/ PortTaken(p) \/ Exit(p) \/ Reap(p) \/ OtherStarts(p)

ControlNext ==
    \/ \E o \in Operators : \/ Begin(o, "start") \/ Begin(o, "stop")
                            \/ StartStep(o) \/ StopStep(o)
    \/ \E p \in Pids : ProcessStep(p)

ControlSpec == ControlInit /\ [][ControlNext]_controlVars

\* A script runs on, a process that boots gets as far as its port, and the
\* kernel ends what was killed.  Nothing makes a process heed a SIGTERM.
ControlFairness ==
    /\ \A o \in Operators : WF_controlVars(StartStep(o) \/ StopStep(o))
    /\ \A p \in Pids : WF_controlVars(Bind(p) \/ PortTaken(p)) /\ WF_controlVars(Reap(p))

-----------------------------------------------------------------------------
(* Properties.                                                             *)

ControlTypeOK ==
    /\ pidFile \in Pids \cup {NoFile, NoPid}
    /\ proc \in [Pids -> ProcessStates]
    /\ pc \in [Operators -> {"idle"} \cup StartLabels \cup StopLabels]
    /\ seen \in [Operators -> Pids \cup {NoPid}]
    /\ waited \in [Operators -> 0..Timeout]
    /\ disturbed \in BOOLEAN

\* The application's processes that have not been killed.
Live == {p \in Pids : proc[p] \in {"booting", "serving"}}

\* stop.sh ends with success: it has removed the pid file, or found none.
StopSucceeds(o) == pc[o] \in {"stop", "remove"} /\ pc'[o] = "idle"

\* When stop.sh says that it is done, or that there is nothing to stop, no
\* process of the application lives, whatever crashed before and whoever has
\* its pid now - provided no two scripts ever ran at once.  ("Stop the
\* Streamlit app started by start.sh.")
StopStops ==
    [][\A o \in Operators : StopSucceeds(o) => disturbed \/ Live' = {}]_controlVars

\* Every script ends, though a process may ignore SIGTERM for ever.
ScriptsEnd == \A o \in Operators : []<>(pc[o] = "idle")

-----------------------------------------------------------------------------
(* The inductive invariant.                                                *)

\* What the application's live process is named by while a script is at a label.
Named(o) ==
    /\ pc[o] \in {"idle", "start", "startCat", "stop", "stopCat"} => Live \subseteq {pidFile}
    /\ pc[o] \in {"startProbe", "stopProbe", "terminate", "wait", "kill"} =>
           Live \subseteq {seen[o]} /\ pidFile = seen[o]
    /\ pc[o] \in {"startRemove", "launch", "remove"} => Live = {}
    /\ pc[o] \in {"truncate", "write"} => Live \subseteq {seen[o]}

\* With one script at a time, the pid file names the application's live process
\* whenever no script runs, and the running script knows it.
ControlIInv ==
    /\ ControlTypeOK
    /\ ~disturbed =>
          /\ \A o, q \in Scripts : o = q
          /\ Scripts = {} => Live \subseteq {pidFile}
          /\ \A o \in Scripts : Named(o)
=============================================================================

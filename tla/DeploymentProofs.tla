-------------------------- MODULE DeploymentProofs --------------------------
(***************************************************************************)
(* stop.sh stops the application: proofs about ServiceControl, for any     *)
(* number of operators, pids and other processes, and any timeout; a       *)
(* deployment does to its processes only what the scripts do; and in the   *)
(* database file a page that has its engine finds both tables, and a       *)
(* revision is stamped when everything it creates is there.                *)
(***************************************************************************)
EXTENDS Deployment, SequenceTheorems, TLAPS

\* The machine before the first start.
LEMMA ControlInitIInv == ControlInit => ControlIInv
  <1> SUFFICES ASSUME ControlInit
               PROVE  ControlIInv
    OBVIOUS
  <1>1. ControlTypeOK
    <2>1. 0 \in 0..Timeout
      BY ControlAssumption
    <2>2. proc \in [Pids -> ProcessStates] /\ pc \in [Operators -> {"idle"}]
      BY DEF ControlInit, ProcessStates
    <2> QED
      BY <2>1, <2>2 DEF ControlInit, ControlTypeOK
  <1>2. Scripts = {}
    BY DEF ControlInit, Scripts
  <1>3. Live = {}
    BY DEF ControlInit, Live
  <1> QED
    BY <1>1, <1>2, <1>3 DEF ControlIInv

-----------------------------------------------------------------------------
(* Types.                                                                  *)

\* A command of start.sh keeps the types.
LEMMA StartTypeOK ==
    ASSUME ControlTypeOK, NEW o \in Operators, StartStep(o)
    PROVE  ControlTypeOK'
  <1> USE DEF ControlTypeOK, ProcessStates, StartLabels, StopLabels, Goto, GotoWith, Forget
  <1>1. CASE StartCheck(o)
    BY <1>1 DEF StartCheck
  <1>2. CASE Cat(o, "startCat", "startProbe")
    BY <1>2, ControlAssumption DEF Cat
  <1>3. CASE StartProbe(o)
    BY <1>3, ControlAssumption DEF StartProbe
  <1>4. CASE StartRemove(o)
    BY <1>4 DEF StartRemove
  <1>5. CASE Launch(o)
    BY <1>5 DEF Launch
  <1>6. CASE LaunchFails(o)
    BY <1>6, ControlAssumption DEF LaunchFails
  <1>7. CASE Truncate(o)
    BY <1>7 DEF Truncate
  <1>8. CASE Write(o)
    BY <1>8, ControlAssumption DEF Write
  <1> QED
    BY <1>1, <1>2, <1>3, <1>4, <1>5, <1>6, <1>7, <1>8 DEF StartStep

\* A command of stop.sh keeps the types.
LEMMA StopTypeOK ==
    ASSUME ControlTypeOK, NEW o \in Operators, StopStep(o)
    PROVE  ControlTypeOK'
  <1> USE DEF ControlTypeOK, ProcessStates, StartLabels, StopLabels, Goto, GotoWith, Forget
  <1>1. CASE StopCheck(o)
    BY <1>1, ControlAssumption DEF StopCheck
  <1>2. CASE Cat(o, "stopCat", "stopProbe")
    BY <1>2, ControlAssumption DEF Cat
  <1>3. CASE StopProbe(o)
    BY <1>3, ControlAssumption DEF StopProbe
  <1>4. CASE Terminate(o)
    BY <1>4, ControlAssumption DEF Terminate
  <1>5. CASE HasEnded(o)
    BY <1>5, ControlAssumption DEF HasEnded
  <1>6. CASE Sleep(o)
    <2>1. waited[o] + 1 \in 0..Timeout
      BY <1>6, ControlAssumption DEF Sleep
    <2> QED
      BY <1>6, <2>1 DEF Sleep
  <1>7. CASE TimeIsUp(o)
    BY <1>7 DEF TimeIsUp
  <1>8. CASE Kill(o)
    BY <1>8, ControlAssumption DEF Kill, Alive
  <1>9. CASE StopRemove(o)
    BY <1>9, ControlAssumption DEF StopRemove
  <1> QED
    BY <1>1, <1>2, <1>3, <1>4, <1>5, <1>6, <1>7, <1>8, <1>9 DEF StopStep

-----------------------------------------------------------------------------
(* The invariant.                                                          *)

\* Where one script runs alone, and its step leaves the live process named as
\* its new label wants it, the invariant is kept.
LEMMA AloneIInv ==
    ASSUME ControlIInv, ControlTypeOK', NEW o \in Operators, pc[o] # "idle",
           \A q \in Operators : q # o => pc'[q] = pc[q],
           disturbed' = disturbed, ~disturbed => Named(o)'
    PROVE  ControlIInv'
  <1> SUFFICES ASSUME ~disturbed
               PROVE  /\ (\A q, r \in Scripts : q = r)'
                      /\ (Scripts = {} => Live \subseteq {pidFile})'
                      /\ (\A q \in Scripts : Named(q))'
    BY DEF ControlIInv
  <1>1. Scripts = {o}
    BY DEF ControlIInv, Scripts
  <1>2. Scripts' \subseteq {o}
    BY <1>1 DEF Scripts
  <1>3. Scripts' = {} => pc'[o] = "idle"
    BY DEF Scripts
  <1> QED
    BY <1>2, <1>3 DEF Named

\* A pid that is not alive is no live process of the application.
LEMMA DeadIsNotLive ==
    ASSUME NEW p, ~Alive(p), Live \subseteq {p}
    PROVE  Live = {}
  BY DEF Alive, Live

\* What the label of a command says of the live process.
LEMMA NamedHere ==
    ASSUME ControlIInv, ~disturbed, NEW o \in Operators, pc[o] # "idle"
    PROVE  Named(o)
  BY DEF ControlIInv, Scripts

\* A command of start.sh keeps the invariant.
LEMMA StartIInv ==
    ASSUME ControlIInv, NEW o \in Operators, StartStep(o)
    PROVE  ControlIInv'
  <1> USE DEF Goto, GotoWith, Forget
  <1>1. ControlTypeOK /\ ControlTypeOK'
    BY StartTypeOK DEF ControlIInv
  <1>2. pc[o] # "idle" /\ disturbed' = disturbed
    BY DEF StartStep, StartCheck, Cat, StartProbe, StartRemove, Launch, LaunchFails,
           Truncate, Write
  <1>3. \A q \in Operators : q # o => pc'[q] = pc[q]
    BY <1>1 DEF ControlTypeOK, StartStep, StartCheck, Cat, StartProbe, StartRemove,
                Launch, LaunchFails, Truncate, Write
  <1>4. ASSUME ~disturbed
        PROVE  Named(o)'
    <2> USE DEF ControlTypeOK, Live
    <2>1. Named(o)
      BY <1>2, <1>4, NamedHere
    <2>2. CASE StartCheck(o)
      BY <1>1, <2>1, <2>2, ControlAssumption DEF StartCheck, Named
    <2>3. CASE Cat(o, "startCat", "startProbe")
      BY <1>1, <2>1, <2>3 DEF Cat, Named
    <2>4. CASE StartProbe(o)
      <3>1. Live \subseteq {seen[o]} /\ pidFile = seen[o]
        BY <2>1, <2>4 DEF Named, StartProbe
      <3>2. ~Alive(seen[o]) => Live = {}
        BY <3>1, DeadIsNotLive
      <3> QED
        BY <1>1, <2>4, <3>1, <3>2 DEF StartProbe, Named
    <2>5. CASE StartRemove(o)
      BY <1>1, <2>1, <2>5 DEF StartRemove, Named
    <2>6. CASE Launch(o)
      BY <1>1, <2>1, <2>6 DEF Launch, Named
    <2>7. CASE LaunchFails(o)
      BY <1>1, <2>1, <2>7 DEF LaunchFails, Named
    <2>8. CASE Truncate(o)
      BY <1>1, <2>1, <2>8 DEF Truncate, Named
    <2>9. CASE Write(o)
      BY <1>1, <2>1, <2>9 DEF Write, Named
    <2> QED
      BY <2>2, <2>3, <2>4, <2>5, <2>6, <2>7, <2>8, <2>9 DEF StartStep
  <1> QED
    BY <1>1, <1>2, <1>3, <1>4, AloneIInv

\* A command of stop.sh keeps the invariant.
LEMMA StopIInv ==
    ASSUME ControlIInv, NEW o \in Operators, StopStep(o)
    PROVE  ControlIInv'
  <1> USE DEF Goto, GotoWith, Forget
  <1>1. ControlTypeOK /\ ControlTypeOK'
    BY StopTypeOK DEF ControlIInv
  <1>2. pc[o] # "idle" /\ disturbed' = disturbed
    BY DEF StopStep, StopCheck, Cat, StopProbe, Terminate, HasEnded, Sleep, TimeIsUp, Kill,
           StopRemove
  <1>3. \A q \in Operators : q # o => pc'[q] = pc[q]
    BY <1>1 DEF ControlTypeOK, StopStep, StopCheck, Cat, StopProbe, Terminate,
                HasEnded, Sleep, TimeIsUp, Kill, StopRemove
  <1>4. ASSUME ~disturbed
        PROVE  Named(o)'
    <2> USE DEF ControlTypeOK, Live
    <2>1. Named(o)
      BY <1>2, <1>4, NamedHere
    <2>2. CASE StopCheck(o)
      BY <1>1, <2>1, <2>2, ControlAssumption DEF StopCheck, Named
    <2>3. CASE Cat(o, "stopCat", "stopProbe")
      BY <1>1, <2>1, <2>3 DEF Cat, Named
    <2>4. CASE StopProbe(o)
      <3>1. Live \subseteq {seen[o]} /\ pidFile = seen[o]
        BY <2>1, <2>4 DEF Named, StopProbe
      <3>2. ~Alive(seen[o]) => Live = {}
        BY <3>1, DeadIsNotLive
      <3> QED
        BY <1>1, <2>4, <3>1, <3>2 DEF StopProbe, Named
    <2>5. CASE Terminate(o)
      BY <1>1, <2>1, <2>5 DEF Terminate, Named
    <2>6. CASE HasEnded(o)
      <3>1. Live \subseteq {seen[o]} /\ ~Alive(seen[o])
        BY <2>1, <2>6 DEF Named, HasEnded
      <3>2. Live = {}
        BY <3>1, DeadIsNotLive
      <3> QED
        BY <1>1, <2>6, <3>2 DEF HasEnded, Named
    <2>7. CASE Sleep(o)
      BY <1>1, <2>1, <2>7 DEF Sleep, Named
    <2>8. CASE TimeIsUp(o)
      BY <1>1, <2>1, <2>8 DEF TimeIsUp, Named
    <2>9. CASE Kill(o)
      <3>1. Live \subseteq {seen[o]}
        BY <2>1, <2>9 DEF Named, Kill
      <3>2. ~Alive(seen[o]) => Live = {}
        BY <3>1, DeadIsNotLive
      <3>3. Live' = {}
        BY <1>1, <2>9, <3>1, <3>2 DEF Kill, Alive
      <3> QED
        BY <1>1, <2>9, <3>3 DEF Kill, Named
    <2>10. CASE StopRemove(o)
      BY <1>1, <2>1, <2>10 DEF StopRemove, Named
    <2> QED
      BY <2>2, <2>3, <2>4, <2>5, <2>6, <2>7, <2>8, <2>9, <2>10 DEF StopStep
  <1> QED
    BY <1>1, <1>2, <1>3, <1>4, AloneIInv

\* A script that begins keeps the invariant: it is alone, or not undisturbed.
LEMMA BeginIInv ==
    ASSUME ControlIInv, NEW o \in Operators, Begin(o, "start") \/ Begin(o, "stop")
    PROVE  ControlIInv'
  <1>1. ControlTypeOK'
    BY DEF ControlIInv, ControlTypeOK, Begin, StartLabels, StopLabels
  <1>2. ASSUME ~disturbed'
        PROVE  /\ (\A q, r \in Scripts : q = r)'
               /\ (Scripts = {} => Live \subseteq {pidFile})'
               /\ (\A q \in Scripts : Named(q))'
    <2>1. ~disturbed /\ Scripts = {} /\ Live \subseteq {pidFile}
      BY <1>2 DEF Begin, ControlIInv
    <2>2. Scripts' \subseteq {o}
      BY <2>1 DEF Begin, ControlIInv, ControlTypeOK, Scripts
    <2>3. Live' = Live /\ pidFile' = pidFile /\ pc'[o] \in {"start", "stop"}
      BY DEF Begin, ControlIInv, ControlTypeOK, Live
    <2> QED
      BY <2>1, <2>2, <2>3 DEF Named
  <1> QED
    BY <1>1, <1>2 DEF ControlIInv

\* Whatever happens to processes keeps the invariant: only start.sh makes one
\* of the application's.
LEMMA ProcessIInv ==
    ASSUME ControlIInv, NEW p \in Pids, ProcessStep(p)
    PROVE  ControlIInv'
  <1> USE DEF ProcessStep, Bind, PortTaken, Exit, Reap, OtherStarts, Becomes
  <1>1. UNCHANGED <<pidFile, pc, seen, waited, disturbed>>
    BY DEF scriptVars
  <1>2. ControlTypeOK'
    BY <1>1 DEF ControlIInv, ControlTypeOK, ProcessStates
  <1>3. Live' \subseteq Live
    BY DEF ControlIInv, ControlTypeOK, Live
  <1>4. Scripts' = Scripts
    BY <1>1 DEF Scripts
  <1>5. \A o \in Operators : Named(o) => Named(o)'
    BY <1>1, <1>3 DEF Named
  <1> QED
    BY <1>1, <1>2, <1>3, <1>4, <1>5 DEF ControlIInv, Scripts

\* Every step keeps the invariant.
LEMMA ControlStepIInv == ControlIInv /\ [ControlNext]_controlVars => ControlIInv'
  <1> SUFFICES ASSUME ControlIInv, [ControlNext]_controlVars
               PROVE  ControlIInv'
    OBVIOUS
  <1>1. CASE UNCHANGED controlVars
    BY <1>1 DEF controlVars, scriptVars, ControlIInv, ControlTypeOK, Scripts, Live, Named
  <1>2. CASE ControlNext
    BY <1>2, BeginIInv, StartIInv, StopIInv, ProcessIInv DEF ControlNext
  <1> QED
    BY <1>1, <1>2

-----------------------------------------------------------------------------
(* Theorems.                                                               *)

\* With one script at a time, the pid file names the live process of the
\* application whenever no script runs.
THEOREM ControlInductive == ControlSpec => []ControlIInv
  <1> QED
    BY ControlInitIInv, ControlStepIInv, PTL DEF ControlSpec

\* A stop.sh that ends with success leaves no live process.
LEMMA StopIsStop ==
    ASSUME ControlIInv, [ControlNext]_controlVars, NEW o \in Operators,
           StopSucceeds(o), ~disturbed
    PROVE  Live' = {}
  <1> USE DEF ControlIInv, ControlTypeOK
  <1>1. (StopCheck(o) /\ pidFile = NoFile) \/ StopRemove(o)
    BY DEF StopSucceeds, ControlNext, controlVars, scriptVars, Begin, StartStep, StopStep, StartCheck, Cat,
           StartProbe, StartRemove, Launch, LaunchFails, Truncate, Write, StopCheck,
           StopProbe, Terminate, HasEnded, Sleep, TimeIsUp, Kill, StopRemove, Goto, GotoWith, Forget,
           ProcessStep, Bind, PortTaken, Exit, Reap, OtherStarts, Becomes
  <1>2. pc[o] # "idle"
    BY <1>1 DEF StopCheck, StopRemove
  <1>3. Named(o)
    BY <1>2, NamedHere
  <1>4. Live' = Live
    BY <1>1 DEF StopCheck, StopRemove, Live
  <1>5. CASE StopCheck(o) /\ pidFile = NoFile
    BY <1>3, <1>4, <1>5, ControlAssumption DEF StopCheck, Named, Live
  <1>6. CASE StopRemove(o)
    BY <1>3, <1>4, <1>6 DEF StopRemove, Named
  <1> QED
    BY <1>1, <1>5, <1>6

\* stop.sh stops the application, whatever crashed, hung or took over a pid
\* before, unless two scripts ran at once.
THEOREM StopIsReliable == ControlSpec => StopStops
  <1>1. ControlIInv /\ [ControlNext]_controlVars
        => [\A o \in Operators : StopSucceeds(o) => disturbed \/ Live' = {}]_controlVars
    BY StopIsStop
  <1> QED
    BY <1>1, ControlInductive, PTL DEF ControlSpec, StopStops

\* Installs and pages do nothing to pid file and processes.
LEMMA DeployStepIsControlStep == [DeployNext]_deployVars => [ControlNext]_controlVars
  BY DEF DeployNext, deployVars, RunScript, ScriptStep, Process, RunInstall, InstallCut,
         InstallStep, ShowPage, ControlNext

\* A deployment runs its scripts and processes as ControlSpec says.
THEOREM DeploymentIsControlled == DeploySpec => ControlSpec
  <1>1. DeployInit => ControlInit
    BY DEF DeployInit
  <1> QED
    BY <1>1, DeployStepIsControlStep, PTL DEF DeploySpec, ControlSpec

\* So stop.sh stops the application of a deployment.
THEOREM DeploymentStops == DeploySpec => StopStops
  <1> QED
    BY DeploymentIsControlled, StopIsReliable, PTL

-----------------------------------------------------------------------------
(* The operations on the database file.                                    *)

Ops == {Table(name) : name \in Tables} \cup {Index(name) : name \in IndexNames} \cup {Stamp}

\* The operations that make a table and its indexes.
Making(name) ==
    IF name = "raw_messages"
    THEN {Table(name), Index("ix_raw_messages_parse_status"),
          Index("ix_raw_messages_received_at")}
    ELSE {Table(name), Index("ix_parsed_tr_code_date"), Index("ix_parsed_transmit_date"),
          Index("ix_parsed_raw_message_id")}

\* What is left of a row of operations once the first of it is done.
LEMMA RestIs ==
    ASSUME NEW todos \in Seq(Ops), NEW k \in Steps(todos)
    PROVE  /\ Len(todos) \in Nat
           /\ Rest(todos, k) = <<>> => k = Len(todos) + 1
           /\ Rest(todos, k) # <<>> => /\ k \in 1..Len(todos)
                                       /\ k + 1 \in Steps(todos)
                                       /\ Head(Rest(todos, k)) = todos[k]
                                       /\ Tail(Rest(todos, k)) = Rest(todos, k + 1)
  <1>1. todos \in Seq(Ops) /\ Len(todos) \in Nat
    OBVIOUS
  <1>2. CASE k = Len(todos) + 1
    <2>1. Rest(todos, k) = <<>>
      BY <1>1, <1>2, SubSeqEmpty DEF Rest
    <2> QED
      BY <1>1, <1>2, <2>1
  <1>3. CASE k # Len(todos) + 1
    <2>1. k \in 1..Len(todos) /\ Len(todos) \in k..Len(todos) /\ k + 1 \in Steps(todos)
      BY <1>1, <1>3 DEF Steps
    <2>2. Head(Rest(todos, k)) = todos[k] /\ Tail(Rest(todos, k)) = Rest(todos, k + 1)
      BY <1>1, <2>1, HeadTailOfSubSeq DEF Rest
    <2>3. Len(Rest(todos, k)) = Len(todos) - k + 1
      <3>1. \A i \in k..Len(todos) : todos[i] \in Ops
        BY <1>1, <2>1
      <3>2. k \in Int /\ Len(todos) \in Int /\ k <= Len(todos)
        BY <1>1, <2>1
      <3> QED
        BY <3>1, <3>2, SubSeqProperties DEF Rest
    <2>4. Rest(todos, k) # <<>>
      BY <1>1, <2>1, <2>3
    <2> QED
      BY <1>1, <2>1, <2>2, <2>4
  <1> QED
    BY <1>2, <1>3

\* The two rows of operations.
LEMMA RowsAre ==
    /\ RawMessages \in Seq(Ops) /\ ParsedMessages \in Seq(Ops) /\ <<>> \in Seq(Ops)
    /\ \A j \in 1..Len(RawMessages) : RawMessages[j].op # "stamp"
    /\ \A j \in 1..Len(ParsedMessages) : ParsedMessages[j].op # "stamp"
    /\ \A todo \in Making("raw_messages") : \E j \in 1..Len(RawMessages) : RawMessages[j] = todo
    /\ \A todo \in Making("parsed_messages") :
          \E j \in 1..Len(ParsedMessages) : ParsedMessages[j] = todo
  <1>1. /\ RawMessages \in Seq(Ops) /\ Len(RawMessages) = 3
        /\ RawMessages[1] = Table("raw_messages")
        /\ RawMessages[2] = Index("ix_raw_messages_parse_status")
        /\ RawMessages[3] = Index("ix_raw_messages_received_at")
    BY DEF RawMessages, Ops, Tables, IndexNames
  <1>2. /\ ParsedMessages \in Seq(Ops) /\ Len(ParsedMessages) = 4
        /\ ParsedMessages[1] = Table("parsed_messages")
        /\ ParsedMessages[2] = Index("ix_parsed_tr_code_date")
        /\ ParsedMessages[3] = Index("ix_parsed_transmit_date")
        /\ ParsedMessages[4] = Index("ix_parsed_raw_message_id")
    BY DEF ParsedMessages, Ops, Tables, IndexNames
  <1>3. \A j \in 1..3 : RawMessages[j].op # "stamp"
    BY <1>1 DEF Table, Index
  <1>4. \A j \in 1..4 : ParsedMessages[j].op # "stamp"
    BY <1>2 DEF Table, Index
  <1>5. \A todo \in Making("raw_messages") : \E j \in 1..3 : RawMessages[j] = todo
    BY <1>1 DEF Making
  <1>6. \A todo \in Making("parsed_messages") : \E j \in 1..4 : ParsedMessages[j] = todo
    BY <1>2 DEF Making
  <1> QED
    BY <1>1, <1>2, <1>3, <1>4, <1>5, <1>6

\* Two rows one after the other.
LEMMA RowsJoined ==
    ASSUME NEW s \in Seq(Ops), NEW t \in Seq(Ops)
    PROVE  /\ s \o t \in Seq(Ops)
           /\ Len(s \o t) = Len(s) + Len(t) /\ Len(s) \in Nat /\ Len(t) \in Nat
           /\ \A j \in 1..Len(s) : j \in 1..Len(s \o t) /\ (s \o t)[j] = s[j]
           /\ \A j \in 1..Len(t) : Len(s) + j \in 1..Len(s \o t) /\ (s \o t)[Len(s) + j] = t[j]
           /\ \A j \in 1..Len(s \o t) : \/ j \in 1..Len(s)
                                        \/ j - Len(s) \in 1..Len(t) /\ j = Len(s) + (j - Len(s))
  <1> DEFINE m == Len(s)
             n == Len(t)
             u == s \o t
  <1>1. m \in Nat /\ n \in Nat
    OBVIOUS
  <1>2. /\ u \in Seq(Ops) /\ Len(u) = m + n
        /\ \A j \in 1..(m + n) : u[j] = IF j <= m THEN s[j] ELSE t[j - m]
    BY ConcatProperties
  <1> HIDE DEF m, n, u
  <1>3. /\ \A j \in 1..m : j \in 1..(m + n) /\ u[j] = s[j]
        /\ \A j \in 1..n : m + j \in 1..(m + n) /\ u[m + j] = t[j]
        /\ \A j \in 1..(m + n) : j \in 1..m \/ (j - m \in 1..n /\ j = m + (j - m))
    BY <1>1, <1>2
  <1> QED
    BY <1>1, <1>2, <1>3 DEF m, n, u

\* create_all makes the missing tables, each with its indexes.
LEMMA CreatesAre ==
    ASSUME NEW names \in SUBSET Tables
    PROVE  /\ Creates(names) \in Seq(Ops)
           /\ \A j \in 1..Len(Creates(names)) : Creates(names)[j].op # "stamp"
           /\ \A name \in names : \A todo \in Making(name) :
                 \E j \in 1..Len(Creates(names)) : Creates(names)[j] = todo
  <1> DEFINE s == IF "raw_messages" \in names THEN RawMessages ELSE <<>>
             t == IF "parsed_messages" \in names THEN ParsedMessages ELSE <<>>
  <1>1. Creates(names) = s \o t
    BY DEF Creates
  <1>2. /\ s \in Seq(Ops)
        /\ \A j \in 1..Len(s) : s[j].op # "stamp"
        /\ "raw_messages" \in names => \A todo \in Making("raw_messages") :
               \E j \in 1..Len(s) : s[j] = todo
    BY RowsAre
  <1>3. /\ t \in Seq(Ops)
        /\ \A j \in 1..Len(t) : t[j].op # "stamp"
        /\ "parsed_messages" \in names => \A todo \in Making("parsed_messages") :
               \E j \in 1..Len(t) : t[j] = todo
    BY RowsAre
  <1> HIDE DEF s, t
  <1> DEFINE u == s \o t
  <1>4. /\ u \in Seq(Ops)
        /\ \A j \in 1..Len(s) : j \in 1..Len(u) /\ u[j] = s[j]
        /\ \A j \in 1..Len(t) : Len(s) + j \in 1..Len(u) /\ u[Len(s) + j] = t[j]
        /\ \A j \in 1..Len(u) : j \in 1..Len(s) \/ (j - Len(s) \in 1..Len(t) /\ j = Len(s) + (j - Len(s)))
    BY <1>2, <1>3, RowsJoined
  <1> HIDE DEF u
  <1>5. ASSUME NEW j \in 1..Len(u)
        PROVE  u[j].op # "stamp"
    <2>1. CASE j \in 1..Len(s)
      BY <2>1, <1>2, <1>4
    <2>2. CASE j - Len(s) \in 1..Len(t) /\ j = Len(s) + (j - Len(s))
      <3>1. u[j] = t[j - Len(s)]
        BY <2>2, <1>4
      <3> QED
        BY <2>2, <3>1, <1>3
    <2> QED
      BY <2>1, <2>2, <1>4
  <1>6. ASSUME NEW name \in names, NEW todo \in Making(name)
        PROVE  \E j \in 1..Len(u) : u[j] = todo
    <2>1. CASE name = "raw_messages"
      BY <2>1, <1>2, <1>4, <1>6
    <2>2. CASE name = "parsed_messages"
      <3>1. PICK j \in 1..Len(t) : t[j] = todo
        BY <2>2, <1>3, <1>6
      <3> QED
        BY <3>1, <1>4
    <2> QED
      BY <2>1, <2>2 DEF Tables
  <1> QED
    BY <1>1, <1>4, <1>5, <1>6 DEF u

\* The revision makes both tables with their indexes, and then stamps the file.
LEMMA RevisionIs ==
    /\ Revision \in Seq(Ops)
    /\ \A j \in 1..Len(Revision) : Revision[j].op = "stamp" => j = Len(Revision)
    /\ \A name \in Tables : \A todo \in Making(name) :
          \E j \in 1..(Len(Revision) - 1) : Revision[j] = todo
  <1> DEFINE s == Creates(Tables)
             t == <<Stamp>>
             u == s \o t
  <1>1. /\ s \in Seq(Ops)
        /\ \A j \in 1..Len(s) : s[j].op # "stamp"
        /\ \A name \in Tables : \A todo \in Making(name) : \E j \in 1..Len(s) : s[j] = todo
    BY CreatesAre
  <1>2. t \in Seq(Ops) /\ Len(t) = 1 /\ t[1] = Stamp
    BY DEF Ops
  <1> HIDE DEF s, t
  <1>4. /\ u \in Seq(Ops)
        /\ Len(u) = Len(s) + Len(t) /\ Len(s) \in Nat
        /\ \A j \in 1..Len(s) : j \in 1..Len(u) /\ u[j] = s[j]
        /\ \A j \in 1..Len(u) : j \in 1..Len(s) \/ (j - Len(s) \in 1..Len(t) /\ j = Len(s) + (j - Len(s)))
    BY <1>1, <1>2, RowsJoined
  <1> HIDE DEF u
  <1>5. Len(u) = Len(s) + 1
    BY <1>2, <1>4
  <1>6. \A j \in 1..Len(u) : u[j].op = "stamp" => j = Len(u)
    BY <1>1, <1>2, <1>4, <1>5
  <1>7. \A name \in Tables : \A todo \in Making(name) :
           \E j \in 1..(Len(u) - 1) : u[j] = todo
    BY <1>1, <1>4, <1>5
  <1> QED
    BY <1>4, <1>6, <1>7 DEF Revision, u, s, t

\* What is done stays done: nothing is dropped from the file.
LEMMA StaysPast ==
    ASSUME NEW todos, NEW k, Past(todos, k), tables \subseteq tables', indexed \subseteq indexed'
    PROVE  Past(todos, k)'
  BY DEF Past, Done

\* An operation that succeeds adds to the file what it makes.
LEMMA DoAdds ==
    ASSUME DbTypeOK, NEW todos \in Seq(Ops), NEW k \in 1..Len(todos), Past(todos, k),
           Do(todos[k])
    PROVE  /\ tables \subseteq tables' /\ tables' \subseteq Tables
           /\ indexed \subseteq indexed' /\ indexed' \subseteq IndexNames
           /\ stamped' = (stamped \/ todos[k].op = "stamp")
           /\ Past(todos, k + 1)'
  <1>1. Len(todos) \in Nat /\ todos[k] \in Ops
    OBVIOUS
  <1>2. tables \subseteq tables' /\ indexed \subseteq indexed'
        /\ stamped' = (stamped \/ todos[k].op = "stamp")
    BY DEF Do
  <1>3. Done(todos[k])'
    BY DEF Do, Done
  <1>4. Past(todos, k)'
    BY <1>2, StaysPast
  <1>5. Past(todos, k + 1)'
    <2>1. \A j \in 1..((k + 1) - 1) : j = k \/ j \in 1..(k - 1)
      BY <1>1
    <2> QED
      BY <1>3, <1>4, <2>1 DEF Past
  <1>6. tables' \subseteq Tables /\ indexed' \subseteq IndexNames
    BY <1>1 DEF Do, DbTypeOK, Ops, Table, Index, Stamp
  <1> QED
    BY <1>2, <1>5, <1>6

\* What makes the tables and their indexes, once done, has made them.
LEMMA MakingMakes ==
    ASSUME NEW names \in SUBSET Tables,
           \A name \in names : \A todo \in Making(name) : Done(todo)
    PROVE  names \subseteq tables /\ (names = Tables => IndexNames \subseteq indexed)
  <1>1. ASSUME NEW name \in names
        PROVE  name \in tables
    <2>1. Table(name) \in Making(name)
      BY DEF Making
    <2> QED
      BY <2>1 DEF Done, Table
  <1>2. ASSUME names = Tables, NEW ix \in IndexNames
        PROVE  ix \in indexed
    <2>1. Index(ix) \in Making("raw_messages") \cup Making("parsed_messages")
      BY DEF Making, IndexNames
    <2>2. "raw_messages" \in names /\ "parsed_messages" \in names
      BY <1>2 DEF Tables
    <2>3. Done(Index(ix))
      BY <2>1, <2>2
    <2> QED
      BY <2>3 DEF Done, Index
  <1> QED
    BY <1>1, <1>2

\* A row of operations that is done has made the tables.
LEMMA PastMakes ==
    ASSUME NEW names \in SUBSET Tables, Past(Creates(names), Len(Creates(names)) + 1)
    PROVE  names \subseteq tables
  <1> DEFINE C == Creates(names)
  <1>1. /\ Len(C) \in Nat
        /\ \A name \in names : \A todo \in Making(name) : \E j \in 1..Len(C) : C[j] = todo
    BY CreatesAre
  <1>2. \A j \in 1..Len(C) : Done(C[j])
    BY <1>1 DEF Past
  <1>3. \A name \in names : \A todo \in Making(name) : Done(todo)
    BY <1>1, <1>2
  <1> QED
    BY <1>3, MakingMakes

\* Nothing of an empty row is left, and nothing is done of one not begun.
LEMMA RowStarts ==
    ASSUME NEW todos \in Seq(Ops)
    PROVE  /\ 1 \in Steps(todos) /\ Rest(todos, 1) = todos /\ Past(todos, 1)
           /\ Len(todos) + 1 \in Steps(todos) /\ Rest(todos, Len(todos) + 1) = <<>>
  <1>1. todos \in Seq(Ops) /\ Len(todos) \in Nat
    OBVIOUS
  <1>2. Rest(todos, 1) = todos
    BY <1>1, SubSeqFull DEF Rest
  <1>3. Rest(todos, Len(todos) + 1) = <<>>
    BY <1>1, SubSeqEmpty DEF Rest
  <1> QED
    BY <1>1, <1>2, <1>3 DEF Steps, Past

-----------------------------------------------------------------------------
(* The invariant of the database file.                                     *)

\* An empty file, and nobody at work on it.
LEMMA DbInitIInv == DbInit => DbIInv
  <1> SUFFICES ASSUME DbInit
               PROVE  DbIInv
    OBVIOUS
  <1>1. UpgradeOnItsWay
    BY RevisionIs, RowStarts DEF DbInit, NotRunning, UpgradeOnItsWay
  <1>2. CreateOnItsWay
    <2>1. Creates({}) \in Seq(Ops)
      BY CreatesAre
    <2> QED
      BY <2>1, RowStarts DEF DbInit, CreateOnItsWay
  <1> QED
    BY <1>1, <1>2 DEF DbInit, DbIInv, DbTypeOK, TablesWhole

\* The upgrade does what it has to do next.
LEMMA UpgradeStepIInv ==
    ASSUME DbIInv, UpgradeStep
    PROVE  DbIInv'
  <1>1. PICK k \in Steps(Revision) :
            upgrade = Rest(Revision, k) /\ (upgrade = NotRunning \/ Past(Revision, k))
    BY DEF DbIInv, UpgradeOnItsWay
  <1>2. Revision \in Seq(Ops) /\ Past(Revision, k) /\ Rest(Revision, k) # <<>>
    BY <1>1, RevisionIs DEF UpgradeStep, NotRunning
  <1>3. /\ k \in 1..Len(Revision) /\ k + 1 \in Steps(Revision) /\ Len(Revision) \in Nat
        /\ Do(Revision[k]) /\ upgrade' = Rest(Revision, k + 1)
    BY <1>1, <1>2, RestIs DEF UpgradeStep
  <1>4. /\ tables \subseteq tables' /\ tables' \subseteq Tables
        /\ indexed \subseteq indexed' /\ indexed' \subseteq IndexNames
        /\ stamped' = (stamped \/ Revision[k].op = "stamp")
        /\ Past(Revision, k + 1)'
    BY <1>2, <1>3, DoAdds DEF DbIInv
  <1>5. UNCHANGED <<missing, engine>>
    BY DEF UpgradeStep
  <1>6. Revision[k].op = "stamp" => tables = Tables /\ indexed = IndexNames
    <2> SUFFICES ASSUME Revision[k].op = "stamp"
                 PROVE  Tables \subseteq tables /\ IndexNames \subseteq indexed
      BY DEF DbIInv, DbTypeOK
    <2>1. k = Len(Revision)
      BY <1>3, RevisionIs
    <2>2. \A name \in Tables : \A todo \in Making(name) : Done(todo)
      BY <1>2, <2>1, RevisionIs DEF Past
    <2> QED
      BY <2>2, MakingMakes
  <1>7. DbTypeOK' /\ TablesWhole'
    BY <1>4, <1>5, <1>6 DEF DbIInv, DbTypeOK, TablesWhole
  <1>8. UpgradeOnItsWay'
    BY <1>3, <1>4 DEF UpgradeOnItsWay
  <1>9. CreateOnItsWay'
    BY <1>4, <1>5, StaysPast DEF DbIInv, CreateOnItsWay
  <1> QED
    BY <1>7, <1>8, <1>9 DEF DbIInv

\* create_all does what it has to do next.
LEMMA CreateStepIInv ==
    ASSUME DbIInv, CreateStep
    PROVE  DbIInv'
  <1>0. PICK names \in SUBSET Tables : \E k \in Steps(Creates(names)) :
            /\ missing = Rest(Creates(names), k)
            /\ engine = "creating" => Past(Creates(names), k) /\ Tables \ names \subseteq tables
    BY DEF DbIInv, CreateOnItsWay
  <1>1. PICK k \in Steps(Creates(names)) :
            /\ missing = Rest(Creates(names), k)
            /\ engine = "creating" => Past(Creates(names), k) /\ Tables \ names \subseteq tables
    BY <1>0
  <1> DEFINE C == Creates(names)
  <1>2. C \in Seq(Ops) /\ Past(C, k) /\ Rest(C, k) # <<>>
    BY <1>1, CreatesAre DEF CreateStep
  <1>3. k \in 1..Len(C) /\ k + 1 \in Steps(C) /\ Do(C[k]) /\ missing' = Rest(C, k + 1)
    <2> HIDE DEF C
    <2> QED
      BY <1>1, <1>2, RestIs DEF CreateStep, C
  <1>4. C[k].op # "stamp"
    BY <1>3, CreatesAre
  <1>5. /\ tables \subseteq tables' /\ tables' \subseteq Tables
        /\ indexed \subseteq indexed' /\ indexed' \subseteq IndexNames
        /\ stamped' = stamped
        /\ Past(C, k + 1)'
    <2> HIDE DEF C
    <2>1. /\ tables \subseteq tables' /\ tables' \subseteq Tables
          /\ indexed \subseteq indexed' /\ indexed' \subseteq IndexNames
          /\ stamped' = (stamped \/ C[k].op = "stamp")
          /\ Past(C, k + 1)'
      BY <1>2, <1>3, DoAdds DEF DbIInv
    <2> QED
      BY <2>1, <1>4 DEF DbIInv, DbTypeOK
  <1>6. UNCHANGED <<upgrade, engine>> /\ engine = "creating"
    BY DEF CreateStep
  <1>7. DbTypeOK' /\ TablesWhole'
    BY <1>5, <1>6 DEF DbIInv, DbTypeOK, TablesWhole
  <1>8. UpgradeOnItsWay'
    BY <1>5, <1>6, StaysPast DEF DbIInv, UpgradeOnItsWay
  <1>9. CreateOnItsWay'
    BY <1>1, <1>3, <1>5, <1>6 DEF CreateOnItsWay
  <1> QED
    BY <1>7, <1>8, <1>9 DEF DbIInv

\* The engine is cached only when create_all has come to its end.
LEMMA CacheEngineIInv ==
    ASSUME DbIInv, CacheEngine
    PROVE  DbIInv'
  <1>0. PICK names \in SUBSET Tables : \E k \in Steps(Creates(names)) :
            /\ missing = Rest(Creates(names), k)
            /\ engine = "creating" => Past(Creates(names), k) /\ Tables \ names \subseteq tables
    BY DEF DbIInv, CreateOnItsWay
  <1>1. PICK k \in Steps(Creates(names)) :
            /\ missing = Rest(Creates(names), k)
            /\ engine = "creating" => Past(Creates(names), k) /\ Tables \ names \subseteq tables
    BY <1>0
  <1>2. Creates(names) \in Seq(Ops)
    BY CreatesAre
  <1>3. k = Len(Creates(names)) + 1
    BY <1>1, <1>2, RestIs DEF CacheEngine
  <1>4. names \subseteq tables /\ Tables \ names \subseteq tables
    BY <1>1, <1>3, PastMakes DEF CacheEngine
  <1>5. tables = Tables
    BY <1>4 DEF DbIInv, DbTypeOK
  <1>6. UNCHANGED <<fileVars, upgrade, missing>> /\ engine' = "cached"
    BY DEF CacheEngine
  <1>7. DbTypeOK' /\ TablesWhole'
    BY <1>5, <1>6 DEF fileVars, DbIInv, DbTypeOK, TablesWhole
  <1>8. UpgradeOnItsWay' /\ CreateOnItsWay'
    BY <1>6 DEF fileVars, DbIInv, UpgradeOnItsWay, CreateOnItsWay, Past, Done
  <1> QED
    BY <1>7, <1>8 DEF DbIInv

\* Somebody starts, fails or gives up: the file stays as it is.
LEMMA FileIInv ==
    ASSUME DbIInv, UNCHANGED fileVars,
           \/ UNCHANGED upgrade
           \/ upgrade' \in {Revision, NotRunning},
           \/ UNCHANGED <<missing, engine>>
           \/ missing' = <<>> /\ engine' = "none"
           \/ missing' = Creates(Missing) /\ engine' = "creating"
    PROVE  DbIInv'
  <1> USE DEF fileVars
  <1>1. \A todos, k : Past(todos, k) => Past(todos, k)'
    BY DEF Past, Done
  <1>2. DbTypeOK' /\ TablesWhole'
    BY DEF DbIInv, DbTypeOK, TablesWhole
  <1>3. UpgradeOnItsWay'
    <2>1. CASE UNCHANGED upgrade
      BY <2>1, <1>1 DEF DbIInv, UpgradeOnItsWay
    <2>2. CASE upgrade' = Revision
      BY <2>2, <1>1, RevisionIs, RowStarts DEF UpgradeOnItsWay
    <2>3. CASE upgrade' = NotRunning
      BY <2>3, RevisionIs, RowStarts DEF UpgradeOnItsWay, NotRunning
    <2> QED
      BY <2>1, <2>2, <2>3
  <1>4. CreateOnItsWay'
    <2>1. CASE UNCHANGED <<missing, engine>>
      BY <2>1, <1>1 DEF DbIInv, CreateOnItsWay
    <2>2. CASE missing' = <<>> /\ engine' = "none"
      <3>1. Creates({}) \in Seq(Ops)
        BY CreatesAre
      <3> QED
        BY <2>2, <3>1, RowStarts DEF CreateOnItsWay
    <2>3. CASE missing' = Creates(Missing) /\ engine' = "creating"
      <3>1. Missing \in SUBSET Tables /\ Tables \ Missing \subseteq tables'
        BY DEF Missing, DbIInv, DbTypeOK
      <3>2. PICK names \in SUBSET Tables : names = Missing
        BY <3>1
      <3>3. Creates(names) \in Seq(Ops)
        BY CreatesAre
      <3>4. /\ 1 \in Steps(Creates(names)) /\ missing' = Rest(Creates(names), 1)
            /\ Past(Creates(names), 1)' /\ Tables \ names \subseteq tables'
        BY <2>3, <3>1, <3>2, <3>3, <1>1, RowStarts
      <3> QED
        BY <3>4 DEF CreateOnItsWay
    <2> QED
      BY <2>1, <2>2, <2>3
  <1> QED
    BY <1>2, <1>3, <1>4 DEF DbIInv

\* Every step of an upgrade, a page or a process that ends keeps it.
LEMMA DbStepIInv ==
    ASSUME DbIInv,
           \/ UpgradeStart \/ UpgradeStep \/ UpgradeFails \/ UpgradeCut
           \/ PageStep \/ ForgetEngine
           \/ UNCHANGED dbVars
    PROVE  DbIInv'
  <1>1. CASE UpgradeStep
    BY <1>1, UpgradeStepIInv
  <1>2. CASE CreateStep
    BY <1>2, CreateStepIInv
  <1>3. CASE CacheEngine
    BY <1>3, CacheEngineIInv
  <1>4. CASE UpgradeStart \/ UpgradeFails \/ UpgradeCut
    <2>1. UNCHANGED fileVars /\ upgrade' \in {Revision, NotRunning} /\ UNCHANGED <<missing, engine>>
      BY <1>4 DEF UpgradeStart, UpgradeFails, UpgradeCut
    <2> QED
      BY <2>1, FileIInv
  <1>5. CASE CreateFails \/ ForgetEngine
    <2>1. UNCHANGED fileVars /\ UNCHANGED upgrade /\ missing' = <<>> /\ engine' = "none"
      BY <1>5 DEF CreateFails, ForgetEngine
    <2> QED
      BY <2>1, FileIInv
  <1>6. CASE OpenDatabase
    <2>1. UNCHANGED fileVars /\ UNCHANGED upgrade /\ missing' = Creates(Missing) /\ engine' = "creating"
      BY <1>6 DEF OpenDatabase
    <2> QED
      BY <2>1, FileIInv
  <1>7. CASE UNCHANGED dbVars
    <2>1. UNCHANGED fileVars /\ UNCHANGED upgrade /\ UNCHANGED <<missing, engine>>
      BY <1>7 DEF dbVars, fileVars
    <2> QED
      BY <2>1, FileIInv
  <1> QED
    BY <1>1, <1>2, <1>3, <1>4, <1>5, <1>6, <1>7 DEF PageStep

\* Every step of a deployment keeps both invariants.
LEMMA DeployStepIInv == DeployIInv /\ [DeployNext]_deployVars => DeployIInv'
  <1> SUFFICES ASSUME DeployIInv, [DeployNext]_deployVars
               PROVE  DeployIInv'
    OBVIOUS
  <1>1. ControlIInv'
    BY DeployStepIsControlStep, ControlStepIInv DEF DeployIInv
  <1>2. \/ UpgradeStart \/ UpgradeStep \/ UpgradeFails \/ UpgradeCut
        \/ PageStep \/ ForgetEngine
        \/ UNCHANGED dbVars
    BY DEF DeployNext, deployVars, RunScript, ScriptStep, Process, WithEngine, RunInstall,
           InstallCut, InstallStep, ShowPage
  <1>3. DbIInv'
    BY <1>2, DbStepIInv DEF DeployIInv
  <1> QED
    BY <1>1, <1>3 DEF DeployIInv

\* The invariant of a deployment holds: what the scripts know of the process,
\* and what upgrades and create_all have made of the file.
THEOREM DeployInductive == DeploySpec => []DeployIInv
  <1>1. DeployInit => DeployIInv
    BY ControlInitIInv, DbInitIInv DEF DeployInit, DeployIInv
  <1> QED
    BY <1>1, DeployStepIInv, PTL DEF DeploySpec

\* A page that has its engine finds both tables, and a file with a revision
\* has them with all their indexes, whoever created what and was cut short.
THEOREM TablesAreWhole == DeploySpec => []TablesWhole
  <1>1. DeployIInv => TablesWhole
    BY DEF DeployIInv, DbIInv
  <1> QED
    BY <1>1, DeployInductive, PTL
=============================================================================

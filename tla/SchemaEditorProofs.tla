------------------------- MODULE SchemaEditorProofs -------------------------
(***************************************************************************)
(* Proofs about SchemaEditor.  For any number of sessions: the types.  For *)
(* sessions of which no two edit the same code, however many there are:    *)
(* the schema directory changes one whole entry at a time, a save or a     *)
(* delete that was begun is not disturbed, and the cached registry goes    *)
(* stale only by a load that lost its lock to a clear().  For one session, *)
(* which overtakes nobody's load: the cached registry is what is on disk.  *)
(***************************************************************************)
EXTENDS SchemaEditor, TLAPS

Saving(s) == pc[s] \in {"open", "write", "replace"}

Working(s) == Saving(s) \/ pc[s] \in {"unlink", "clear"}

\* What a session knows while it saves or deletes.
TaskOk(s) ==
    /\ Working(s) => Target(s) \in MayEdit[s]
    /\ Saving(s) => task[s].text \in Texts
    /\ fd[s] # Absent <=> pc[s] = "write"

EditorTypes == TypeOK /\ \A s \in Sessions : TaskOk(s)

\* The editor starts with its types.
LEMMA InitTypes == Init => EditorTypes
BY EditorAssumption
   DEF Init, EditorTypes, TypeOK, TaskOk, Saving, Working, Contents, PcValues,
       Registries, Nothing, NoTask

\* The end of a script keeps the types.
LEMMA EndTypes ==
    ASSUME EditorTypes, NEW s \in Sessions, NEW where \in {"idle", "failed"},
           End(s, where)
    PROVE  /\ pc' \in [Sessions -> PcValues]
           /\ task' \in [Sessions -> [code: Codes \cup {Absent}, text: Texts \cup {Absent}]]
           /\ fd' \in [Sessions -> Inodes \cup {Absent}]
           /\ \A t \in Sessions : TaskOk(t)'
BY DEF End, Goto, EditorTypes, TypeOK, TaskOk, Saving, Working, Target, NoTask, PcValues

\* A step of the load that leaves the files and the tasks alone.
LEMMA LoadTypes ==
    ASSUME EditorTypes, NEW s \in Sessions,
           UseCached(s) \/ StartLoad(s) \/ ReadFile(s) \/ LoadFails(s) \/ EndLoad(s)
             \/ BuildParser(s) \/ Leave(s),
           UNCHANGED crashes
    PROVE  EditorTypes'
<1> USE DEF EditorTypes, TypeOK, files, work, loading, caches, Goto
<1> DEFINE ReadText(t, c) == /\ OnDisk[c] \in Texts \cup {Garbled}
                            /\ seen' = [seen EXCEPT ![t][c] = OnDisk[c]]
<1>1. /\ pc' \in [Sessions -> PcValues]
      /\ \A t \in Sessions : TaskOk(t)'
  <2>1. \/ UNCHANGED pc
        \/ /\ pc[s] \in {"idle", "failed", "load", "ready"}
           /\ \E where \in {"idle", "failed", "load", "ready"} : Goto(s, where)
    BY DEF UseCached, StartLoad, ReadFile, LoadFails, EndLoad, BuildParser, Leave, Resting,
       Reads
  <2>2. UNCHANGED <<task, fd>>
    BY DEF UseCached, StartLoad, ReadFile, LoadFails, EndLoad, BuildParser, Leave
  <2> QED
    BY <2>1, <2>2 DEF PcValues, TaskOk, Saving, Working, Target
<1>2. listed' \in [Sessions -> SUBSET Codes]
  BY DEF UseCached, StartLoad, ReadFile, LoadFails, EndLoad, BuildParser, Leave
<1>3. seen' \in [Sessions -> Registries]
  <2>1. Nothing \in Registries
    BY DEF Nothing, Registries
  <2>2. ASSUME NEW c \in Codes, OnDisk[c] \in Texts \cup {Garbled}
        PROVE  [seen EXCEPT ![s][c] = OnDisk[c]] \in [Sessions -> Registries]
    <3>1. [seen[s] EXCEPT ![c] = OnDisk[c]] \in Registries
      BY <2>2 DEF Registries
    <3> QED
      BY <3>1
  <2>3. \/ UNCHANGED seen
        \/ seen' = [seen EXCEPT ![s] = Nothing]
        \/ \E c \in listed[s] : ReadText(s, c)
    BY DEF UseCached, StartLoad, ReadFile, LoadFails, EndLoad, BuildParser, Leave
  <2>4. CASE \E c \in listed[s] : ReadText(s, c)
    <3>1. PICK c \in Codes : ReadText(s, c)
      BY <2>4
    <3> QED
      BY <2>2, <3>1
  <2>5. CASE UNCHANGED seen \/ seen' = [seen EXCEPT ![s] = Nothing]
    BY <2>1, <2>5
  <2> QED
    BY <2>3, <2>4, <2>5
<1>4. /\ registry' \in Registries \cup {Unset}
      /\ loader' \in Sessions \cup {Nobody}
      /\ parser' \in Registries \cup {Unset}
  BY DEF UseCached, StartLoad, ReadFile, LoadFails, EndLoad, BuildParser, Leave, Release
<1>5. UNCHANGED <<file, tmp, data, task, fd, crashes>>
  BY DEF UseCached, StartLoad, ReadFile, LoadFails, EndLoad, BuildParser, Leave
<1> QED
  BY <1>1, <1>2, <1>3, <1>4, <1>5

\* A step of a save.
LEMMA SaveTypes ==
    ASSUME EditorTypes, NEW s \in Sessions,
           (\E c \in Codes, text \in Texts : StartSave(s, c, text))
             \/ OpenTmp(s) \/ WriteTmp(s) \/ Replace(s) \/ ReplaceFails(s),
           UNCHANGED crashes
    PROVE  EditorTypes'
<1> USE DEF EditorTypes, TypeOK, files, work, loading, caches, Goto, TmpName
<1>0. Target(s) \in Codes \/ ~Working(s)
  BY EditorAssumption DEF TaskOk
<1>1. ASSUME NEW c \in Codes, NEW text \in Texts, StartSave(s, c, text)
      PROVE  EditorTypes'
  BY <1>1 DEF StartSave, TaskOk, Saving, Working, Target, PcValues
<1>2. CASE OpenTmp(s)
  <2>1. PICK i \in IF tmp[Target(s)] # Absent THEN {tmp[Target(s)]} ELSE NewInode :
           /\ tmp' = [tmp EXCEPT ![Target(s)] = i]
           /\ data' = [data EXCEPT ![i] = Empty]
           /\ fd' = [fd EXCEPT ![s] = i]
    BY <1>2 DEF OpenTmp
  <2>2. i \in Inodes
    BY <1>0, <1>2, <2>1 DEF OpenTmp, NewInode, Working, Saving
  <2>3. \A t \in Sessions : TaskOk(t)'
    BY <1>2, <2>1, <2>2, EditorAssumption DEF OpenTmp, TaskOk, Saving, Working, Target
  <2> QED
    BY <1>2, <2>1, <2>2, <2>3 DEF OpenTmp, PcValues, Contents
<1>3. CASE WriteTmp(s)
  <2>1. task[s].text \in Texts
    BY <1>3 DEF WriteTmp, TaskOk, Saving
  <2>2. data' \in [Inodes -> Contents]
    BY <1>3, <2>1 DEF WriteTmp, Overwrite, Contents
  <2>3. \A t \in Sessions : TaskOk(t)'
    BY <1>3 DEF WriteTmp, TaskOk, Saving, Working, Target
  <2> QED
    BY <1>3, <2>2, <2>3 DEF WriteTmp, PcValues
<1>4. CASE Replace(s)
  <2>1. \A t \in Sessions : TaskOk(t)'
    BY <1>4 DEF Replace, TaskOk, Saving, Working, Target
  <2>2. file' \in [Codes -> Inodes \cup {Absent}] /\ tmp' \in [Codes -> Inodes \cup {Absent}]
    BY <1>0, <1>4 DEF Replace, Working, Saving
  <2> QED
    BY <1>4, <2>1, <2>2 DEF Replace, PcValues
<1>5. CASE ReplaceFails(s)
  BY <1>5, EndTypes DEF ReplaceFails
<1> QED
  BY <1>1, <1>2, <1>3, <1>4, <1>5

\* A step of a delete, and the clear that ends both.
LEMMA DeleteTypes ==
    ASSUME EditorTypes, NEW s \in Sessions,
           (\E c \in Codes : StartDelete(s, c)) \/ Unlink(s) \/ UnlinkFails(s) \/ Clear(s),
           UNCHANGED crashes
    PROVE  EditorTypes'
<1> USE DEF EditorTypes, TypeOK, files, work, loading, caches, Goto
<1>1. ASSUME NEW c \in Codes, StartDelete(s, c) PROVE EditorTypes'
  <2>1. CASE UNCHANGED <<pc, task>>
    BY <1>1, <2>1 DEF StartDelete, TaskOk, Saving, Working, Target
  <2>2. CASE task' = [task EXCEPT ![s].code = c] /\ pc' = [pc EXCEPT ![s] = "unlink"]
    <3>1. task' \in [Sessions -> [code: Codes \cup {Absent}, text: Texts \cup {Absent}]]
          /\ task'[s].code = c
      BY <2>2
    <3>2. \A t \in Sessions : TaskOk(t)'
      BY <1>1, <2>2, <3>1 DEF StartDelete, TaskOk, Saving, Working, Target
    <3> QED
      BY <1>1, <2>2, <3>1, <3>2 DEF StartDelete, PcValues
  <2> QED
    BY <1>1, <2>1, <2>2 DEF StartDelete
<1>2. CASE Unlink(s)
  <2>1. \A t \in Sessions : TaskOk(t)'
    BY <1>2 DEF Unlink, TaskOk, Saving, Working, Target
  <2> QED
    BY <1>2, <2>1 DEF Unlink, PcValues
<1>3. CASE UnlinkFails(s) \/ Clear(s)
  BY <1>3, EndTypes DEF UnlinkFails, Clear
<1> QED
  BY <1>1, <1>2, <1>3

\* A restart keeps the files and forgets the sessions.
LEMMA CrashTypes == ASSUME EditorTypes, Crash PROVE EditorTypes'
BY EditorAssumption
   DEF EditorTypes, TypeOK, Crash, files, TaskOk, Saving, Working, Target, NoTask,
       PcValues, Registries, Nothing

\* Every step keeps the types.
LEMMA StepTypes == EditorTypes /\ [Next]_vars => EditorTypes'
<1>1. ASSUME EditorTypes, UNCHANGED vars PROVE EditorTypes'
  BY <1>1 DEF vars, files, work, loading, caches, EditorTypes, TypeOK, TaskOk, Saving,
     Working, Target
<1> QED
  BY <1>1, LoadTypes, SaveTypes, DeleteTypes, CrashTypes DEF Next, Step, Request, Proceed

\* The types, for the whole behaviour.
LEMMA TypesInductive == Spec => []EditorTypes
BY InitTypes, StepTypes, PTL DEF Spec

\* Every variable keeps its type, for any number of sessions that load, save
\* and delete at the same time.
THEOREM EditorTypeCorrect == Spec => []TypeOK
<1>1. EditorTypes => TypeOK
  BY DEF EditorTypes
<1> QED
  BY <1>1, TypesInductive, PTL

-----------------------------------------------------------------------------
(* No two sessions edit the same code.                                     *)

DisjointEdits ==
    \A s, t \in Sessions : s # t => MayEdit[s] \cap MayEdit[t] = {}

\* No inode has two names.
InodesDistinct ==
    \A c, d \in Codes :
        /\ file[c] = file[d] /\ file[c] # Absent => c = d
        /\ tmp[c] = tmp[d] /\ tmp[c] # Absent => c = d
        /\ file[c] = tmp[d] => file[c] = Absent

\* A schema file holds a whole text that passes validation.
FilesWhole == \A c \in Codes : file[c] # Absent => data[file[c]] \in Texts

\* The temporary file is the session's own until the rename, and holds the
\* text to save once it is written; a file to delete is there.
SaveOk(s) ==
    /\ pc[s] = "write" => fd[s] = tmp[Target(s)] /\ data[fd[s]] = Empty
    /\ pc[s] = "replace" => /\ tmp[Target(s)] # Absent
                            /\ data[tmp[Target(s)]] = task[s].text
    /\ pc[s] = "unlink" => file[Target(s)] # Absent

SavesOk == \A s \in Sessions : SaveOk(s)

FolderInv == EditorTypes /\ InodesDistinct /\ FilesWhole /\ SavesOk

\* At first no save is under way.
LEMMA InitFolder == Init => FolderInv
<1> SUFFICES ASSUME Init PROVE FolderInv
  OBVIOUS
<1>1. PICK f \in [Codes -> Inodes \cup {Absent}], t \in Texts :
         /\ \A c, d \in Codes : f[c] = f[d] /\ f[c] # Absent => c = d
         /\ file = f
         /\ data = [i \in Inodes |-> IF \E c \in Codes : f[c] = i THEN t ELSE Empty]
  BY DEF Init
<1>2. InodesDistinct
  BY <1>1 DEF Init, InodesDistinct
<1>3. FilesWhole
  BY <1>1 DEF FilesWhole
<1>4. SavesOk
  BY DEF Init, SavesOk, SaveOk
<1> QED
  BY <1>2, <1>3, <1>4, InitTypes DEF FolderInv

\* The code a session works on is a code, and its own.
LEMMA OwnTarget ==
    ASSUME EditorTypes, DisjointEdits, NEW s \in Sessions, Working(s)
    PROVE  /\ Target(s) \in Codes
           /\ \A t \in Sessions \ {s} : Working(t) => Target(t) # Target(s)
BY EditorAssumption DEF EditorTypes, TaskOk, DisjointEdits

\* A step that leaves the files alone.
LEMMA FilesKept ==
    ASSUME FolderInv, EditorTypes', UNCHANGED files,
           \A t \in Sessions :
              \/ pc'[t] = pc[t] /\ task'[t] = task[t] /\ fd'[t] = fd[t]
              \/ pc'[t] \notin {"write", "replace", "unlink"}
              \/ pc'[t] = "unlink" /\ file[task'[t].code] # Absent
    PROVE  FolderInv'
<1>1. InodesDistinct' /\ FilesWhole'
  BY DEF FolderInv, InodesDistinct, FilesWhole, files
<1>2. ASSUME NEW t \in Sessions PROVE SaveOk(t)'
  BY DEF FolderInv, SavesOk, SaveOk, Target, files
<1> QED
  BY <1>1, <1>2 DEF FolderInv, SavesOk

\* Opening the temporary file makes or empties an inode of its own.
LEMMA OpenTmpFolder ==
    ASSUME DisjointEdits, FolderInv, EditorTypes', NEW s \in Sessions, OpenTmp(s)
    PROVE  FolderInv' /\ UNCHANGED OnDisk
<1> USE DEF TmpName
<1> DEFINE c == Target(s)
<1>0. c \in Codes /\ \A t \in Sessions \ {s} : Working(t) => Target(t) # c
  BY OwnTarget DEF OpenTmp, FolderInv, Working, Saving
<1>1. PICK i \in IF tmp[c] # Absent THEN {tmp[c]} ELSE NewInode :
         /\ tmp' = [tmp EXCEPT ![c] = i]
         /\ data' = [data EXCEPT ![i] = Empty]
         /\ fd' = [fd EXCEPT ![s] = i]
  BY DEF OpenTmp
<1>2. TypeOK /\ InodesDistinct /\ FilesWhole /\ SavesOk
  BY DEF FolderInv, EditorTypes
<1>3. /\ i \in Inodes /\ i # Absent
      /\ \A d \in Codes : file[d] # i /\ (d # c => tmp[d] # i)
  <2>1. CASE tmp[c] # Absent
    BY <1>0, <1>1, <1>2, <2>1 DEF TypeOK, InodesDistinct
  <2>2. CASE i \in NewInode
    BY <1>0, <2>2, EditorAssumption DEF NewInode, UsedInodes
  <2> QED
    BY <1>1, <2>1, <2>2
<1>4. file' = file /\ task' = task /\ pc' = [pc EXCEPT ![s] = "write"] /\ pc[s] = "open"
  BY DEF OpenTmp, Goto
<1>5. InodesDistinct'
  BY <1>0, <1>1, <1>2, <1>3, <1>4 DEF InodesDistinct, TypeOK
<1>6. \A d \in Codes : file[d] # Absent => data'[file[d]] = data[file[d]]
  BY <1>1, <1>2, <1>3 DEF TypeOK
<1>7. FilesWhole'
  BY <1>2, <1>4, <1>6 DEF FilesWhole
<1>8. ASSUME NEW t \in Sessions PROVE SaveOk(t)'
  <2>1. CASE t = s
    BY <1>0, <1>1, <1>2, <1>3, <1>4, <2>1 DEF SaveOk, Target, TypeOK
  <2>2. CASE t # s /\ pc[t] \in {"write", "replace"}
    <3>1. Target(t) # c /\ Target(t) \in Codes
      BY <1>0, <2>2, OwnTarget DEF Working, Saving, FolderInv
    <3>2. tmp'[Target(t)] = tmp[Target(t)] /\ tmp[Target(t)] # i
      BY <1>1, <1>2, <1>3, <3>1 DEF TypeOK
    <3>3. tmp[Target(t)] # Absent /\ tmp[Target(t)] \in Inodes
      BY <1>2, <2>2, <3>1 DEF SavesOk, SaveOk, TypeOK, FolderInv, EditorTypes, TaskOk
    <3>4. data'[tmp[Target(t)]] = data[tmp[Target(t)]] /\ fd'[t] = fd[t]
      BY <1>1, <1>2, <2>2, <3>2, <3>3 DEF TypeOK
    <3> QED
      BY <1>2, <1>4, <2>2, <3>2, <3>3, <3>4 DEF SavesOk, SaveOk, Target, TypeOK
  <2>3. CASE t # s /\ pc[t] \notin {"write", "replace"}
    BY <1>2, <1>4, <2>3 DEF SavesOk, SaveOk, Target, TypeOK
  <2> QED
    BY <2>1, <2>2, <2>3
<1> QED
  BY <1>4, <1>5, <1>6, <1>7, <1>8 DEF FolderInv, SavesOk, OnDisk

\* Writing it touches no other name's inode.
LEMMA WriteTmpFolder ==
    ASSUME DisjointEdits, FolderInv, EditorTypes', NEW s \in Sessions, WriteTmp(s)
    PROVE  FolderInv' /\ UNCHANGED OnDisk
<1> USE DEF TmpName
<1> DEFINE c == Target(s)
           i == fd[s]
<1>0. c \in Codes /\ \A t \in Sessions \ {s} : Working(t) => Target(t) # c
  BY OwnTarget DEF WriteTmp, FolderInv, Working, Saving
<1>1. TypeOK /\ InodesDistinct /\ FilesWhole /\ SavesOk
  BY DEF FolderInv, EditorTypes
<1>2. i = tmp[c] /\ data[i] = Empty /\ i # Absent /\ i \in Inodes
  BY <1>1 DEF WriteTmp, SavesOk, SaveOk, FolderInv, EditorTypes, TaskOk, TypeOK
<1>3. \A d \in Codes : file[d] # i /\ (d # c => tmp[d] # i)
  BY <1>0, <1>1, <1>2 DEF InodesDistinct
<1>4. /\ file' = file /\ tmp' = tmp /\ task' = task
      /\ pc' = [pc EXCEPT ![s] = "replace"] /\ pc[s] = "write"
      /\ data' = [data EXCEPT ![i] = task[s].text]
      /\ fd' = [fd EXCEPT ![s] = Absent]
  BY <1>2 DEF WriteTmp, Goto, Overwrite
<1>5. InodesDistinct'
  BY <1>1, <1>4 DEF InodesDistinct
<1>6. \A d \in Codes : file[d] # Absent => data'[file[d]] = data[file[d]]
  BY <1>1, <1>3, <1>4 DEF TypeOK
<1>7. FilesWhole'
  BY <1>1, <1>4, <1>6 DEF FilesWhole
<1>8. ASSUME NEW t \in Sessions PROVE SaveOk(t)'
  <2>1. CASE t = s
    BY <1>1, <1>2, <1>4, <2>1 DEF SaveOk, Target, TypeOK
  <2>2. CASE t # s /\ pc[t] \in {"write", "replace"}
    <3>1. Target(t) # c /\ Target(t) \in Codes
      BY <1>0, <2>2, OwnTarget DEF Working, Saving, FolderInv
    <3>2. tmp[Target(t)] # i
      BY <1>3, <3>1
    <3>3. tmp[Target(t)] # Absent /\ tmp[Target(t)] \in Inodes
      BY <1>1, <2>2, <3>1 DEF SavesOk, SaveOk, TypeOK, FolderInv, EditorTypes, TaskOk
    <3>4. data'[tmp[Target(t)]] = data[tmp[Target(t)]] /\ fd'[t] = fd[t]
      BY <1>1, <1>4, <2>2, <3>2, <3>3 DEF TypeOK
    <3> QED
      BY <1>1, <1>4, <2>2, <3>2, <3>3, <3>4 DEF SavesOk, SaveOk, Target, TypeOK
  <2>3. CASE t # s /\ pc[t] \notin {"write", "replace"}
    BY <1>1, <1>4, <2>3 DEF SavesOk, SaveOk, Target, TypeOK
  <2> QED
    BY <2>1, <2>2, <2>3
<1> QED
  BY <1>4, <1>5, <1>6, <1>7, <1>8 DEF FolderInv, SavesOk, OnDisk

\* The rename and the unlink change one name, that no other session uses.
LEMMA RenameFolder ==
    ASSUME DisjointEdits, FolderInv, EditorTypes', NEW s \in Sessions,
           Replace(s) \/ Unlink(s)
    PROVE  FolderInv' /\ Folder!Next
<1> USE DEF TmpName
<1> DEFINE c == Target(s)
<1>0. c \in Codes /\ \A t \in Sessions \ {s} : Working(t) => Target(t) # c
  BY OwnTarget DEF Replace, Unlink, FolderInv, Working, Saving
<1>1. TypeOK /\ InodesDistinct /\ FilesWhole /\ SavesOk
  BY DEF FolderInv, EditorTypes
<1>2. /\ data' = data /\ task' = task /\ fd' = fd
      /\ pc' = [pc EXCEPT ![s] = "clear"]
      /\ \A d \in Codes \ {c} : file'[d] = file[d] /\ tmp'[d] = tmp[d]
  BY <1>0, <1>1 DEF Replace, Unlink, Goto, work, TypeOK
<1>3. \/ file'[c] = tmp[c] /\ tmp'[c] = Absent /\ data[tmp[c]] \in Texts
      \/ file'[c] = Absent /\ tmp'[c] = tmp[c]
  <2>1. CASE Replace(s)
    <3>1. tmp[c] # Absent /\ data[tmp[c]] = task[s].text /\ task[s].text \in Texts
      BY <1>1, <2>1 DEF Replace, SavesOk, SaveOk, FolderInv, EditorTypes, TaskOk, Saving
    <3> QED
      BY <1>0, <1>1, <2>1, <3>1 DEF Replace, TypeOK
  <2>2. CASE Unlink(s)
    BY <1>0, <1>1, <2>2 DEF Unlink, TypeOK
  <2> QED
    BY <2>1, <2>2
<1>4. InodesDistinct'
  BY <1>0, <1>1, <1>2, <1>3 DEF InodesDistinct
<1>5. FilesWhole'
  BY <1>0, <1>1, <1>2, <1>3 DEF FilesWhole
<1>6. ASSUME NEW t \in Sessions PROVE SaveOk(t)'
  <2>1. CASE t = s
    BY <1>1, <1>2, <2>1 DEF SaveOk, TypeOK
  <2>2. CASE t # s /\ Working(t)
    <3>1. Target(t) # c /\ Target(t) \in Codes
      BY <1>0, <2>2, OwnTarget DEF FolderInv
    <3> QED
      BY <1>1, <1>2, <2>2, <3>1 DEF SavesOk, SaveOk, Target, TypeOK
  <2>3. CASE t # s /\ ~Working(t)
    BY <1>1, <1>2, <2>3 DEF SaveOk, Working, Saving, TypeOK
  <2> QED
    BY <2>1, <2>2, <2>3
<1>7. Folder!Next
  <2> DEFINE entry == OnDisk'[c]
  <2>1. entry \in Texts \cup {Absent}
    BY <1>0, <1>2, <1>3 DEF OnDisk
  <2>2. \A d \in Codes \ {c} : OnDisk'[d] = OnDisk[d]
    BY <1>2 DEF OnDisk
  <2>3. OnDisk' = [OnDisk EXCEPT ![c] = entry]
    BY <1>0, <2>2 DEF OnDisk
  <2> QED
    BY <1>0, <2>1, <2>3 DEF Folder!Next, Folder!Put, Folder!Remove
<1> QED
  BY <1>4, <1>5, <1>6, <1>7 DEF FolderInv, SavesOk

\* The other steps leave the files alone.
LEMMA QuietSteps ==
    ASSUME FolderInv, EditorTypes', NEW s \in Sessions, Request(s) \/ Proceed(s),
           ~OpenTmp(s), ~WriteTmp(s), ~Replace(s), ~Unlink(s)
    PROVE  FolderInv' /\ UNCHANGED files
<1> USE DEF FolderInv, EditorTypes, TypeOK
<1>1. UNCHANGED files
  BY DEF Request, Proceed, StartSave, StartDelete, BuildParser, UseCached, StartLoad,
     ReadFile, LoadFails, EndLoad, Leave, ReplaceFails, UnlinkFails, Clear
<1>2. \A t \in Sessions \ {s} : pc'[t] = pc[t] /\ task'[t] = task[t] /\ fd'[t] = fd[t]
  BY DEF Request, Proceed, StartSave, StartDelete, BuildParser, UseCached, StartLoad,
     ReadFile, LoadFails, EndLoad, Leave, ReplaceFails, UnlinkFails, Clear, End, Goto, work
<1>3. ASSUME NEW c \in Codes, StartDelete(s, c)
      PROVE  \/ pc'[s] = pc[s] /\ task'[s] = task[s] /\ fd'[s] = fd[s]
             \/ pc'[s] = "unlink" /\ file[task'[s].code] # Absent
  BY <1>3 DEF StartDelete, Goto
<1>4. \/ pc'[s] = pc[s] /\ task'[s] = task[s] /\ fd'[s] = fd[s]
      \/ pc'[s] \notin {"write", "replace", "unlink"}
      \/ pc'[s] = "unlink" /\ file[task'[s].code] # Absent
  BY <1>3 DEF Request, Proceed, StartSave, BuildParser, UseCached, StartLoad,
     ReadFile, LoadFails, EndLoad, Leave, ReplaceFails, UnlinkFails, Clear, End, Goto, work
<1>5. \A t \in Sessions :
         \/ pc'[t] = pc[t] /\ task'[t] = task[t] /\ fd'[t] = fd[t]
         \/ pc'[t] \notin {"write", "replace", "unlink"}
         \/ pc'[t] = "unlink" /\ file[task'[t].code] # Absent
  BY <1>2, <1>4
<1> HIDE DEF FolderInv, EditorTypes, TypeOK
<1> QED
  BY <1>1, <1>5, FilesKept

\* Every step keeps the files whole.
LEMMA StepFolder ==
    ASSUME DisjointEdits
    PROVE  FolderInv /\ [Next]_vars => FolderInv' /\ [Folder!Next]_OnDisk
<1> SUFFICES ASSUME FolderInv, [Next]_vars
             PROVE  FolderInv' /\ (Folder!Next \/ UNCHANGED OnDisk)
  OBVIOUS
<1>0. EditorTypes'
  BY StepTypes DEF FolderInv
<1>1. CASE UNCHANGED vars
  BY <1>0, <1>1, FilesKept DEF vars, files, work, OnDisk
<1>2. CASE Crash
  BY <1>0, <1>2, FilesKept DEF Crash, files, OnDisk
<1>3. ASSUME NEW s \in Sessions, Request(s) \/ Proceed(s)
      PROVE  FolderInv' /\ (Folder!Next \/ UNCHANGED OnDisk)
  BY <1>0, <1>3, OpenTmpFolder, WriteTmpFolder, RenameFolder, QuietSteps DEF files, OnDisk
<1> QED
  BY <1>1, <1>2, <1>3 DEF Next, Step

\* The files are whole, for the whole behaviour.
LEMMA FolderInductive == ASSUME DisjointEdits PROVE Spec => []FolderInv
BY InitFolder, StepFolder, PTL DEF Spec

\* Where no two sessions edit the same code, a save replaces a whole valid
\* text by a whole valid text at once, a delete removes one, and no restart
\* leaves anything else: the directory implements SchemaFolder.  (One session
\* is a case of this, by OneIsDisjoint below.)
THEOREM SavesAreAtomic == ASSUME DisjointEdits PROVE Spec => FolderSpec
<1>1. FolderInv => OnDisk \in [Codes -> Texts \cup {Absent}]
  BY DEF FolderInv, FilesWhole, OnDisk
<1>2. Init => Folder!Init
  BY <1>1, InitFolder DEF Folder!Init
<1> QED
  BY <1>2, StepFolder, FolderInductive, PTL DEF Spec, FolderSpec, Folder!Spec

\* There, no other session's save or delete disturbs one that was begun: the
\* temporary file stays until its rename and holds the text to save, and a
\* file to unlink is there.
THEOREM BegunChangesAreSafe ==
    ASSUME DisjointEdits
    PROVE  Spec => []BegunChangesHold
<1>1. FolderInv => BegunChangesHold
  BY DEF FolderInv, SavesOk, SaveOk, BegunChangesHold, TmpName
<1> QED
  BY <1>1, FolderInductive, PTL

-----------------------------------------------------------------------------
(* What a load reads.                                                      *)

NobodyClears == \A s \in Sessions : pc[s] # "clear"

\* What load_registry has read is what is on disk, and what it has listed is
\* still there.
LoadOk(s) ==
    \A c \in Codes : IF c \in listed[s] THEN file[c] # Absent
                                        ELSE seen[s][c] = OnDisk[c]

\* So it is for the load that holds the lock, but between a change and the
\* clear behind it, which takes the lock away.
LoadsFresh ==
    \A s \in Sessions : pc[s] = "load" /\ loader = s /\ NobodyClears => LoadOk(s)

LoadInv == FolderInv /\ LoadsFresh

\* A session's step changes what a load relies on only if it is the load's
\* own, or a change, or a clear.
LEMMA StepKinds ==
    ASSUME DisjointEdits, FolderInv, FolderInv', NEW s \in Sessions,
           Request(s) \/ Proceed(s)
    PROVE  \/ pc'[s] = "clear" /\ registry' = registry
           \/ Clear(s)
           \/ /\ UNCHANGED <<OnDisk, file>>
              /\ pc[s] # "clear" /\ pc'[s] # "clear"
              /\ \A t \in Sessions \ {s} : /\ pc'[t] = pc[t] /\ listed'[t] = listed[t]
                                           /\ seen'[t] = seen[t]
              /\ \/ StartLoad(s) \/ ReadFile(s) \/ EndLoad(s)
                 \/ /\ pc'[s] # "load" /\ registry' = registry
                    /\ loader' = loader \/ LoadFails(s)
<1> USE DEF Goto, End, loading, caches, files
<1>0. EditorTypes /\ TypeOK /\ EditorTypes'
  BY DEF FolderInv, EditorTypes
<1>1. CASE Replace(s) \/ Unlink(s)
  BY <1>0, <1>1 DEF Replace, Unlink, TypeOK
<1>2. CASE OpenTmp(s) \/ WriteTmp(s)
  <2>1. UNCHANGED OnDisk
    BY <1>0, <1>2, OpenTmpFolder, WriteTmpFolder
  <2> QED
    BY <1>0, <1>2, <2>1 DEF OpenTmp, WriteTmp, TypeOK
<1>3. CASE StartLoad(s) \/ ReadFile(s) \/ EndLoad(s) \/ LoadFails(s)
  <2>1. UNCHANGED files /\ pc[s] # "clear" /\ pc'[s] # "clear"
    BY <1>0, <1>3 DEF StartLoad, ReadFile, EndLoad, LoadFails, Reads, Resting, TypeOK
  <2>2. \A t \in Sessions \ {s} : pc'[t] = pc[t] /\ listed'[t] = listed[t]
    BY <1>0, <1>3 DEF StartLoad, ReadFile, EndLoad, LoadFails, TypeOK
  <2>3. \A t \in Sessions \ {s} : seen'[t] = seen[t]
    <3>1. CASE ReadFile(s)
      <4>1. PICK c \in listed[s] : seen' = [seen EXCEPT ![s][c] = OnDisk[c]]
        BY <3>1 DEF ReadFile
      <4> QED
        BY <1>0, <4>1 DEF TypeOK
    <3> QED
      BY <1>0, <1>3, <3>1 DEF StartLoad, EndLoad, LoadFails, TypeOK
  <2>4. LoadFails(s) => pc'[s] # "load" /\ registry' = registry
    BY <1>0 DEF LoadFails, TypeOK
  <2> QED
    BY <1>3, <2>1, <2>2, <2>3, <2>4 DEF OnDisk
<1>4. CASE ReplaceFails(s) \/ UnlinkFails(s)
  BY <1>0, <1>4 DEF ReplaceFails, UnlinkFails, OnDisk, TypeOK
<1>5. CASE \/ UseCached(s) \/ Leave(s) \/ BuildParser(s)
           \/ \E c \in Codes, text \in Texts : StartSave(s, c, text)
           \/ \E c \in Codes : StartDelete(s, c)
  BY <1>0, <1>5
     DEF UseCached, Leave, BuildParser, StartSave, StartDelete, OnDisk, Resting, TypeOK
<1> QED
  BY <1>1, <1>2, <1>3, <1>4, <1>5 DEF Request, Proceed

\* The load's own steps keep what it relies on.
LEMMA OwnLoad ==
    ASSUME EditorTypes, NEW s \in Sessions, UNCHANGED <<OnDisk, file>>,
           \/ StartLoad(s)
           \/ ReadFile(s) /\ LoadOk(s)
    PROVE  LoadOk(s)'
<1>0. TypeOK
  BY DEF EditorTypes
<1> SUFFICES ASSUME NEW d \in Codes
             PROVE  IF d \in listed'[s] THEN file'[d] # Absent
                                        ELSE seen'[s][d] = OnDisk'[d]
  BY DEF LoadOk
<1>1. CASE StartLoad(s)
  BY <1>0, <1>1 DEF StartLoad, OnDisk, Nothing, TypeOK
<1>2. CASE ReadFile(s) /\ LoadOk(s)
  <2>1. PICK c \in listed[s] :
           /\ seen' = [seen EXCEPT ![s][c] = OnDisk[c]]
           /\ listed' = [listed EXCEPT ![s] = @ \ {c}]
    BY <1>2 DEF ReadFile
  <2>2. listed'[s] = listed[s] \ {c}
    BY <1>0, <2>1 DEF TypeOK
  <2>3. /\ seen'[s] = [seen[s] EXCEPT ![c] = OnDisk[c]]
        /\ seen[s] \in [Codes -> Texts \cup {Garbled, Absent}]
    BY <1>0, <2>1 DEF TypeOK, Registries
  <2>4. CASE d = c
    BY <2>2, <2>3, <2>4
  <2>5. CASE d # c
    BY <1>2, <2>2, <2>3, <2>5 DEF LoadOk
  <2> QED
    BY <2>4, <2>5
<1> QED
  BY <1>1, <1>2

\* A load that ends with the lock caches what is on disk.
LEMMA LoadedIsOnDisk ==
    ASSUME LoadInv, NEW s \in Sessions, EndLoad(s), loader = s, NobodyClears
    PROVE  registry' = OnDisk /\ UNCHANGED OnDisk
<1>1. TypeOK /\ LoadOk(s) /\ listed[s] = {} /\ registry' = seen[s] /\ UNCHANGED files
  BY DEF LoadInv, FolderInv, EditorTypes, LoadsFresh, EndLoad
<1>2. \A c \in Codes : seen[s][c] = OnDisk[c]
  BY <1>1 DEF LoadOk
<1>3. seen[s] \in [Codes -> Texts \cup {Garbled, Absent}]
  BY <1>1 DEF TypeOK, Registries
<1> QED
  BY <1>1, <1>2, <1>3 DEF OnDisk, files

\* Every step keeps what the load with the lock has read the same as the disk.
LEMMA StepLoads == ASSUME DisjointEdits PROVE LoadInv /\ [Next]_vars => LoadInv'
<1> SUFFICES ASSUME LoadInv, [Next]_vars PROVE LoadInv'
  OBVIOUS
<1>0. FolderInv /\ FolderInv' /\ LoadsFresh /\ EditorTypes /\ TypeOK
  BY StepFolder DEF LoadInv, FolderInv, EditorTypes
<1>1. CASE UNCHANGED vars
  BY <1>0, <1>1 DEF vars, files, loading, caches, LoadInv, LoadsFresh, LoadOk, NobodyClears,
     OnDisk
<1>2. CASE Crash
  BY <1>0, <1>2 DEF Crash, LoadInv, LoadsFresh
<1>3. ASSUME NEW s \in Sessions, Request(s) \/ Proceed(s) PROVE LoadsFresh'
  <2> SUFFICES ASSUME NEW t \in Sessions, pc'[t] = "load", loader' = t, NobodyClears'
               PROVE  LoadOk(t)'
    BY DEF LoadsFresh
  <2>1. ~Clear(s) /\ pc'[s] # "clear"
    BY EditorAssumption DEF Clear, NobodyClears
  <2>2. /\ UNCHANGED <<OnDisk, file>>
        /\ pc[s] # "clear"
        /\ \A u \in Sessions \ {s} : /\ pc'[u] = pc[u] /\ listed'[u] = listed[u]
                                     /\ seen'[u] = seen[u]
        /\ \/ StartLoad(s) \/ ReadFile(s) \/ EndLoad(s)
           \/ pc'[s] # "load" /\ (loader' = loader \/ LoadFails(s))
    BY <1>0, <1>3, <2>1, StepKinds
  <2>3. NobodyClears
    BY <2>2 DEF NobodyClears
  <2>4. CASE t = s
    <3>1. StartLoad(s) \/ ReadFile(s)
      BY <1>0, <2>2, <2>4 DEF EndLoad, Goto, TypeOK
    <3>2. ReadFile(s) => LoadOk(s)
      BY <1>0, <2>3, <2>4 DEF ReadFile, Reads, caches, LoadsFresh
    <3> QED
      BY <1>0, <2>2, <2>4, <3>1, <3>2, OwnLoad
  <2>5. CASE t # s
    <3>1. loader = t
      BY <2>2, <2>5, EditorAssumption DEF StartLoad, ReadFile, EndLoad, LoadFails, Release, caches
    <3> QED
      BY <1>0, <2>2, <2>3, <2>5, <3>1 DEF LoadsFresh, LoadOk
  <2> QED
    BY <2>4, <2>5
<1> QED
  BY <1>0, <1>1, <1>2, <1>3 DEF Next, Step, LoadInv

\* At first nobody loads.
LEMMA InitLoads == Init => LoadInv
BY InitFolder DEF LoadInv, LoadsFresh, Init

\* Only a load without the lock caches something else than what is on disk.
LEMMA StepFresh ==
    ASSUME DisjointEdits, LoadInv, RegistryFresh, [Next]_vars,
           \A s \in Sessions : EndLoad(s) => loader = s
    PROVE  RegistryFresh'
<1>0. FolderInv /\ FolderInv' /\ EditorTypes /\ TypeOK
  BY StepFolder DEF LoadInv, FolderInv, EditorTypes
<1>1. CASE UNCHANGED vars
  BY <1>1 DEF vars, files, caches, RegistryFresh, OnDisk
<1>2. CASE Crash
  BY <1>2 DEF Crash, RegistryFresh
<1>3. ASSUME NEW s \in Sessions, Request(s) \/ Proceed(s) PROVE RegistryFresh'
  <2> SUFFICES ASSUME registry' # Unset, NobodyClears' PROVE registry' = OnDisk'
    BY DEF RegistryFresh, NobodyClears
  <2>1. ~Clear(s) /\ pc'[s] # "clear"
    BY DEF Clear, NobodyClears
  <2>2. /\ UNCHANGED OnDisk
        /\ pc[s] # "clear"
        /\ \A u \in Sessions \ {s} : pc'[u] = pc[u]
        /\ StartLoad(s) \/ ReadFile(s) \/ EndLoad(s) \/ registry' = registry
    BY <1>0, <1>3, <2>1, StepKinds
  <2>3. NobodyClears
    BY <2>2 DEF NobodyClears
  <2>4. CASE EndLoad(s)
    BY <2>3, <2>4, LoadedIsOnDisk
  <2>5. CASE ~EndLoad(s)
    <3>1. registry' = registry
      BY <2>2, <2>5 DEF StartLoad, ReadFile, caches
    <3> QED
      BY <2>2, <2>3, <3>1 DEF RegistryFresh, NobodyClears
  <2> QED
    BY <2>4, <2>5
<1> QED
  BY <1>1, <1>2, <1>3 DEF Next, Step

\* Where no two sessions edit the same code, however many load, save and
\* delete at the same time, the cached registry goes stale in one way only: a
\* load ends that was under way when clear() dropped the lock it had.
THEOREM OnlyOvertakenLoadsAreStale ==
    ASSUME DisjointEdits
    PROVE  Spec => StaleOnlyIfOvertaken
<1>1. LoadInv /\ [Next]_vars =>
         [RegistryFresh /\ ~RegistryFresh' =>
             \E s \in Sessions : EndLoad(s) /\ loader # s]_vars
  BY StepFresh
<1> QED
  BY <1>1, InitLoads, StepLoads, PTL DEF Spec, StaleOnlyIfOvertaken

-----------------------------------------------------------------------------
(* One session.                                                            *)

OneSession == \A s, t \in Sessions : s = t

\* A load holds the lock.
LoadsHoldLock == \A s \in Sessions : pc[s] = "load" => loader = s

OneInv == LoadInv /\ RegistryFresh /\ LoadsHoldLock

\* One session edits no code of another.
LEMMA OneIsDisjoint == OneSession => DisjointEdits
BY DEF OneSession, DisjointEdits

\* One session starts with empty caches.
LEMMA InitOne == Init => OneInv
BY InitLoads DEF Init, OneInv, RegistryFresh, LoadsHoldLock

\* Every step of one session keeps its cache what the files say.
LEMMA StepOne == ASSUME OneSession PROVE OneInv /\ [Next]_vars => OneInv'
<1> SUFFICES ASSUME OneInv, [Next]_vars PROVE OneInv'
  OBVIOUS
<1>0. TypeOK
  BY DEF OneInv, LoadInv, FolderInv, EditorTypes
<1>1. LoadsHoldLock'
  <2>1. CASE UNCHANGED vars
    BY <2>1 DEF vars, caches, OneInv, LoadsHoldLock
  <2>2. CASE Crash
    BY <2>2 DEF Crash, LoadsHoldLock
  <2>3. ASSUME NEW s \in Sessions, Request(s) \/ Proceed(s) PROVE LoadsHoldLock'
    <3>1. \A t \in Sessions : t = s
      BY DEF OneSession
    <3>2. pc[s] = "load" => loader = s
      BY DEF OneInv, LoadsHoldLock
    <3>3. pc'[s] = "load" => loader' = s
      BY <1>0, <2>3, <3>2
         DEF Request, Proceed, StartSave, StartDelete, BuildParser, UseCached, StartLoad,
             ReadFile, Reads, LoadFails, EndLoad, Leave, OpenTmp, WriteTmp, Replace,
             ReplaceFails, Unlink, UnlinkFails, Clear, Resting, End, Goto, caches, TypeOK
    <3> QED
      BY <3>1, <3>3 DEF LoadsHoldLock
  <2> QED
    BY <2>1, <2>2, <2>3 DEF Next, Step
<1>2. \A s \in Sessions : EndLoad(s) => loader = s
  BY DEF EndLoad, OneInv, LoadsHoldLock
<1> QED
  BY <1>1, <1>2, StepLoads, StepFresh, OneIsDisjoint DEF OneInv

\* With one session the cached registry, but between a change and the clear
\* behind it, is what is on disk.
THEOREM RegistryIsFresh == ASSUME OneSession PROVE Spec => []RegistryFresh
<1>1. OneInv => RegistryFresh
  BY DEF OneInv
<1>2. Spec => []OneInv
  BY InitOne, StepOne, PTL DEF Spec
<1> QED
  BY <1>1, <1>2, PTL
=============================================================================

---------------------------- MODULE SchemaEditor ----------------------------
(***************************************************************************)
(* The schema files and the caches built from them: write_schema_text,     *)
(* delete_schema_file and load_registry (krx_parser/registry.py), called   *)
(* by the sessions of pages/4_Schemas.py, with get_registry and get_parser *)
(* of app/helpers.py as st.cache_resource keeps them.                      *)
(*                                                                         *)
(* A file system call is a step.  A name leads to an inode, an inode holds *)
(* what has been written to it: a session that has opened an inode goes on *)
(* writing to it wherever a rename has put it.                             *)
(***************************************************************************)
EXTENDS Integers, FiniteSets

CONSTANTS
    Codes,      \* TR codes, numbered in the order of their file names
    Texts,      \* schema texts that pass validation
    Size,       \* [Texts -> Nat], their lengths
    Empty,      \* the content of a file just truncated
    Garbled,    \* a short text written over a longer one
    Absent,     \* no file, or no inode
    Inodes,     \* bound: inodes in use at a time, numbered
    Sessions,   \* browser sessions
    MayEdit,    \* [Sessions -> SUBSET Codes], the codes each one edits
    MaxCrashes, \* bound: restarts of the process in a behaviour
    Nobody,     \* no session
    Unset       \* nothing is cached

ASSUME EditorAssumption ==
    /\ Codes \subseteq Nat
    /\ Size \in [Texts -> Nat]
    /\ Texts \cap {Empty, Garbled, Absent} = {}
    /\ Inodes \subseteq Nat /\ Absent \notin Inodes
    /\ MayEdit \in [Sessions -> SUBSET Codes]
    /\ MaxCrashes \in Nat
    /\ Nobody \notin Sessions

VARIABLES
    file, tmp,   \* <code>.yaml and <code>.yaml.tmp: the inode of each, if any
    data,        \* the content of each inode
    pc,          \* where each session's script is
    task, fd,    \* the code and text it saves, the inode it has opened
    listed,      \* load_registry: codes globbed and not read yet
    seen,        \* load_registry: the texts read so far
    registry,    \* get_registry's cached value
    loader,      \* who holds the lock on computing it
    parser,      \* get_parser's cached value: the registry it was built with
    crashes      \* how often the process has been restarted

files == <<file, tmp, data>>
work == <<task, fd>>
loading == <<listed, seen>>
caches == <<registry, loader, parser>>
vars == <<files, pc, work, loading, caches, crashes>>

Contents == Texts \cup {Empty, Garbled}

NoTask == [code |-> Absent, text |-> Absent]

Nothing == [c \in Codes |-> Absent]

\* What reading the directory now gives.
OnDisk == [c \in Codes |-> IF file[c] = Absent THEN Absent ELSE data[file[c]]]

Folder == INSTANCE SchemaFolder WITH schemas <- OnDisk

\* One write() at the start of a file: what a longer text left stays.
Overwrite(old, text) ==
    IF old = Empty \/ (old \in Texts /\ Size[old] <= Size[text]) THEN text ELSE Garbled

UsedInodes == {file[c] : c \in Codes} \cup {tmp[c] : c \in Codes}
                 \cup {fd[s] : s \in Sessions}

\* Which unused inode a new file gets makes no difference: the first one.
NewInode ==
    {i \in Inodes \ UsedInodes : \A j \in Inodes \ UsedInodes : i <= j}

-----------------------------------------------------------------------------

Init ==
    /\ \E f \in [Codes -> Inodes \cup {Absent}], t \in Texts :
          /\ \A c, d \in Codes : f[c] = f[d] /\ f[c] # Absent => c = d
          /\ file = f
          /\ data = [i \in Inodes |-> IF \E c \in Codes : f[c] = i THEN t ELSE Empty]
    /\ tmp = [c \in Codes |-> Absent]
    /\ pc = [s \in Sessions |-> "idle"]
    /\ task = [s \in Sessions |-> NoTask] /\ fd = [s \in Sessions |-> Absent]
    /\ listed = [s \in Sessions |-> {}] /\ seen = [s \in Sessions |-> Nothing]
    /\ registry = Unset /\ loader = Nobody /\ parser = Unset
    /\ crashes = 0

Goto(s, where) == pc' = [pc EXCEPT ![s] = where]

\* The script of session s ends: normally, or with a traceback.
End(s, where) ==
    /\ Goto(s, where)
    /\ task' = [task EXCEPT ![s] = NoTask] /\ fd' = [fd EXCEPT ![s] = Absent]

-----------------------------------------------------------------------------
(* get_registry and get_parser.                                            *)

Resting(s) == pc[s] \in {"idle", "failed"}

\* A page starts with the cached registry.
UseCached(s) ==
    /\ Resting(s) /\ registry # Unset
    /\ Goto(s, "ready")
    /\ UNCHANGED <<files, work, loading, caches>>

\* Or, with the compute lock, it starts load_registry: glob the directory.
StartLoad(s) ==
    /\ Resting(s) /\ registry = Unset /\ loader = Nobody
    /\ Goto(s, "load")
    /\ loader' = s
    /\ listed' = [listed EXCEPT ![s] = {c \in Codes : file[c] # Absent}]
    /\ seen' = [seen EXCEPT ![s] = Nothing]
    /\ UNCHANGED <<files, work, registry, parser>>

Reads(s, c) == pc[s] = "load" /\ c \in listed[s] /\ \A d \in listed[s] : c <= d

Release(s) == loader' = IF loader = s THEN Nobody ELSE loader

\* Mutant: the file is loaded without being validated.
ReadAnyFile(s) == \E c \in listed[s] :
    /\ Reads(s, c) /\ OnDisk[c] # Absent
    /\ seen' = [seen EXCEPT ![s][c] = OnDisk[c]]
    /\ listed' = [listed EXCEPT ![s] = @ \ {c}]
    /\ UNCHANGED <<files, pc, work, caches>>

\* A mangled text is loaded when it happens to be a valid schema.
ReadFile(s) == \E c \in listed[s] :
    /\ Reads(s, c) /\ OnDisk[c] \in Texts \cup {Garbled}
    /\ seen' = [seen EXCEPT ![s][c] = OnDisk[c]]
    /\ listed' = [listed EXCEPT ![s] = @ \ {c}]
    /\ UNCHANGED <<files, pc, work, caches>>

\* FileNotFoundError, or SchemaValidationError on an empty file and on a
\* mangled one that happens to be no valid schema.
LoadFails(s) == \E c \in listed[s] :
    /\ Reads(s, c) /\ OnDisk[c] \notin Texts
    /\ Goto(s, "failed")
    /\ listed' = [listed EXCEPT ![s] = {}] /\ seen' = [seen EXCEPT ![s] = Nothing]
    /\ Release(s)
    /\ UNCHANGED <<files, work, registry, parser>>

EndLoad(s) ==
    /\ pc[s] = "load" /\ listed[s] = {}
    /\ registry' = seen[s]
    /\ seen' = [seen EXCEPT ![s] = Nothing]
    /\ Release(s)
    /\ Goto(s, "ready")
    /\ UNCHANGED <<files, work, listed, parser>>

\* The Upload page asks for the parser as well.
BuildParser(s) ==
    /\ pc[s] = "ready" /\ parser = Unset /\ registry # Unset
    /\ parser' = registry
    /\ UNCHANGED <<files, pc, work, loading, registry, loader>>

Leave(s) ==
    /\ pc[s] = "ready"
    /\ Goto(s, "idle")
    /\ UNCHANGED <<files, work, loading, caches>>

-----------------------------------------------------------------------------
(* The Save button: write_schema_text, then clear.                         *)

StartSave(s, c, text) ==
    /\ pc[s] = "ready" /\ c \in MayEdit[s]
    /\ task' = [task EXCEPT ![s] = [code |-> c, text |-> text]]
    /\ Goto(s, "open")
    /\ UNCHANGED <<files, fd, loading, caches>>

Target(s) == task[s].code

\* Mutant: all saves write to one temporary file.
OneTmpName(s) == CHOOSE c \in Codes : TRUE

\* The temporary file of a save, named after the schema file.
TmpName(s) == Target(s)

\* Mutant: the schema file itself is opened for writing.
OpenTarget(s) ==
    /\ pc[s] = "open"
    /\ \E i \in IF file[Target(s)] # Absent THEN {file[Target(s)]} ELSE NewInode :
          /\ file' = [file EXCEPT ![Target(s)] = i]
          /\ data' = [data EXCEPT ![i] = Empty]
          /\ fd' = [fd EXCEPT ![s] = i]
    /\ Goto(s, "write")
    /\ UNCHANGED <<tmp, task, loading, caches>>

\* open(tmp, "w"): the name's inode is truncated, or a new one is made.
OpenTmp(s) ==
    /\ pc[s] = "open"
    /\ \E i \in IF tmp[TmpName(s)] # Absent THEN {tmp[TmpName(s)]} ELSE NewInode :
          /\ tmp' = [tmp EXCEPT ![TmpName(s)] = i]
          /\ data' = [data EXCEPT ![i] = Empty]
          /\ fd' = [fd EXCEPT ![s] = i]
    /\ Goto(s, "write")
    /\ UNCHANGED <<file, task, loading, caches>>

WriteTmp(s) ==
    /\ pc[s] = "write"
    /\ data' = [data EXCEPT ![fd[s]] = Overwrite(@, task[s].text)]
    /\ fd' = [fd EXCEPT ![s] = Absent]
    /\ Goto(s, "replace")
    /\ UNCHANGED <<file, tmp, task, loading, caches>>

Replace(s) ==
    /\ pc[s] = "replace" /\ tmp[TmpName(s)] # Absent
    /\ file' = [file EXCEPT ![Target(s)] = tmp[TmpName(s)]]
    /\ tmp' = [tmp EXCEPT ![TmpName(s)] = Absent]
    /\ Goto(s, "clear")
    /\ UNCHANGED <<data, work, loading, caches>>

\* Mutant: a rename that fails is tried again.
ReplaceAgain(s) ==
    /\ pc[s] = "replace" /\ tmp[TmpName(s)] = Absent
    /\ UNCHANGED vars

\* FileNotFoundError is no SchemaValidationError: the page fails.
ReplaceFails(s) ==
    /\ pc[s] = "replace" /\ tmp[TmpName(s)] = Absent
    /\ End(s, "failed")
    /\ UNCHANGED <<files, loading, caches>>

\* Mutant: the page runs again and the cached registry is kept.
ClearNothing(s) ==
    /\ pc[s] = "clear"
    /\ End(s, "idle")
    /\ UNCHANGED <<files, loading, caches>>

\* get_registry.clear() drops the value and the lock on computing it; the
\* script runs again from the top.
Clear(s) ==
    /\ pc[s] = "clear"
    /\ registry' = Unset /\ loader' = Nobody
    /\ End(s, "idle")
    /\ UNCHANGED <<files, loading, parser>>

(* The Delete button: delete_schema_file, then clear.                      *)

StartDelete(s, c) ==
    /\ pc[s] = "ready" /\ c \in MayEdit[s]
    /\ IF file[c] = Absent
       THEN UNCHANGED <<pc, task>>
       ELSE /\ task' = [task EXCEPT ![s].code = c]
            /\ Goto(s, "unlink")
    /\ UNCHANGED <<files, fd, loading, caches>>

Unlink(s) ==
    /\ pc[s] = "unlink" /\ file[Target(s)] # Absent
    /\ file' = [file EXCEPT ![Target(s)] = Absent]
    /\ Goto(s, "clear")
    /\ UNCHANGED <<tmp, data, work, loading, caches>>

UnlinkFails(s) ==
    /\ pc[s] = "unlink" /\ file[Target(s)] = Absent
    /\ End(s, "failed")
    /\ UNCHANGED <<files, loading, caches>>

\* The process stops and starts again: the files stay, the caches do not.
Crash ==
    /\ crashes < MaxCrashes /\ crashes' = crashes + 1
    /\ pc' = [s \in Sessions |-> "idle"]
    /\ task' = [s \in Sessions |-> NoTask] /\ fd' = [s \in Sessions |-> Absent]
    /\ listed' = [s \in Sessions |-> {}] /\ seen' = [s \in Sessions |-> Nothing]
    /\ registry' = Unset /\ loader' = Nobody /\ parser' = Unset
    /\ UNCHANGED files

-----------------------------------------------------------------------------

Request(s) ==
    \/ \E c \in Codes, text \in Texts : StartSave(s, c, text)
    \/ \E c \in Codes : StartDelete(s, c)
    \/ BuildParser(s)

Proceed(s) ==
    \/ UseCached(s) \/ StartLoad(s) \/ ReadFile(s) \/ LoadFails(s) \/ EndLoad(s)
    \/ Leave(s)
    \/ OpenTmp(s) \/ WriteTmp(s) \/ Replace(s) \/ ReplaceFails(s)
    \/ Unlink(s) \/ UnlinkFails(s)
    \/ Clear(s)

Step == (\E s \in Sessions : Request(s) \/ Proceed(s)) /\ UNCHANGED crashes

Next == Step \/ Crash

Spec == Init /\ [][Next]_vars

\* A script that was started runs to its end, and a page is opened again.
FairSpec == Spec /\ \A s \in Sessions : WF_vars(Proceed(s) /\ UNCHANGED crashes)

-----------------------------------------------------------------------------
(* Properties.                                                             *)

PcValues == {"idle", "failed", "load", "ready", "open", "write", "replace",
             "unlink", "clear"}

Registries == [Codes -> Texts \cup {Garbled, Absent}]

\* The type invariant.
TypeOK ==
    /\ file \in [Codes -> Inodes \cup {Absent}]
    /\ tmp \in [Codes -> Inodes \cup {Absent}]
    /\ data \in [Inodes -> Contents]
    /\ pc \in [Sessions -> PcValues]
    /\ task \in [Sessions -> [code: Codes \cup {Absent}, text: Texts \cup {Absent}]]
    /\ fd \in [Sessions -> Inodes \cup {Absent}]
    /\ listed \in [Sessions -> SUBSET Codes]
    /\ seen \in [Sessions -> Registries]
    /\ registry \in Registries \cup {Unset}
    /\ loader \in Sessions \cup {Nobody}
    /\ parser \in Registries \cup {Unset}
    /\ crashes \in 0..MaxCrashes

\* The directory is a map of valid texts that a save or a delete changes at
\* once.  ("atomically write to <schema_dir>/<transaction_code>.yaml")
FolderSpec == Folder!Spec

\* What a session is about to rename is there and holds the text its user
\* saved, and a file it is about to unlink is there: nothing another session
\* has done meanwhile makes the save or the delete fail or store another text.
BegunChangesHold ==
    \A s \in Sessions :
        /\ pc[s] = "replace" => /\ tmp[TmpName(s)] # Absent
                                /\ data[tmp[TmpName(s)]] = task[s].text
        /\ pc[s] = "unlink" => file[Target(s)] # Absent

\* The cached registry is what is on disk, but between a change and the clear
\* behind it.  ("Force the cached registry to reload from disk on next page run")
RegistryFresh ==
    registry # Unset /\ (\A s \in Sessions : pc[s] # "clear") => registry = OnDisk

\* The one way in which the cached registry goes stale: a load ends that was
\* under way when clear() dropped the lock it had, and caches what it read
\* before the change.  No save, delete, failure, restart or other load does.
StaleOnlyIfOvertaken ==
    [][RegistryFresh /\ ~RegistryFresh' =>
          \E s \in Sessions : EndLoad(s) /\ loader # s]_vars

Quiet == \A s \in Sessions : pc[s] \in {"idle", "failed", "ready"}

\* Once no change is under way, the registry that the cached parser slices and
\* previews uploads with is what is on disk.
ParserFresh == Quiet /\ parser # Unset => parser = OnDisk

\* A script that has begun to load, save or delete ends, with a traceback if
\* another session has taken the file away meanwhile.
PagesEnd ==
    \A s \in Sessions :
        pc[s] \in {"load", "open", "write", "replace", "unlink", "clear"}
            ~> pc[s] \in {"idle", "ready", "failed"}
=============================================================================

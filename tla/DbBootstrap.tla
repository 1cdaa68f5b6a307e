---------------------------- MODULE DbBootstrap ----------------------------
(***************************************************************************)
(* How data/krx.db gets its tables: alembic upgrade head, which install.sh *)
(* runs, and create_all, which the application runs when its first page    *)
(* opens the database.  SQLite commits every CREATE on its own, so either  *)
(* may be cut short and leave what it has made, and both may run at once.  *)
(***************************************************************************)
EXTENDS Integers, Sequences, FiniteSets

VARIABLES
    tables,    \* the tables of the models that the file has
    indexed,   \* the indexes it has
    stamped,   \* whether alembic_version holds revision 0001
    upgrade,   \* the operations the running upgrade has left, or how it ended
    missing,   \* the operations the running create_all has left
    engine     \* get_engine_cached: "none", "creating" or "cached"

dbVars == <<tables, indexed, stamped, upgrade, missing, engine>>
fileVars == <<tables, indexed, stamped>>

Tables == {"raw_messages", "parsed_messages"}

IndexNames == {"ix_raw_messages_parse_status", "ix_raw_messages_received_at",
               "ix_parsed_tr_code_date", "ix_parsed_transmit_date",
               "ix_parsed_raw_message_id"}

Table(name) == [op |-> "table", name |-> name]
Index(name) == [op |-> "index", name |-> name]
Stamp == [op |-> "stamp", name |-> "alembic_version"]

\* A table and then its indexes.
RawMessages == <<Table("raw_messages"),
                 Index("ix_raw_messages_parse_status"),
                 Index("ix_raw_messages_received_at")>>

ParsedMessages == <<Table("parsed_messages"),
                    Index("ix_parsed_tr_code_date"),
                    Index("ix_parsed_transmit_date"),
                    Index("ix_parsed_raw_message_id")>>

\* raw_messages first: its rows are referred to.
Creates(names) ==
    (IF "raw_messages" \in names THEN RawMessages ELSE <<>>)
        \o (IF "parsed_messages" \in names THEN ParsedMessages ELSE <<>>)

\* upgrade() of revision 0001, and the row of alembic_version behind it.
Revision == Creates(Tables) \o <<Stamp>>

NotRunning == <<>>

DbInit ==
    /\ tables = {} /\ indexed = {} /\ stamped = FALSE
    /\ upgrade = NotRunning /\ missing = <<>> /\ engine = "none"

\* CREATE TABLE and CREATE INDEX fail where the name is taken.
CanDo(todo) ==
    /\ todo.op = "table" => todo.name \notin tables
    /\ todo.op = "index" => todo.name \notin indexed

\* One operation against the file.
Do(todo) ==
    /\ tables' = IF todo.op = "table" THEN tables \cup {todo.name} ELSE tables
    /\ indexed' = IF todo.op = "index" THEN indexed \cup {todo.name} ELSE indexed
    /\ stamped' = (stamped \/ todo.op = "stamp")

-----------------------------------------------------------------------------
(* alembic upgrade head                                                    *)

\* With the head in alembic_version there is nothing to do.
UpgradeStart ==
    /\ upgrade = NotRunning
    /\ upgrade' = IF stamped THEN NotRunning ELSE Revision
    /\ UNCHANGED <<fileVars, missing, engine>>

UpgradeStep ==
    /\ upgrade # NotRunning /\ CanDo(Head(upgrade))
    /\ Do(Head(upgrade))
    /\ upgrade' = Tail(upgrade)
    /\ UNCHANGED <<missing, engine>>

\* "table raw_messages already exists"; set -e ends install.sh.
UpgradeFails ==
    /\ upgrade # NotRunning /\ ~CanDo(Head(upgrade))
    /\ upgrade' = NotRunning
    /\ UNCHANGED <<fileVars, missing, engine>>

\* The script is interrupted, or a statement waits too long for the lock.
UpgradeCut ==
    /\ upgrade # NotRunning
    /\ upgrade' = NotRunning
    /\ UNCHANGED <<fileVars, missing, engine>>

-----------------------------------------------------------------------------
(* get_engine_cached                                                       *)

\* Mutant: every table is created, those that are there as well.
MissingAll == Tables

\* create_all looks once which tables are missing (checkfirst).
Missing == Tables \ tables

OpenDatabase ==
    /\ engine = "none"
    /\ engine' = "creating"
    /\ missing' = Creates(Missing)
    /\ UNCHANGED <<fileVars, upgrade>>

CreateStep ==
    /\ engine = "creating" /\ missing # <<>> /\ CanDo(Head(missing))
    /\ Do(Head(missing))
    /\ missing' = Tail(missing)
    /\ UNCHANGED <<upgrade, engine>>

\* Mutant: the engine is cached although create_all raised.
CreateFailsCached ==
    /\ engine = "creating" /\ missing # <<>> /\ ~CanDo(Head(missing))
    /\ missing' = <<>> /\ engine' = "cached"
    /\ UNCHANGED <<fileVars, upgrade>>

\* The page shows the error; nothing is cached, and the next page tries again.
CreateFails ==
    /\ engine = "creating" /\ missing # <<>> /\ ~CanDo(Head(missing))
    /\ missing' = <<>> /\ engine' = "none"
    /\ UNCHANGED <<fileVars, upgrade>>

CacheEngine ==
    /\ engine = "creating" /\ missing = <<>>
    /\ engine' = "cached"
    /\ UNCHANGED <<fileVars, upgrade, missing>>

\* A page is shown: it opens the database unless that has been done.
PageStep == OpenDatabase \/ CreateStep \/ CreateFails \/ CacheEngine

\* The process ends.
ForgetEngine ==
    /\ missing' = <<>> /\ engine' = "none"
    /\ UNCHANGED <<fileVars, upgrade>>

-----------------------------------------------------------------------------
(* Properties.                                                             *)

DbTypeOK ==
    /\ tables \subseteq Tables
    /\ indexed \subseteq IndexNames
    /\ stamped \in BOOLEAN
    /\ engine \in {"none", "creating", "cached"}

\* A page that has its engine finds both tables, however upgrades and create_all
\* met or were cut short; and a file with a revision has them with all their
\* indexes.  ("so the app works without requiring the user to run `alembic
\* upgrade head` first")
TablesWhole ==
    /\ engine = "cached" => tables = Tables
    /\ stamped => tables = Tables /\ indexed = IndexNames

-----------------------------------------------------------------------------
(* The inductive invariant.                                                *)

\* What the operation makes is in the file.
Done(todo) ==
    /\ todo.op = "table" => todo.name \in tables
    /\ todo.op = "index" => todo.name \in indexed

\* The operations from the k-th on are left, and those before it are done.
Rest(todos, k) == SubSeq(todos, k, Len(todos))
Past(todos, k) == \A j \in 1..(k - 1) : Done(todos[j])

Steps(todos) == 1..(Len(todos) + 1)

UpgradeOnItsWay ==
    \E k \in Steps(Revision) :
        /\ upgrade = Rest(Revision, k)
        /\ upgrade = NotRunning \/ Past(Revision, k)

\* create_all was right about the tables it does not make.
CreateOnItsWay ==
    \E names \in SUBSET Tables : \E k \in Steps(Creates(names)) :
        /\ missing = Rest(Creates(names), k)
        /\ engine = "creating" => Past(Creates(names), k) /\ Tables \ names \subseteq tables

DbIInv ==
    /\ DbTypeOK
    /\ TablesWhole
    /\ UpgradeOnItsWay
    /\ CreateOnItsWay
=============================================================================

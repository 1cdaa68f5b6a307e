---------------------------- MODULE MessageStore ----------------------------
(***************************************************************************)
(* The message store: krx_parser/db/repository.py called by the sessions   *)
(* of the Streamlit app through session_scope (app/helpers.py), on a       *)
(* SQLite file in WAL mode.                                                *)
(*                                                                         *)
(* A session's SELECT outside a transaction reads the committed tables.    *)
(* Its first INSERT, UPDATE or DELETE opens a transaction and takes the    *)
(* file's only write lock, held until session_scope commits or rolls back. *)
(* The writer works on its own view of the tables; nobody else sees it.    *)
(***************************************************************************)
EXTENDS MessageTables, FiniteSets

CONSTANTS
    Sessions,      \* browser sessions, a script thread each
    Admins,        \* the sessions in which the Admin page is used
    NoSession,     \* nobody holds the write lock
    NoCode,        \* no TR code is being deleted
    MaxBatch,      \* bound: payloads in one upload
    MaxUploads,    \* bound: uploads in a behaviour
    MaxVariables   \* SQLite's limit on bound parameters in a statement

ASSUME StoreAssumption ==
    /\ Admins \subseteq Sessions
    /\ NoSession \notin Sessions
    /\ NoCode \notin Codes
    /\ MaxBatch \in RowIds
    /\ MaxUploads \in Nat
    /\ MaxVariables \in Nat

VARIABLES
    raw, parsed,         \* the committed tables
    writer,              \* who holds the write lock
    txRaw, txParsed,     \* the writer's view of the tables
    pc,                  \* where each session is
    batch, pos,          \* the payloads to ingest and the next one's position
    known, skipUnknown,  \* the registry's codes, and what to do with others
    rawIds, parsedIds,   \* the ids of the rows stored so far, by position
    code, picked,        \* the TR code to delete and the raw ids selected
    uploads              \* how many uploads have started

disk == <<raw, parsed>>
tx == <<writer, txRaw, txParsed>>
upload == <<batch, pos, known, skipUnknown, rawIds, parsedIds>>
purge == <<code, picked>>
vars == <<disk, tx, pc, upload, purge, uploads>>

Batches == UNION {[1..n -> Payloads] : n \in 1..MaxBatch}

NoBatch == <<>>

NoIds == [i \in {} |-> 1]

\* A function with one more argument: the list of results grows.
Extend(f, i, v) == [j \in DOMAIN f \cup {i} |-> IF j = i THEN v ELSE f[j]]

Archive == INSTANCE MessageArchive

-----------------------------------------------------------------------------

Init ==
    /\ raw = {} /\ parsed = {}
    /\ writer = NoSession /\ txRaw = {} /\ txParsed = {}
    /\ pc = [s \in Sessions |-> "idle"]
    /\ batch = [s \in Sessions |-> NoBatch]
    /\ pos = [s \in Sessions |-> 1]
    /\ known = [s \in Sessions |-> {}]
    /\ skipUnknown = [s \in Sessions |-> FALSE]
    /\ rawIds = [s \in Sessions |-> NoIds]
    /\ parsedIds = [s \in Sessions |-> NoIds]
    /\ code = [s \in Sessions |-> NoCode]
    /\ picked = [s \in Sessions |-> {}]
    /\ uploads = 0

\* The session ends and its local variables go out of scope.
Leave(s) ==
    /\ pc' = [pc EXCEPT ![s] = "idle"]
    /\ batch' = [batch EXCEPT ![s] = NoBatch]
    /\ pos' = [pos EXCEPT ![s] = 1]
    /\ known' = [known EXCEPT ![s] = {}]
    /\ skipUnknown' = [skipUnknown EXCEPT ![s] = FALSE]
    /\ rawIds' = [rawIds EXCEPT ![s] = NoIds]
    /\ parsedIds' = [parsedIds EXCEPT ![s] = NoIds]
    /\ code' = [code EXCEPT ![s] = NoCode]
    /\ picked' = [picked EXCEPT ![s] = {}]
    /\ UNCHANGED uploads

\* Mutant: a session writes whether or not another one holds the lock.
CanAlwaysWrite(s) == TRUE

\* The write lock is free, or the session's own.
CanWrite(s) == writer \in {NoSession, s}

LockWrite(s) == CanWrite(s) /\ writer' = s

\* session.rollback() and close(): the transaction, if any, is undone.
Rollback(s) ==
    /\ writer' = IF writer = s THEN NoSession ELSE writer
    /\ txRaw' = IF writer = s THEN raw ELSE txRaw
    /\ txParsed' = IF writer = s THEN parsed ELSE txParsed
    /\ UNCHANGED disk
    /\ Leave(s)

-----------------------------------------------------------------------------
(* Uploads: ingest_frames (skip = TRUE) and ingest_many (skip = FALSE).    *)

StartUpload(s, b, registry, skip) ==
    /\ pc[s] = "idle"
    /\ uploads < MaxUploads
    /\ pc' = [pc EXCEPT ![s] = "ingest"]
    /\ batch' = [batch EXCEPT ![s] = b]
    /\ known' = [known EXCEPT ![s] = registry]
    /\ skipUnknown' = [skipUnknown EXCEPT ![s] = skip]
    /\ uploads' = uploads + 1
    /\ UNCHANGED <<disk, tx, pos, rawIds, parsedIds, purge>>

Pending(s) == pc[s] = "ingest" /\ pos[s] <= Len(batch[s])

Payload(s) == batch[s][pos[s]]

\* Mutant: a frame that is skipped stays the next one.
SkipFrameInPlace(s) ==
    /\ Pending(s)
    /\ ~InScope(known[s], skipUnknown[s], Payload(s))
    /\ UNCHANGED vars

\* Mutant: the frame after the one skipped is skipped as well.
SkipTwoFrames(s) ==
    /\ Pending(s)
    /\ ~InScope(known[s], skipUnknown[s], Payload(s))
    /\ pos' = [pos EXCEPT ![s] = @ + 2]
    /\ UNCHANGED <<disk, tx, pc, batch, known, skipUnknown, rawIds, parsedIds,
                   purge, uploads>>

SkipFrame(s) ==
    /\ Pending(s)
    /\ ~InScope(known[s], skipUnknown[s], Payload(s))
    /\ pos' = [pos EXCEPT ![s] = @ + 1]
    /\ UNCHANGED <<disk, tx, pc, batch, known, skipUnknown, rawIds, parsedIds,
                   purge, uploads>>

\* The first half of ingest: the raw row is flushed as pending.
InsertRaw(s) ==
    /\ Pending(s)
    /\ InScope(known[s], skipUnknown[s], Payload(s))
    /\ LockWrite(s)
    /\ \E i \in NextIds(txRaw) :
          /\ txRaw' = txRaw \cup {RawRow(i, Payload(s), "pending")}
          /\ rawIds' = [rawIds EXCEPT ![s] = Extend(@, pos[s], i)]
    /\ pc' = [pc EXCEPT ![s] = "parse"]
    /\ UNCHANGED <<disk, txParsed, batch, pos, known, skipUnknown, parsedIds,
                   purge, uploads>>

ParseIs(s, outcome) == pc[s] = "parse" /\ Outcome(known[s], Payload(s)) = outcome

\* Mutant: the raw row is not marked parsed.
ParseOkUnmarked(s) ==
    /\ ParseIs(s, "parsed")
    /\ \E i \in NextIds(txParsed) :
          /\ txParsed' = txParsed \cup {ParsedRow(i, rawIds[s][pos[s]], Payload(s))}
          /\ parsedIds' = [parsedIds EXCEPT ![s] = Extend(@, pos[s], i)]
    /\ pc' = [pc EXCEPT ![s] = "ingest"]
    /\ pos' = [pos EXCEPT ![s] = @ + 1]
    /\ UNCHANGED <<disk, txRaw, writer, batch, known, skipUnknown, rawIds, purge, uploads>>

ParseOk(s) ==
    /\ ParseIs(s, "parsed")
    /\ txRaw' = SetStatus(txRaw, rawIds[s][pos[s]], "parsed")
    /\ \E i \in NextIds(txParsed) :
          /\ txParsed' = txParsed \cup {ParsedRow(i, rawIds[s][pos[s]], Payload(s))}
          /\ parsedIds' = [parsedIds EXCEPT ![s] = Extend(@, pos[s], i)]
    /\ pc' = [pc EXCEPT ![s] = "ingest"]
    /\ pos' = [pos EXCEPT ![s] = @ + 1]
    /\ UNCHANGED <<disk, writer, batch, known, skipUnknown, rawIds, purge, uploads>>

\* Mutant: the raw row keeps the status it was inserted with.
ParseErrorUnmarked(s) ==
    /\ ParseIs(s, "error")
    /\ pc' = [pc EXCEPT ![s] = "ingest"]
    /\ pos' = [pos EXCEPT ![s] = @ + 1]
    /\ UNCHANGED <<disk, tx, batch, known, skipUnknown, rawIds, parsedIds,
                   purge, uploads>>

ParseError(s) ==
    /\ ParseIs(s, "error")
    /\ txRaw' = SetStatus(txRaw, rawIds[s][pos[s]], "error")
    /\ pc' = [pc EXCEPT ![s] = "ingest"]
    /\ pos' = [pos EXCEPT ![s] = @ + 1]
    /\ UNCHANGED <<disk, writer, txParsed, batch, known, skipUnknown, rawIds,
                   parsedIds, purge, uploads>>

\* An exception that is no KrxParserError passes through ingest and the
\* loop over the batch to session_scope.
ParseRaises(s) == ParseIs(s, "raises") /\ Rollback(s)

-----------------------------------------------------------------------------
(* Deletes, from the Admin page.                                           *)

\* Mutant: raw_messages alone, and no cascade (foreign_keys is off).
DeleteAllRaw(s) ==
    /\ s \in Admins /\ pc[s] = "idle"
    /\ LockWrite(s)
    /\ txRaw' = {} /\ UNCHANGED txParsed
    /\ pc' = [pc EXCEPT ![s] = "commit"]
    /\ UNCHANGED <<disk, upload, purge, uploads>>

DeleteAll(s) ==
    /\ s \in Admins /\ pc[s] = "idle"
    /\ LockWrite(s)
    /\ txParsed' = {} /\ txRaw' = {}
    /\ pc' = [pc EXCEPT ![s] = "commit"]
    /\ UNCHANGED <<disk, upload, purge, uploads>>

DeleteErrors(s) ==
    /\ s \in Admins /\ pc[s] = "idle"
    /\ LockWrite(s)
    /\ txRaw' = WithoutIds(txRaw, ErrorIds(txRaw))
    /\ txParsed' = Cascade(txParsed, ErrorIds(txRaw))
    /\ pc' = [pc EXCEPT ![s] = "commit"]
    /\ UNCHANGED <<disk, upload, purge, uploads>>

(* delete_by_transaction_code: a SELECT, which opens no transaction, and   *)
(* two DELETEs.                                                            *)

SelectRawIds(s, c) ==
    /\ s \in Admins /\ pc[s] = "idle"
    /\ code' = [code EXCEPT ![s] = c]
    /\ picked' = [picked EXCEPT ![s] = RawIdsOf(parsed, c)]
    /\ pc' = [pc EXCEPT ![s] = "deleteParsed"]
    /\ UNCHANGED <<disk, tx, upload, uploads>>

\* Mutant: the DELETE has lost its WHERE.
DeleteAnyParsed(s) ==
    /\ pc[s] = "deleteParsed"
    /\ LockWrite(s)
    /\ txParsed' = {}
    /\ pc' = [pc EXCEPT ![s] = IF picked[s] = {} THEN "commit" ELSE "deleteRaw"]
    /\ UNCHANGED <<disk, txRaw, upload, purge, uploads>>

\* Mutant: the raw rows of the code are left behind.
DeleteParsedAlone(s) ==
    /\ pc[s] = "deleteParsed"
    /\ LockWrite(s)
    /\ txParsed' = OtherCodes(txParsed, code[s])
    /\ pc' = [pc EXCEPT ![s] = "commit"]
    /\ UNCHANGED <<disk, txRaw, upload, purge, uploads>>

DeleteParsed(s) ==
    /\ pc[s] = "deleteParsed"
    /\ LockWrite(s)
    /\ txParsed' = OtherCodes(txParsed, code[s])
    /\ pc' = [pc EXCEPT ![s] = IF picked[s] = {} THEN "commit" ELSE "deleteRaw"]
    /\ UNCHANGED <<disk, txRaw, upload, purge, uploads>>

DeleteRaw(s) ==
    /\ pc[s] = "deleteRaw"
    /\ Cardinality(picked[s]) <= MaxVariables
    /\ txRaw' = WithoutIds(txRaw, picked[s])
    /\ txParsed' = Cascade(txParsed, picked[s])
    /\ pc' = [pc EXCEPT ![s] = "commit"]
    /\ UNCHANGED <<disk, writer, upload, purge, uploads>>

TooManyVariables(s) ==
    /\ pc[s] = "deleteRaw"
    /\ Cardinality(picked[s]) > MaxVariables
    /\ Rollback(s)

-----------------------------------------------------------------------------
(* The end of session_scope, and the failures.                             *)

AtCommit(s) ==
    \/ pc[s] = "commit"
    \/ pc[s] = "ingest" /\ pos[s] > Len(batch[s])

\* Mutant: the transaction ends and its write lock does not.
CommitKeepsLock(s) ==
    /\ AtCommit(s)
    /\ raw' = IF writer = s THEN txRaw ELSE raw
    /\ parsed' = IF writer = s THEN txParsed ELSE parsed
    /\ UNCHANGED tx
    /\ Leave(s)

Commit(s) ==
    /\ AtCommit(s)
    /\ raw' = IF writer = s THEN txRaw ELSE raw
    /\ parsed' = IF writer = s THEN txParsed ELSE parsed
    /\ writer' = IF writer = s THEN NoSession ELSE writer
    /\ UNCHANGED <<txRaw, txParsed>>
    /\ Leave(s)

\* "database is locked": the busy timeout ran out at the first statement
\* that writes.  (A one-statement delete that fails so changes nothing.)
LockTimeout(s) ==
    /\ \/ pc[s] = "deleteParsed"
       \/ Pending(s) /\ InScope(known[s], skipUnknown[s], Payload(s))
    /\ ~CanWrite(s)
    /\ Rollback(s)

\* The process stops (stop.sh, a kill) and starts again: the journal's
\* uncommitted frames are ignored, every session is a new one.
Crash ==
    /\ writer' = NoSession /\ txRaw' = raw /\ txParsed' = parsed
    /\ pc' = [s \in Sessions |-> "idle"]
    /\ batch' = [s \in Sessions |-> NoBatch]
    /\ pos' = [s \in Sessions |-> 1]
    /\ known' = [s \in Sessions |-> {}]
    /\ skipUnknown' = [s \in Sessions |-> FALSE]
    /\ rawIds' = [s \in Sessions |-> NoIds]
    /\ parsedIds' = [s \in Sessions |-> NoIds]
    /\ code' = [s \in Sessions |-> NoCode]
    /\ picked' = [s \in Sessions |-> {}]
    /\ UNCHANGED <<disk, uploads>>

-----------------------------------------------------------------------------

\* What a session does because its user asks for it.
Request(s) ==
    \/ \E b \in Batches, registry \in Registries, skip \in BOOLEAN :
          StartUpload(s, b, registry, skip)
    \/ DeleteAll(s)
    \/ DeleteErrors(s)
    \/ \E c \in Codes : SelectRawIds(s, c)

Parse(s) == ParseOk(s) \/ ParseError(s) \/ ParseRaises(s)

\* What it does on its own once asked.
Proceed(s) ==
    \/ SkipFrame(s)
    \/ InsertRaw(s)
    \/ Parse(s)
    \/ DeleteParsed(s)
    \/ DeleteRaw(s)
    \/ TooManyVariables(s)
    \/ Commit(s)
    \/ LockTimeout(s)

Next ==
    \/ \E s \in Sessions : Request(s) \/ Proceed(s)
    \/ Crash

Spec == Init /\ [][Next]_vars

\* A script thread that was started runs to its end.
FairSpec == Spec /\ \A s \in Sessions : WF_vars(Proceed(s))

-----------------------------------------------------------------------------
(* Properties.                                                             *)

PcValues == {"idle", "ingest", "parse", "commit", "deleteParsed", "deleteRaw"}

\* The ids stored for a batch, by position in the batch.
IsIdMap(f) == f \in [DOMAIN f -> RowIds] /\ DOMAIN f \subseteq 1..MaxBatch

\* The type invariant: the rows and the local variables of ingest_frames,
\* ingest_many and delete_by_transaction_code have the types of the code.
TypeOK ==
    /\ raw \subseteq RawRows /\ parsed \subseteq ParsedRows
    /\ writer \in Sessions \cup {NoSession}
    /\ txRaw \subseteq RawRows /\ txParsed \subseteq ParsedRows
    /\ pc \in [Sessions -> PcValues]
    /\ batch \in [Sessions -> Batches \cup {NoBatch}]
    /\ pos \in [Sessions -> 1..(MaxBatch + 1)]
    /\ known \in [Sessions -> SUBSET Codes]
    /\ skipUnknown \in [Sessions -> BOOLEAN]
    /\ DOMAIN rawIds = Sessions /\ \A s \in Sessions : IsIdMap(rawIds[s])
    /\ DOMAIN parsedIds = Sessions /\ \A s \in Sessions : IsIdMap(parsedIds[s])
    /\ code \in [Sessions -> Codes \cup {NoCode}]
    /\ picked \in [Sessions -> SUBSET RowIds]
    /\ uploads \in 0..MaxUploads

\* The two tables fit together: ids are unique, and each parsed row belongs
\* to a raw row of its own, that is marked parsed and holds the payload the
\* body was decoded from.  (raw_messages 1--0..1 parsed_messages; what
\* Repository.get and search rely on when they follow row.raw.)
RowsLinkedIn(R, P) ==
    /\ \A q, r \in R : q.id = r.id => q = r
    /\ \A o, p \in P : o.id = p.id \/ o.rawId = p.rawId => o = p
    /\ \A p \in P : \E r \in R :
          r.id = p.rawId /\ r.status = "parsed" /\ r.payload = p.body

RowsLinked == RowsLinkedIn(raw, parsed)

\* A raw row is committed with its verdict: the status 'pending' that ingest
\* flushes first is never seen by another session, whatever fails between
\* the flush and the commit.
NoPendingCommitted == \A r \in raw : r.status # "pending"

\* Every payload whose parse failed stays on file as an error row: once
\* ingest has inserted the raw row, it leaves ingest with the row marked
\* 'parsed' or 'error'.  (models.py: "every payload the parser ingests,
\* stored verbatim (BLOB), even when parsing fails".)
EveryPayloadStored ==
    [][\A s \in Sessions : Parse(s) =>
          \E r \in txRaw' : r.id = rawIds[s][pos[s]] /\ r.status # "pending"]_vars

\* parsed_messages holds one row per successfully parsed record: a raw row
\* marked 'parsed' has its parsed row.  (A delete by TR code removes the
\* parsed rows and "their linked raw rows".)
ParsedRawHasRow ==
    \A r \in raw : r.status = "parsed" => \E p \in parsed : p.rawId = r.id

\* A delete by TR code leaves the records of the other codes alone.
PurgeSparesOtherCodes ==
    [][\A s \in Sessions : Commit(s) /\ code[s] # NoCode =>
          OtherCodes(parsed, code[s]) \subseteq parsed']_vars

\* What a session writes before it commits is seen by nobody, and what a
\* failed session wrote is gone: the tables change only by the operations of
\* the archive, whole uploads and whole deletes.  A delete by TR code removes
\* the raw rows it selected together with the parsed rows, never one of the two.
ArchiveSpec == Archive!Spec

\* With one session, the deletes are the documented ones.
DocumentedArchive == Archive!DocumentedSpec

\* A session that was asked for something ends, and the write lock with it.
SessionsEnd == \A s \in Sessions : pc[s] # "idle" ~> pc[s] = "idle"

\* Nobody is kept from writing for ever: the lock is free again and again.
LockIsReleased == []<>(writer = NoSession)

-----------------------------------------------------------------------------
(* The inductive invariant: what makes the properties above hold.          *)

\* The lock: a transaction is open exactly in the states between the first
\* write and the end of the scope, and without one there is no private view.
LockInv ==
    /\ writer = NoSession => txRaw = raw /\ txParsed = parsed
    /\ \A s \in Sessions :
          /\ pc[s] \in {"parse", "commit", "deleteRaw"} => writer = s
          /\ writer = s => pc[s] \in {"ingest", "parse", "commit", "deleteRaw"}

\* The writer's view is as consistent as the committed tables, but for the
\* one raw row whose payload is being parsed.
ViewInv ==
    /\ RowsLinkedIn(txRaw, txParsed)
    /\ \A r \in txRaw : r.status = "pending" =>
          \E s \in Sessions : /\ writer = s /\ pc[s] = "parse"
                              /\ r.id = rawIds[s][pos[s]]

\* The positions of the batch that ingest has dealt with, and their marks.
Done(s) == {i \in 1..(pos[s] - 1) : InScope(known[s], skipUnknown[s], batch[s][i])}

Mark(s, i) == IF i < pos[s] THEN Outcome(known[s], batch[s][i]) ELSE "pending"

\* An upload in progress: which positions are stored, ...
StoredPositions(s) ==
    /\ batch[s] \in Batches /\ known[s] \in Registries
    /\ pos[s] \in 1..(Len(batch[s]) + 1)
    /\ pc[s] = "parse" => /\ pos[s] <= Len(batch[s])
                          /\ InScope(known[s], skipUnknown[s], Payload(s))
    /\ DOMAIN rawIds[s] = Done(s) \cup (IF pc[s] = "parse" THEN {pos[s]} ELSE {})
    /\ DOMAIN parsedIds[s] =
          {i \in Done(s) : Outcome(known[s], batch[s][i]) = "parsed"}
    /\ \A i \in Done(s) : Outcome(known[s], batch[s][i]) # "raises"
    /\ writer # s => DOMAIN rawIds[s] = {}

\* ... the ids of an upload are new, increasing and bounded, ...
NewIds(f, T) ==
    /\ \A i, j \in DOMAIN f : i < j => f[i] < f[j]
    /\ \A i \in DOMAIN f, r \in T : r.id < f[i]
    /\ \A i \in DOMAIN f : \E top \in Archive!TopIds(T) : f[i] <= top + i

\* ... and the view is the committed tables plus the rows stored so far.
UploadView(s) ==
    /\ txRaw = raw \cup {RawRow(rawIds[s][i], batch[s][i], Mark(s, i)) :
                            i \in DOMAIN rawIds[s]}
    /\ txParsed = parsed \cup {ParsedRow(parsedIds[s][i], rawIds[s][i], batch[s][i]) :
                                  i \in DOMAIN parsedIds[s]}

NothingStored(s) == pos[s] = 1 /\ rawIds[s] = NoIds /\ parsedIds[s] = NoIds

UploadOk(s) ==
    /\ pc[s] \notin {"ingest", "parse"} => NothingStored(s)
    /\ pc[s] \in {"ingest", "parse"} =>
          /\ StoredPositions(s)
          /\ NewIds(rawIds[s], raw) /\ NewIds(parsedIds[s], parsed)
          /\ writer = s => UploadView(s)

UploadInv == \A s \in Sessions : UploadOk(s)

\* A delete in progress: the view differs from the tables by one delete.
DeleteOk(s) ==
    /\ pc[s] \in {"idle", "ingest", "parse"} => code[s] = NoCode /\ picked[s] = {}
    /\ pc[s] \in {"deleteParsed", "deleteRaw"} => code[s] \in Codes
    /\ pc[s] = "deleteRaw" =>
          txRaw = raw /\ txParsed = OtherCodes(parsed, code[s])
    /\ pc[s] = "commit" =>
          \/ code[s] = NoCode /\ picked[s] = {} /\ txRaw = {} /\ txParsed = {}
          \/ /\ code[s] = NoCode /\ picked[s] = {}
             /\ txRaw = WithoutIds(raw, ErrorIds(raw))
             /\ txParsed = Cascade(parsed, ErrorIds(raw))
          \/ /\ code[s] \in Codes
             /\ txRaw = WithoutIds(raw, picked[s])
             /\ txParsed = Cascade(OtherCodes(parsed, code[s]), picked[s])

DeleteInv == \A s \in Sessions : DeleteOk(s)

IInv ==
    /\ TypeOK
    /\ RowsLinked
    /\ NoPendingCommitted
    /\ LockInv
    /\ ViewInv
    /\ UploadInv
    /\ DeleteInv

=============================================================================

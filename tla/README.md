# A TLA+ verification of krx-clearlog

krx-clearlog parses the fixed-width messages of the KRX clearing house, keeps
them in SQLite and shows them in a Streamlit application.  These modules model
the parts of it where several browser sessions, the SQLite file, the schema
directory and the process-wide caches meet; the way of a record from the bytes of
an upload to the page that shows it; and the scripts that start, stop and upgrade
the application.  TLC checks them on small instances.  TLAPS proves the safety
properties for every instance, most of them outright and some under a hypothesis
that says which sessions do what (section 5); liveness stays with TLC.

    cd tla
    tlc -workers 2 -config MCStore.cfg MCMessageStore
    for m in MessageStore LookupPages SchemaEditor FrameScanner \
             RecordSlicer RecordLayout UploadPage Deployment
    do tlapm ${m}Proofs.tla; done

## 1. Inventory

| Component | State | Operations | What is hard | What makes it correct |
| --- | --- | --- | --- | --- |
| **Message store** `krx_parser/db/repository.py`, `models.py`, `engine.py`, `session_scope` in `app/helpers.py` | tables `raw_messages`, `parsed_messages`; SQLite's write lock; each session's transaction | `ingest`, `ingest_many`, `ingest_frames`, `delete_all`, `delete_by_transaction_code`, `delete_errors` | script threads of several sessions; a read outside any transaction used by a later write; exceptions and timeouts half way; restarts; row ids handed out again | tables linked one to one; no half upload or half delete visible; no `pending` row visible; a delete by code deletes that code, whole |
| **Reading pages** `search`, `get`, `_hydrate`, counts; `2_Lookup.py`, `3_Inspect.py`, `home.py`, `5_Admin.py` | rows read so far, the record clicked, session state | search, Open, get, count | several SELECTs to build one result while others write; ids kept across reruns | a record that is stored is read as it is; Inspect shows the record clicked; counts fit together |
| **Schema registry and editor** `krx_parser/registry.py`, `4_Schemas.py`, `get_registry`, `get_parser` | one YAML file per TR code, temporary files, two cached values | load, save, delete, invalidate | file system calls of several sessions interleaved; invalidation during a load; one cache built from another | the directory changes by whole files; the caches agree with it; a save or delete that was begun is not disturbed by edits of other codes |
| **Frame scanner** `krx_parser/frame.py` | position in the stream | `iter_frames`, `parse_frame` | lengths that overrun or are negative, rejected candidates overlapping real frames | frames disjoint, in order, none missed; the scan ends |
| **Record slicer and upload page** `iter_records`, `extract`, `1_Paste_Upload.py` | the page's payload, frames, records; the cached parser | extract, preview, save | slicing with one registry, storing with another; records that end with, or behind, the payload; a record length of 0 | whole streams cut whole; nothing cut by an old length is stored as parsed |
| **Field decoding** `krx_parser/parser.py` | none | `peek_transaction_code`, `parse`, `_decode_*` | implied decimals, signs, points, blanks; which exception escapes | a number is what its columns spell |
| **Schema model** `krx_parser/schema.py`, `schemas/*.yaml` | none | `build_schema` | offsets of fields and of arrays of elements | fields tile the record |
| **Body serialisation** `krx_parser/db/serialize.py` | none | `body_to_json`, `body_from_json` | numbers as strings; arrays; a schema changed between write and read | what is read back is what was parsed |
| **Migrations** `alembic/`, `create_all` in `get_engine_cached` | tables, indexes and revision of the file; the cached engine | upgrade, create_all | either may be cut short, or meet the other half way | a page with an engine finds its tables; a revision is never claimed too early |
| **Service control** `shl/*.sh` | pid file, processes | install, start, stop | a command at a time, between crashes, pids used again, processes that ignore SIGTERM | a stop that reports success has stopped the application; every script ends |
| **Settings, code tables, navigation** | environment | none | nothing | not modelled: no state |

Interaction: every page calls `get_registry()` and opens `repo_scope()`, which
is a database session whose commit or rollback is the end of the `with` block;
the pages share the process, its two cached values, the schema directory and the
SQLite file, and nothing else.  SQLAlchemy and `sqlite3` start a transaction at
the first INSERT, UPDATE or DELETE, not at a SELECT: this is where most of the
store's hazards come from.

## 2. Modules

**`MessageTables`** holds the rows and what one SQL statement does to them.  A
payload is a model value with a TR code (`TrOf`) and a `Form`: whether decoding
its fields succeeds, raises a `KrxParserError`, or raises something else.
`Outcome` is `Parser.parse` against a registry, which is the set of the codes it
knows.  For a frame, the message type of the header is the code in its DATA:
`iter_frames` rejects every frame of 22 bytes or more where they differ, and a
shorter one cannot be parsed whatever the code, so one `TrOf` stands for both.
`NextIds` is SQLite's choice of an `INTEGER PRIMARY KEY` that is not declared
`AUTOINCREMENT`: one more than the largest id *now* in the table.

**`MessageArchive`** is the abstract specification: two tables that change only
by whole operations.  `Spec` is what the code can be held to; in it a delete by TR
code comes in two steps.  `Select` picks the raw ids the code has; `Purge`, at some
later moment, removes the parsed rows the code has *then* and the raw rows picked,
all of them, or the session forgets them and nothing goes.  `DocumentedSpec` is
what the docstring says: the parsed rows and the raw rows linked to them, at once.

**`MessageStore`** is the detailed one.  The committed tables are `raw`,
`parsed`; the writer's view is `txRaw`, `txParsed`, owned by `writer`.  A session
is a script thread inside one `session_scope`.  `StartUpload`, `SkipFrame`,
`InsertRaw` (the first flush of `ingest`), `ParseOk`, `ParseError`,
`ParseRaises` are `ingest_frames` (`skipUnknown` TRUE) and `ingest_many` (FALSE);
`DeleteAll`, `DeleteErrors`, and `SelectRawIds`, `DeleteParsed`, `DeleteRaw`,
`TooManyVariables` are the deletes; `Commit`, `LockTimeout`, `Rollback`, `Crash`
are the ends a scope can come to.  `delete_all` is one action for two
statements: the second runs under the lock the first has taken, and nothing of
it is seen before the commit.

**`LookupPages`** extends `MessageStore` with viewers, who read the committed
tables one SELECT at a time: `Search`/`Hydrate`/`EndSearch`, `ClickOpen` (a rerun
of the script with a new search), `Get`, and `StartCounting`/`Count`.  A history
variable, `purged`, holds the viewers since whose page began (its first SELECT, the
one behind a later click included) rows were deleted; nothing of the code depends on
it.

**`SchemaFolder`** is the abstract map from codes to texts; **`SchemaEditor`**
the file system calls of load, save and delete (names lead to inodes, an open
descriptor to an inode) with the two caches.  A text mangled by two writers may be
one that `parse_schema_yaml` accepts, so a load takes it or fails (`ReadFile`,
`LoadFails`).  What `st.cache_resource` does
(one computation at a time under a lock, `clear()` dropping value and lock) is
modelled from its use and marked external.

**`FrameScanner`** is the loop of `iter_frames`, one action for each way an
iteration can go: `NoneLeft`, `BadHeader`, `Overrun`, `Reject`, `Yield`.  A log is
a sequence of cells; a cell with a marker also says what the code reads of the
bytes behind it (whether a header parses there, the length it declares, whether
its DATA begins as `_data_matches_header` wants).  Markers may stand anywhere,
also in what another marker claims as its header or DATA, so the logs are a
superset of those that bytes can spell; `skip_invalid` and `validate_data` are
chosen at the start.  A declared length is any integer, as `int()` accepts a sign
(`spec/messages.md` has the field as an integer padded with zeros on the left).  A
frame whose length takes back its whole header (-82 and less) leaves the cursor
where it is or moves it back, and slices and searches then count from the end of
the log (`Index`).  `Advancing` says that no such frame has been yielded; the
properties say what holds meanwhile, and that nothing else keeps the scan going.

**`RecordSlicer`** is the loop of `iter_records`, with an action for each way an
iteration can go: `Cut`, `TailTooShort`, `UnknownCode`, `TailIncomplete`.  All it
learns of the payload is the record length registered for the code behind the
cursor, so `lengthAt` gives one, or `NoRecord`, for every position: a superset
of what bytes and a registry can spell.  A record length is any integer, as
`build_schema` accepts 0 and negative ones: with 0 the loop cuts empty records for
ever, with a negative one the cursor goes back, and reads from the end of the
payload when it is negative itself (`Here`).  `Onward` says that no record cut so
far was of that kind.

**`RecordLayout`** is `schema.py`: which layouts `build_schema` accepts, the offsets
it computes, and the byte slots (`Slots`) the decoders read by them.
**`FieldDecoding`** is `parser.py` and `serialize.py` on sequences of bytes: `PeekStatus`,
`PeekCode`, `ParseStatus` and `BodyOf` are `Parser.parse`, with `DecodeLong`, `DecodeString`
and `DecodeNumeric` below; `ToJson` and `FromJson` the two conversions of a body.
A result says whether it is a value, a `KrxParserError` or another exception.
EUC-KR is reduced to pairs of bytes from 128 up; `ascii` and `latin-1` are the other
encodings known, and any other is the `LookupError` of an unknown name.

**`UploadPage`** composes the three with the two caches: `PageInit` unpacks and
sanitizes an upload and asks the slicer of every position with the *cached*
registry; `SliceStep` is the slicer; `ShowPreview` and `ShowWarning` what follows;
`Save` parses and stores by the registry of *now*; `EditSchema` is another session's
save on the Schemas page; `Inspect` reads a record back (`_hydrate`).  The store in
it is the archive of `MessageArchive`: an upload is stored whole or not at all,
which `MessageStore` is shown to implement.  Frames take the other way, through
`FrameScanner`.

**`ServiceControl`** is `start.sh` and `stop.sh`, a step for each command that reads or
changes the pid file or a process: the test of the pid file, `cat`, `kill -0`, `rm`, the
launch, and `echo $! >` in two steps (the file is emptied, then written); in the wait
of `stop.sh` the last `kill -0` (`TimeIsUp`) and the `kill -9` (`Kill`) are two, so that the
pid may change hands between them.  A process boots, serves the port or ends because
another serves it, may end at any time and may ignore SIGTERM for ever; after a
SIGKILL the kernel ends it.  Other programs get free pids.  `disturbed` records that
two scripts have run at once.

**`DbBootstrap`** is `alembic upgrade head` and `create_all`, a statement a step, each
CREATE TABLE and each CREATE INDEX: SQLite commits every one of them on its own, so both can be cut short, and either can
find a table the other has just made.  **`Deployment`** composes it with
`ServiceControl`: the engine lives as long as the process that serves the port,
the file longer.

`MCMessageStore`, `MCLookupPages`, `MCSchemaEditor`, `MCFrameScanner`, `MCUploadPage`, `MCDeployment`
give the constants their values.  Operators introduced by a comment `Mutant:` are faulty variants of the
definition below them; each property fails when its mutant takes the
definition's place, and nothing else uses them.

## 3. Runs that pass

| Run | cfg | Instance | Shows |
| --- | --- | --- | --- |
| store | MCStore | 2 sessions that upload, one of them deletes; 3 payloads (good of A, good of B, one that raises), registries {A,B} and {A}, batches of 1..2, 2 uploads, 1 bound parameter; weak fairness | `TypeOK`, `IInv`, `RowsLinked`, `NoPendingCommitted`, refinement of the archive (`ArchiveSpec`), `PurgeSparesOtherCodes`, `SessionsEnd`, `LockIsReleased` |
| lookup | MCLookup | 1 session that uploads and deletes, 1 viewer; batches of 1, 4 uploads, 2 bound parameters | `ViewerTypeOK`, `PayloadMatchesBody`, `OpenedRecordIsShown`, `ParsedNeverExceedRaw`, `StoredRecordsHydrate` |
| editor_own | MCEditorOwn | 2 sessions with a code each, a short and a long text, 1 restart | refinement of the folder (`FolderSpec`), `BegunChangesHold`, `StaleOnlyIfOvertaken` |
| editor_live | MCEditorLive | 2 sessions, one code; weak fairness | `TypeOK`, `PagesEnd` |
| scanner | MCScanFrames | every log of up to 5 cells; headers of 2 cells that declare -3, -2, -1 or 2 more; both options; weak fairness | `FramesDisjoint`, `NoneMissed`, `MissedOnlyBehindOverrun`, `ScanEnds`, and the inductive invariant `IInv` |
| upload | MCUpload | 20 schema directories, of which 15 load, one with an empty schema; some 440 uploads of up to 20 bytes, among them every value of 3 bytes out of 6, the last one also a tab, and numbers below a millionth; 1 edit between any two steps; weak fairness of the script | `WholeStreamCut`, `LayoutTiles`, `ParsedAsCut`, `PositionalValue`, `ReadBack`, `ExtractEnds`, `PageTypeOK`, and the inductive invariant `SlicerIInv` |
| deployment | MCDeploy | 2 operators, 2 pids, a timeout of 1, 1 other program; installs beside the application; weak fairness | `StopStops`, `TablesWhole`, `ScriptsEnd`, `TablesArrive`, and the inductive invariant `DeployIInv` |

Why the bounds are enough.  The races of the store are between one session's
open transaction or stale read and one commit of another, so two sessions reach
them; two codes tell "this code" from "another"; batches of two have a first
and a last record, and two uploads make ids grow, vanish and come back.  With
`MaxVariables` 1 a list of two ids is already too long.  Ids are bounded by the
uploads.  In the editor two codes make a load of two reads, so that a change can
fall before, between or after them; two texts of different length make a
torn overwrite distinct; with one code at most three inodes are in use at a time
(file, temporary file, a descriptor whose name has been taken away), with two
codes four.  A restart may come at every step, and one leaves every leftover a
later step could meet.  In the scanner, 5 cells hold
two frames with text between them, a header inside another's DATA or header,
and one too near the end; the lengths are one that takes back part of the header,
one that takes back all of it, one that takes back more, and one above `MinBody`
(a negative one leaves no DATA, which is below it).  Record lengths are those of the
20 directories, 0 among them; negative ones are left to the theorems about the
slicer.

In the lookup run one session's uploads and deletes come between any two SELECTs of
a viewer; with four uploads an id can vanish and come back before a page begins and
again while it is under way, and records can be stored behind it.

In the upload run a record has a number, a code, a date and a mark of a byte each, and then one
of: a signed number of 3 bytes, an unsigned one, one whose point may stand last, an
integer, a text, a number without digits, a number with eight places behind the
point (whose values `str()` may write with an exponent), arrays of two elements
of one or two fields and a filler behind them.  The values of {1, 5, blank, minus, point, a
letter, a byte above 127} in three columns, with a tab in the last, hold every case
the decoders tell apart: sign, point, blanks left, right and inside, nothing but
blanks, what `ascii` cannot decode.  Chains of up to three
records have tails that are empty, shorter than the peek, cut short, unknown, or
hold a marker.  One edit is enough for a stale parser: the registry cached
before it and the registry after it are any two.  In the deployment run two
operators make two scripts meet, two pids let one script's process live while
another boots or a pid changes hands, and with a timeout of 1 a process may end
before, during and after the wait.

Deadlock is checked in every run.

Fairness.  The `FairSpec`s of the store and the editor assume weak fairness of what a script does on
its own, for each session: a started script thread is run by the interpreter,
and a wait for SQLite's lock ends in one of the actions listed.  Nothing is assumed of users (`Request`), of crashes, or of who gets a
lock first.  That of the scanner, and of the upload page, assumes that the loop
runs: `extract` makes a list of the generator; nothing is assumed of Save,
Inspect or an edit.  That of a deployment assumes that a script that was
started runs on, that a booting process gets as far as its port, that the kernel ends
what was sent a SIGKILL, and, for `TablesArrive`, that alembic's statements run and
pages are shown again and again.  Nothing makes a process heed a SIGTERM, or an
operator run a script.

## 4. Runs that find what the documentation denies

| Run | Property | The code does |
| --- | --- | --- |
| store_orphans | `ParsedRawHasRow` | an upload committed between the SELECT and the DELETE of a delete by code keeps its raw row and loses its parsed row |
| store_raises | `EveryPayloadStored` | an exception that is no `KrxParserError` loses the record and its batch |
| editor_same_code | `FolderSpec` | two saves of a code share a temporary file; a mangled text is renamed into place |
| editor_parser | `ParserFresh` | the cached parser is never rebuilt |
| store_two_admins | `PurgeSparesOtherCodes` | the raw ids one session has selected are handed out again after another's delete, and records of another code are deleted (repository.py:228; the id columns are not `AUTOINCREMENT`, which `spec/design.md` line 230 says they are) |

More disagreements have no run of their own: they show when the instance or the
property of a passing run is changed as described, or are actions of the model.

- A page of a viewer fails when its record is deleted between the two SELECTs and
  no other has its raw id: `row.raw` is then None (`_hydrate`, repository.py:264).
  When a record stored since has that raw id, the page shows the fields of the one
  and the payload of the other: `PayloadMatchesBody` for all viewers instead of
  the `Steady` ones.  `StoredRecordsHydrate` says that neither happens to a record that
  is still stored.
- `OpenedRecordIsShown` for all viewers: a record deleted after it was listed leads to
  "gone", or to another that was given its *parsed* id, where the README of the
  repository has Open "jump to" the row's record (line 43).
- `ParsedNeverExceedRaw` for all viewers: it fails when a delete falls between the
  counts.
- `RegistryFresh` as an invariant of editor_own: a load that is under way when the
  other session's save ends in `clear()` caches what it read before the save, where
  4_Schemas.py:43 says "Force the cached registry to reload from disk on next page
  run".  `StaleOnlyIfOvertaken` says that nothing else makes it stale.
- `iter_frames` for ever: a header that declares -82 or less is yielded and the
  cursor does not pass it, where frame.py:167-168 says "once a frame is emitted, the
  cursor advances past its DATA".  It is what `~Advancing` lets out of `ScanEnds`.
- `extract` for ever: a schema with an empty layout and record length 0 is accepted,
  and `iter_records` cuts empty records without end (helpers.py:91).  It is what
  `~Onward` lets out of `ExtractEnds`.
- Two sessions that edit the *same* code: `BegunChangesHold` fails, a rename or an
  unlink finds its file gone and the page ends with a traceback (`ReplaceFails`,
  `UnlinkFails`; editor_live has them).
- "Every well-formed frame" (frame.py:151, "so the real frame trailing behind can
  still be found", frame.py:168-170) in the scanner: a header that declares more
  DATA than the log has left ends the scan (`Overrun`), and the frames behind it
  are dropped.  `MissedOnlyBehindOverrun` says that nothing else is.
- "Upgrades succeed" in the deployment: on a file that `create_all` has made, or
  that an interrupted upgrade has begun, every upgrade fails at its first CREATE
  (`UpgradeFails`) until the tables are removed, where `docs/INSTALL.md:271-272`
  says "migrations are idempotent" and `shl/install.sh:11` "Re-running is safe".
  The pages work all the same (`TablesArrive`).
- `StopStops` without `disturbed`: a `stop.sh` between the launch and the write of the
  pid file (start.sh:50) finds no pid file, ends with success and stops nothing.  Of
  two `start.sh` at once, the pid file names the second one's process, which may
  be the one that found the port taken; a later `stop.sh` then reports success and
  the first one's application lives on.
- "A page that found records gets as far as its Save button" in the upload page:
  with one record the slider goes from 1 to 1 (1_Paste_Upload.py:150-155), which
  Streamlit refuses (`SliderFails`).
- `ReadBack` for a record whose schema was edited since: `Decimal()` of a text
  raises, and neither Lookup nor Inspect can show it (serialize.py:58).

## 5. What is proved

Every theorem is about the specification the runs check, for every value of its
constants that satisfies the named assumptions, and TLC evaluates those on every
run.  Where a theorem has a hypothesis (`ASSUME OneAdmin PROVE ...`), section 4
shows what happens without it.  Each inductive invariant below was checked by TLC
on the run of its module before it was proved.

**`MessageStoreProofs`**, under `TablesAssumption` and `StoreAssumption` (constants
have the right types; `NoSession` and `NoCode` are not a session and a code):

- `Inductive`: `Spec => []IInv`;
- `TypeCorrect`, `TablesLinked`, `PendingIsPrivate`: `TypeOK`, `RowsLinked`,
  `NoPendingCommitted` always hold;
- `Implements`: `Spec => ArchiveSpec`;
- `PurgesSpareOthers`: `PurgeSparesOtherCodes`, if one session at most is on the
  Admin page (`OneAdmin`; run store_two_admins without), however many upload;
- `ImplementsDocumented`, `ParsedRowsStay`: the documented archive
  (`DocumentedArchive`) and `ParsedRawHasRow`, if there is one session (`OneSession`; run
  store_orphans without).

None of the properties is inductive as it stands.  A commit publishes the
writer's view, so `RowsLinked` needs the same of the view, and a view is linked
but for the one row being parsed (`ViewInv`); that only one session writes, and
that without a writer the view is the tables, is `LockInv`.  Refinement needs to
know what the view *is*: for an upload, the tables plus a row for each position of
the batch already dealt with, under ids that are new, increasing and bounded by
the position (`UploadInv`: `StoredPositions`, `NewIds`, `UploadView`); for a delete,
the tables less one whole delete: the parsed rows of the code, its raw rows as
selected, nothing else (`DeleteInv`).  `IInv` is their conjunction.
The proof has a lemma per action (`InsertRawIInv`, `CommitIInv`, ...), which rest on
lemmas about the operators (`FreshId`, `ViewFacts`, `CascadeFacts`,
`NumberingFacts`), and three for the refinement (`UploadImplements`,
`PurgeImplements`, `StepImplements`): a commit of an upload is `Upload` with
`rawIds` and `parsedIds` as the numberings, a commit of a delete is a purge,
`SelectRawIds` is `Select`, the end of a scope without a commit forgets a selection,
every other step stutters.

The theorems with a hypothesis add one invariant each.  `PurgeInv`: the raw ids a
delete by code selected before its transaction began still belong to that code,
because ids are only handed out again after a delete, and nobody else deletes; it
is what a second admin breaks.  `SoloInv`: from the SELECT on, the tables are those
the ids were read from, so that the ids are exactly the raw rows of the parsed
rows to go; it is what an upload in between breaks.

**`LookupPagesProofs`**, under the same assumptions and `ViewersAssumption`:

- `ViewersTypeCorrect`: `ViewerTypeOK`, whatever is uploaded and deleted meanwhile;
- `StoredRecordsAreRead`: `StoredRecordsHydrate`, whatever is uploaded and deleted
  meanwhile and by however many sessions;
- `PayloadsMatch`, `OpensWhatWasClicked`, `MetricsAgree`: `PayloadMatchesBody`,
  `OpenedRecordIsShown`, `ParsedNeverExceedRaw`, with no hypothesis on who deletes: the
  properties speak of the pages since whose start nothing was deleted (`Steady`).

`StoredRecordsAreRead` rests on the store's `RowsLinked` alone.  For the last three the
invariant is about the steady pages: a step either deletes, and then no page is steady
behind it, or the tables only grow (`Grows`), so that a row a viewer has read is still
there with the same content when the next SELECT looks for its raw row or for its
parsed id, and a raw count read after a parsed count covers it (`ViewOf`, `CountOf`).

**`SchemaEditorProofs`**, for any sessions, codes, texts, inodes and restarts
(`EditorAssumption`):

- `EditorTypeCorrect`: `TypeOK`;
- `SavesAreAtomic`: `Spec => FolderSpec`, and `BegunChangesAreSafe`: `BegunChangesHold`, if
  no two sessions edit the same code (`DisjointEdits`; run editor_same_code without);
- `OnlyOvertakenLoadsAreStale`: `StaleOnlyIfOvertaken`, under the same hypothesis;
- `RegistryIsFresh`: `RegistryFresh`, if there is one session (`OneSession`; section 4
  without).

The invariant of the first pair ties names to inodes: no two names lead to one
inode, a session between opening its temporary file and the rename owns the inode
that name leads to and holds what it has written so far, and a name of a code always
leads to a whole text.  A restart only forgets descriptors.  `LoadsFresh` is what the cache
needs: while nobody is between a change and its `clear()`, what the load that holds
the lock has read is on disk, and what it has still to read is there.  A change
leads to a `clear()`, and that takes the lock away; so a load that ends with its lock has
read the directory as it is (`LoadedIsOnDisk`).  One session alone never loses a lock
while it loads.

**`FrameScannerProofs`**, for any log, header size, options and declared lengths, any
integers (`ScannerAssumption`):

- `ScanInductive`: `Spec => []IInv`;
- `ScanTypeCorrect`, `ScanDisjoint`, `ScanMissesNone`, `ScanComplete`: `TypeOK`,
  `FramesDisjoint`, `NoneMissed`, `MissedOnlyBehindOverrun` always hold.  They speak of the
  scan while it advances (`Advancing`), a hypothesis about the frames yielded and
  not about the headers the log may hold; section 4 says what it leaves out.

What they lack to be inductive is that the cursor has passed every frame yielded
(`End(f) <= i`) as long as it advances: it makes a new frame disjoint from the old ones.  `NothingBetween`
is what `find` gives (no frame starts between the cursor and the marker found),
`EndBehind` that a frame ends behind its start; each action has its lemma, and
`UnmovedIInv` and `MovedIInv` say what is common to those that stop and to those
that go on.

**`RecordSlicerProofs`**, for any payload, peek length and record lengths, any integers
(`SlicerAssumption`):

- `SlicerInductive`: `SlicerSpec => []SlicerIInv`;
- `SlicerTiles`, `SlicerCutsWhole`: `RecordsTile`, `WholeStreamCut` always hold; the first
  while the loop goes onward (`Onward`; section 4 says what it leaves out).

`WholeStreamCut` speaks of any cutting of the payload into whole records, and only
when the loop is over.  The invariant says where the loop is meanwhile: on every
such cutting, with just its records so far (`Follows`), so that there is only one;
and where it may stop (`StopsAtTail`).

**`RecordLayoutProofs`**, for any layout whose lengths and counts are natural numbers
(`MeasuredText`): `AcceptedTiles`, every text `build_schema` accepts is `Tiled`, arrays
of elements included.  `Starts` is a recursive function, and what it computes
needs induction.  The library's induction theorems take an operator, which the
provers cannot instantiate; `SetInduction` (a set that has 0 and the successor of
each of its members has every number) is derived here from the well-foundedness of
`<` on `Nat`, which takes none, and does instead.

**`UploadPageProofs`**, for any schema directories, uploads and number of edits
(`UploadAssumption`: what `build_schema` leaves unchecked, `Ordinary`):

- `PageSlices`: `PageSpec => SlicerSpec`, and with it `PageSlicerInductive`,
  `PageCutsWhole`: `SlicerIInv`, `WholeStreamCut`;
- `PageInductive`: `PageSpec => []PageIInv`; `PageTypeCorrect`, `StoredAsCut`,
  `LayoutsTile`: `PageTypeOK`, `ParsedAsCut`, `LayoutTiles`;
- `NumbersAsSpelled`: `PositionalValue`;
- `RecordsReadBack`: `ReadBack`.

`PageIInv` adds to the loop's invariant that `total` is the payload's length, so that
a record cut off is as long as its code says (`RecordLength`), and that what is
stored as parsed was parsed from that record by a schema of some registry, and is
what that schema makes of it (`StoredAsParsed`).  `NumbersAsSpelled` then is about the decoders alone.  Reading
digit by digit (`NumberOf`) and summing the columns by powers of ten (`Positional`)
are two recursive functions; `DigitsSumUp` shows them equal where no byte other than
a digit or a point follows a digit that counts (`InColumns`), column by column: the
sum so far is the number so far times the power of the columns still to come.
`StrippedNumber` shows that what `strip` leaves, when it is all digits, makes the
field such a text; `UnsignedIs`, `PointedIs` and `SignedIs` do the rest for the
three readings of a field, and `PlacesApart` shows that no other slot's value is
stored at the same place.  `EndsInDigit`, the property's hypothesis, is what the
proof asked for: behind the last digit a blank of any kind (also a tab, which
`strip()` takes off) makes the code read the digits as if they stood further right.

`RecordsReadBack` comes down to `ReadsBack`: the JSON text of a record that was
parsed is read, by the schema that parsed it, as that record.  Its heart is
`RereadsDecimal`, `Decimal(str(d)) = d` for every number and every scale.  A numeral
is written by quotients (`Numeral`) and read digit by digit (`NumberOf`);
`ReadsNumeral` shows that the digits read so far are the quotient by the power of
the digits still to come (`NextDigit`, `OneQuotient`).  `ReadsPointed` puts a sign and
a point around two numerals, `ReadsExponent` an exponent behind them.  That the
values coerced are the ones that were decimals is `CoercedIs` and
`DecodesDecimals`.  The theorem made two things explicit: `NoUpload`, which stands
for "no schema", must not be a schema (`UploadAssumption`), and a place in an array
is told from a field by its element, not by its array's name, which may be empty.

**`DeploymentProofs`**, for any operators, pids, timeout and other programs
(`ControlAssumption`):

- `ControlInductive`: `ControlSpec => []ControlIInv`;
- `StopIsReliable`: `ControlSpec => StopStops`;
- `DeploymentIsControlled`: `DeploySpec => ControlSpec`, the projection of the
  composition onto the scripts, from which `DeploymentStops`: `DeploySpec => StopStops`;
- `DeployInductive`: `DeploySpec => []DeployIInv`, and `TablesAreWhole`:
  `DeploySpec => []TablesWhole`.

The application's live process must be known to somebody at every command of a
script: to the pid file while no script runs, to the script's variable between
its launch and the write, to both between `cat` and `rm`, and after
`startRemove` nothing may live (`Named`).  That holds while one script runs at a
time, which `~disturbed` says; there is no lock that would enforce it.
`DeployIInv` adds `DbIInv`, what is in the file: everything the statements of a
running upgrade (`UpgradeOnItsWay`) or `create_all` (`CreateOnItsWay`) have passed is
there, a revision in the file has all its tables and indexes, and a page with an
engine has run `create_all` to its end.

**Only model-checked:** the liveness properties (`SessionsEnd`, `LockIsReleased`,
`PagesEnd`, `ScanEnds`, `ExtractEnds`, `ScriptsEnd`, `TablesArrive`): fairness and ENABLED are outside the prover's reach.
Every safety and refinement property of a passing run is stated by a theorem.

## 6. Not modelled

- Filters of `search` other than the TR code; labels, layout, wording, logging.
- The bytes of gzip data and of KMAPv2 headers: a file is given unpacked or
  damaged, a header as what `parse_header` reads of it.  The table of EUC-KR.  The
  preview of frames, which keeps no state.
- Numbers wider than Python's Decimal precision; NaN, infinities and underscores in
  a text that an edited schema reads as a Decimal; in the upload page, schemas with
  negative lengths, counts or digits or with a name used twice, which
  `build_schema` accepts (lengths of 0 are in, and the slicer has the negative ones).
- `parse_frame`, which the application does not call; settings; the code tables.
- The confirmation boxes of the Admin and Schemas pages: which of them keeps its
  tick after a rerun is decided by Streamlit.
- `alembic downgrade`, a database file removed by hand while the application
  runs, pip and venv in `install.sh`, a pid file removed by hand, and a `start.sh`
  interrupted between the launch and the write.

## 7. Plan

1. `search` with offset and the other filters, and Inspect by `?id=`: the rest of
   the reading pages.
2. The frames' way through the upload page: the preview and `ingest_frames`
   with the registry of the page and that of the save.

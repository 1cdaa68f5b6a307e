--------------------------- MODULE MessageTables ---------------------------
(***************************************************************************)
(* The rows of the two SQLite tables, raw_messages and parsed_messages,    *)
(* and what one statement does to them (krx_parser/db/models.py and the    *)
(* statements of krx_parser/db/repository.py).  A payload is a model       *)
(* value; what the properties tell apart is its TR code and whether the    *)
(* parser accepts it, rejects it with a KrxParserError, or lets some other *)
(* exception escape.                                                       *)
(***************************************************************************)
EXTENDS Integers, Sequences

CONSTANTS
    Codes,       \* TR codes
    Payloads,    \* records (the DATA blocks of KMAPv2 frames)
    TrOf,        \* [Payloads -> Codes], the code at bytes 11..22
    Form,        \* [Payloads -> Forms], what decoding the fields comes to
    Registries   \* the sets of codes a loaded registry may hold

Forms == {"parsed", "error", "raises"}

ASSUME TablesAssumption ==
    /\ TrOf \in [Payloads -> Codes]
    /\ Form \in [Payloads -> Forms]
    /\ Registries \subseteq SUBSET Codes

RowIds == Nat \ {0}

Statuses == {"pending", "parsed", "error"}

RawRows == [id: RowIds, payload: Payloads, status: Statuses]

ParsedRows == [id: RowIds, rawId: RowIds, tr: Codes, body: Payloads]

RawRow(i, p, st) == [id |-> i, payload |-> p, status |-> st]

ParsedRow(i, rawId, p) == [id |-> i, rawId |-> rawId, tr |-> TrOf[p], body |-> p]

\* Parser.parse against a registry: a code the registry lacks is a
\* KrxParserError before a field is decoded.
Outcome(registry, p) == IF TrOf[p] \in registry THEN Form[p] ELSE "error"

\* ingest_frames drops a frame whose message type the registry lacks;
\* ingest_many drops nothing.
InScope(registry, skip, p) == skip => TrOf[p] \in registry

(***************************************************************************)
(* INTEGER PRIMARY KEY without AUTOINCREMENT: SQLite takes one more than   *)
(* the largest id the table holds now, so the ids of deleted rows at the   *)
(* top are handed out again.  The set has exactly one member.              *)
(***************************************************************************)
NextIds(T) == {i \in {1} \cup {r.id + 1 : r \in T} : \A r \in T : r.id < i}

SetStatus(T, i, st) ==
    {IF r.id = i THEN RawRow(r.id, r.payload, st) ELSE r : r \in T}

WithoutIds(T, ids) == {r \in T : r.id \notin ids}

\* FOREIGN KEY (raw_message_id) ... ON DELETE CASCADE.
Cascade(P, ids) == {p \in P : p.rawId \notin ids}

ErrorIds(T) == {r.id : r \in {q \in T : q.status = "error"}}

\* The parsed rows a DELETE ... WHERE transaction_code = c leaves.
OtherCodes(P, c) == {p \in P : p.tr # c}

RawIdsOf(P, c) == {p.rawId : p \in {q \in P : q.tr = c}}
=============================================================================

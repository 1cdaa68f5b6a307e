--------------------------- MODULE MessageArchive ---------------------------
(***************************************************************************)
(* What the message store promises its callers: the two tables change only *)
(* by whole operations.  An upload appears at once, complete and in the    *)
(* order of its batch; a delete appears at once, parsed and raw rows alike.*)
(***************************************************************************)
EXTENDS MessageTables

CONSTANTS
    Batches,    \* the batches of payloads an upload may hand over
    Sessions,   \* who may be deleting a TR code
    NoCode      \* the session is deleting none

VARIABLES
    raw, parsed,    \* the two tables
    code, picked    \* the TR code a session is about to delete, and the raw ids
                    \* its code had when it was selected

tables == <<raw, parsed>>
selection == <<code, picked>>
avars == <<tables, selection>>

Empty == raw = {} /\ parsed = {}

Init ==
    /\ Empty
    /\ code = [s \in Sessions |-> NoCode]
    /\ picked = [s \in Sessions |-> {}]

Kept(b, registry, skip) == {i \in 1..Len(b) : InScope(registry, skip, b[i])}

Good(b, registry, skip) ==
    {i \in Kept(b, registry, skip) : Outcome(registry, b[i]) = "parsed"}

\* The largest id in use (0 for an empty table), as a one-element set.
TopIds(T) == {i \in {0} \cup {r.id : r \in T} : \A r \in T : r.id <= i}

\* The n ids above every id in use.
IdsAbove(T, n) == UNION {(top + 1)..(top + n) : top \in TopIds(T)}

\* Ids for the positions of a batch: new ones, in batch order.
Numberings(T, positions, n) ==
    {f \in [positions -> IdsAbove(T, n)] :
        \A i, j \in positions : i < j => f[i] < f[j]}

(***************************************************************************)
(* Upload: every payload in scope gets a raw row that says whether it      *)
(* parsed, and every one that parsed gets the parsed row linked to it.     *)
(* Only a batch in which no parse raises can be stored at all.             *)
(***************************************************************************)
Upload(b, registry, skip) ==
    /\ \A i \in Kept(b, registry, skip) : Outcome(registry, b[i]) # "raises"
    /\ \E f \in Numberings(raw, Kept(b, registry, skip), Len(b)) :
       \E g \in Numberings(parsed, Good(b, registry, skip), Len(b)) :
          /\ raw' = raw \cup {RawRow(f[i], b[i], Outcome(registry, b[i])) :
                                 i \in Kept(b, registry, skip)}
          /\ parsed' = parsed \cup {ParsedRow(g[i], f[i], b[i]) :
                                       i \in Good(b, registry, skip)}

PurgeAll == raw' = {} /\ parsed' = {}

PurgeErrors ==
    /\ raw' = WithoutIds(raw, ErrorIds(raw))
    /\ parsed' = Cascade(parsed, ErrorIds(raw))

\* The parsed rows of a code go, and the raw rows with certain ids.
PurgeCode(c, ids) ==
    /\ raw' = WithoutIds(raw, ids)
    /\ parsed' = Cascade(OtherCodes(parsed, c), ids)

\* The documented delete: the parsed rows of the code and their raw rows.
PurgeCodeExactly(c) == PurgeCode(c, RawIdsOf(parsed, c))

Uploads == \E b \in Batches, registry \in Registries, skip \in BOOLEAN :
              Upload(b, registry, skip)

(***************************************************************************)
(* A delete by TR code comes in two steps.  Select reads the raw ids of    *)
(* the code's records; Purge, at some later moment, removes the parsed     *)
(* rows the code has then and the raw rows that were selected, all of      *)
(* them.  Or the session forgets what it selected and nothing goes.        *)
(***************************************************************************)
Select(s, c) ==
    /\ code[s] = NoCode
    /\ code' = [code EXCEPT ![s] = c]
    /\ picked' = [picked EXCEPT ![s] = RawIdsOf(parsed, c)]
    /\ UNCHANGED tables

Forget(F) ==
    /\ code' = [s \in Sessions |-> IF s \in F THEN NoCode ELSE code[s]]
    /\ picked' = [s \in Sessions |-> IF s \in F THEN {} ELSE picked[s]]

Purge(s) ==
    /\ code[s] # NoCode
    /\ PurgeCode(code[s], picked[s])
    /\ Forget({s})

Next ==
    \/ (Uploads \/ PurgeAll \/ PurgeErrors) /\ UNCHANGED selection
    \/ \E s \in Sessions, c \in Codes : Select(s, c)
    \/ \E s \in Sessions : Purge(s)
    \/ \E F \in SUBSET Sessions : Forget(F) /\ UNCHANGED tables

Spec == Init /\ [][Next]_avars

\* What the docstrings say of the tables: nobody remembers a selection.
DocumentedNext ==
    \/ Uploads
    \/ PurgeAll
    \/ PurgeErrors
    \/ \E c \in Codes : PurgeCodeExactly(c)

DocumentedSpec == Empty /\ [][DocumentedNext]_tables
=============================================================================

---------------------------- MODULE LookupPages ----------------------------
(***************************************************************************)
(* The reading side, run against the MessageStore while other sessions     *)
(* upload and delete: Repository.search and get, and the pages that call   *)
(* them (pages/2_Lookup.py, pages/3_Inspect.py, the metrics of home.py and *)
(* pages/5_Admin.py).  A reader opens no transaction: each SELECT sees the *)
(* tables as committed at that moment.  search reads the parsed rows with  *)
(* one SELECT and the raw row of each with another, when _hydrate follows  *)
(* row.raw.                                                                *)
(***************************************************************************)
EXTENDS MessageStore

CONSTANTS
    Viewers,   \* sessions that look records up
    Limit,     \* the page's limit on results
    NoRow      \* no row was clicked, nothing was counted

ASSUME ViewersAssumption == Limit \in RowIds

VARIABLES
    page,      \* where each viewer's script is
    filter,    \* the TR codes its search asks for
    rows,      \* parsed rows read but not hydrated yet
    results,   \* the StoredMessages built
    clicked,   \* the result whose Open button was clicked
    metrics,   \* the counts read so far, in order
    purged     \* history: viewers since whose page began rows were deleted

viewing == <<page, filter, rows, results, clicked, metrics>>

\* Mutant: the TR code is stored in the place of the payload.
StoredMessageMixed(p, payload) ==
    [parsedId |-> p.id, rawId |-> p.rawId, tr |-> p.tr, body |-> p.body,
     payload |-> p.tr]

StoredMessage(p, payload) ==
    [parsedId |-> p.id, rawId |-> p.rawId, tr |-> p.tr, body |-> p.body,
     payload |-> payload]

\* ORDER BY id DESC LIMIT n.
Newest(P, n) == {p \in P : Cardinality({q \in P : q.id > p.id}) < n}

SearchRows(codes) == Newest({p \in parsed : p.tr \in codes}, Limit)

\* Mutant: the join takes the parsed row's id for the raw row's.
RawOfSameId(p) == {r \in raw : r.id = p.id}

\* The raw row a parsed row's raw_message_id leads to, if there is one.
RawOf(p) == {r \in raw : r.id = p.rawId}

Resting(v) == page[v] \in {"idle", "list", "record", "gone", "crashed"}

ViewerInit ==
    /\ page = [v \in Viewers |-> "idle"]
    /\ filter = [v \in Viewers |-> {}]
    /\ rows = [v \in Viewers |-> {}]
    /\ results = [v \in Viewers |-> {}]
    /\ clicked = [v \in Viewers |-> NoRow]
    /\ metrics = [v \in Viewers |-> <<>>]
    /\ purged = {}

RunSearch(v, codes) ==
    /\ page' = [page EXCEPT ![v] = "search"]
    /\ rows' = [rows EXCEPT ![v] = SearchRows(codes)]
    /\ results' = [results EXCEPT ![v] = {}]
    /\ metrics' = [metrics EXCEPT ![v] = <<>>]

\* The Lookup page is opened, or a filter widget changed: the script runs.
Search(v, codes) ==
    /\ Resting(v)
    /\ filter' = [filter EXCEPT ![v] = codes]
    /\ clicked' = [clicked EXCEPT ![v] = NoRow]
    /\ purged' = purged \ {v}
    /\ RunSearch(v, codes)

\* Open is clicked on a row shown: the script runs again from the top, with
\* the same filter, and reaches the buttons after a new search.
ClickOpen(v, m) ==
    /\ page[v] = "list" /\ m \in results[v]
    /\ clicked' = [clicked EXCEPT ![v] = m]
    /\ RunSearch(v, filter[v])
    /\ UNCHANGED <<filter, purged>>

\* _hydrate of the next row; row.raw is None when the raw row has gone.
Hydrate(v) ==
    /\ page[v] \in {"search", "inspect"}
    /\ \E p \in Newest(rows[v], 1) :
          /\ rows' = [rows EXCEPT ![v] = @ \ {p}]
          /\ results' = [results EXCEPT ![v] =
                            @ \cup {StoredMessage(p, r.payload) : r \in RawOf(p)}]
          /\ page' = IF RawOf(p) = {} THEN [page EXCEPT ![v] = "crashed"] ELSE page
    /\ UNCHANGED <<filter, clicked, metrics, purged>>

\* The button clicked is the one whose key holds the parsed id.  If the new
\* results lack that id the click is lost.
OpensClicked(v) ==
    clicked[v] # NoRow /\ \E m \in results[v] : m.parsedId = clicked[v].parsedId

EndSearch(v) ==
    /\ page[v] = "search" /\ rows[v] = {}
    /\ page' = [page EXCEPT ![v] = IF OpensClicked(v) THEN "get" ELSE "list"]
    /\ clicked' = IF OpensClicked(v) THEN clicked ELSE [clicked EXCEPT ![v] = NoRow]
    /\ UNCHANGED <<filter, rows, results, metrics, purged>>

\* Mutant: Open hands over the raw id.
InspectRawId(v) == clicked[v].rawId

InspectId(v) == clicked[v].parsedId

\* Repository.get on the Inspect page.
Get(v) ==
    /\ page[v] = "get"
    /\ rows' = [rows EXCEPT ![v] = {p \in parsed : p.id = InspectId(v)}]
    /\ results' = [results EXCEPT ![v] = {}]
    /\ page' = [page EXCEPT ![v] =
                   IF \E p \in parsed : p.id = InspectId(v) THEN "inspect" ELSE "gone"]
    /\ UNCHANGED <<filter, clicked, metrics, purged>>

EndGet(v) ==
    /\ page[v] = "inspect" /\ rows[v] = {}
    /\ page' = [page EXCEPT ![v] = "record"]
    /\ UNCHANGED <<filter, rows, results, clicked, metrics, purged>>

\* Mutant: parsed rows are counted before they are committed.
CountedUncommitted == <<txParsed, raw, {r \in raw : r.status = "error"}>>

\* The metrics: parsed rows by code, then raw rows, then error rows.
Counted == <<parsed, raw, {r \in raw : r.status = "error"}>>

StartCounting(v) ==
    /\ Resting(v)
    /\ page' = [page EXCEPT ![v] = "count"]
    /\ metrics' = [metrics EXCEPT ![v] = <<>>]
    /\ rows' = [rows EXCEPT ![v] = {}]
    /\ results' = [results EXCEPT ![v] = {}]
    /\ clicked' = [clicked EXCEPT ![v] = NoRow]
    /\ purged' = purged \ {v}
    /\ UNCHANGED filter

Count(v) ==
    /\ page[v] = "count"
    /\ LET n == Len(metrics[v]) + 1
       IN  /\ metrics' = [metrics EXCEPT ![v] = Append(@, Cardinality(Counted[n]))]
           /\ page' = IF n = Len(Counted) THEN [page EXCEPT ![v] = "idle"] ELSE page
    /\ UNCHANGED <<filter, rows, results, clicked, purged>>

ViewerStep(v) ==
    \/ \E c \in Codes : Search(v, {c})
    \/ Search(v, Codes)
    \/ \E m \in results[v] : ClickOpen(v, m)
    \/ Hydrate(v)
    \/ EndSearch(v)
    \/ Get(v)
    \/ EndGet(v)
    \/ StartCounting(v)
    \/ Count(v)

PagesInit == Init /\ ViewerInit

\* Rows that were committed go.
Deletes == ~(raw \subseteq raw' /\ parsed \subseteq parsed')

PagesNext ==
    \/ /\ Next
       /\ purged' = IF Deletes THEN Viewers ELSE purged
       /\ UNCHANGED viewing
    \/ \E v \in Viewers : ViewerStep(v) /\ UNCHANGED vars

PagesSpec == PagesInit /\ [][PagesNext]_<<vars, viewing, purged>>

-----------------------------------------------------------------------------
(* Properties.                                                             *)

\* The type invariant of the viewers' state.
ViewerTypeOK ==
    /\ page \in [Viewers -> {"idle", "search", "list", "get", "inspect", "record",
                             "gone", "crashed", "count"}]
    /\ filter \in [Viewers -> SUBSET Codes]
    /\ \A v \in Viewers :
          /\ rows[v] \subseteq ParsedRows
          /\ \A m \in results[v] \cup ({clicked[v]} \ {NoRow}) :
                m.parsedId \in RowIds /\ m.payload \in Payloads
          /\ Len(metrics[v]) <= Len(Counted)
    /\ purged \subseteq Viewers

\* A page that only uploads have overtaken: nothing was deleted since its
\* first SELECT, a click on one of its rows included.  What was deleted
\* before, and given an old id since, makes no difference.
Steady == Viewers \ purged

\* A StoredMessage is one record: the raw bytes shown are the ones the body
\* was parsed from.  ("Read-side projection of a persisted parsed message";
\* tests: fetched.payload == payload.)
PayloadMatchesBody == \A v \in Steady : \A m \in results[v] : m.payload = m.body

\* The record Inspect shows is the one whose Open button was clicked, and it
\* is found, although the search behind the click and the page that opens
\* read the tables again.
OpenedRecordIsShown ==
    \A v \in Steady : clicked[v] # NoRow =>
        /\ page[v] # "gone"
        /\ page[v] = "record" => results[v] = {clicked[v]}

\* A record that is still stored is read as it is: as long as its parsed row
\* is in the table, the second SELECT of _hydrate finds the raw row, with the
\* payload the body was decoded from, whatever was stored, deleted and given
\* an old id since the first one.  So a page fails on a missing raw row, or
\* mixes two records, only when the record was deleted between the SELECTs.
StoredRecordsHydrate ==
    [][\A v \in Viewers : Hydrate(v) =>
          \A p \in (rows[v] \ rows'[v]) \cap parsed :
             /\ page'[v] = page[v]
             /\ results'[v] = results[v] \cup {StoredMessage(p, p.body)}]_viewing

\* The page never shows more parsed records than raw records, although the
\* counts are read at different moments.
ParsedNeverExceedRaw ==
    \A v \in Steady : Len(metrics[v]) >= 2 => metrics[v][1] <= metrics[v][2]
=============================================================================

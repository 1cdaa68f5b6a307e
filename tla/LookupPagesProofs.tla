------------------------- MODULE LookupPagesProofs -------------------------
(***************************************************************************)
(* Proofs about LookupPages, for any number of viewers, sessions and       *)
(* admins.  The viewers' types hold whatever happens, and a record that is *)
(* still stored is read as it is, whoever deletes.  That a result shows    *)
(* the payload its body came from, that Open leads to the record that was  *)
(* clicked and that no more parsed than raw rows are counted is proved of  *)
(* every page during which nothing was deleted, whatever was deleted       *)
(* before and however many uploads overtake it.                            *)
(***************************************************************************)
EXTENDS LookupPages, MessageStoreProofs, FiniteSetTheorems

pvars == <<vars, viewing, purged>>

\* A step of the pages is a step of the store or leaves the store alone.
LEMMA StoreStep == [PagesNext]_pvars => [Next]_vars
BY DEF PagesNext, pvars

\* So the store keeps its invariant while viewers read.
LEMMA StoreIInv == IInv /\ [PagesNext]_pvars => IInv'
BY StoreStep, StepIInv

\* The store's inductive invariant, while viewers read.
THEOREM StoreInductive == PagesSpec => []IInv
BY InitIInv, StoreIInv, PTL DEF PagesSpec, PagesInit, pvars

-----------------------------------------------------------------------------
(* The tables are finite: what a count of them can be.                     *)

Bounded(T) == \E n \in Nat : \A r \in T : r.id <= n

TablesBounded == Bounded(raw) /\ Bounded(parsed)

\* Rows with unique ids below a bound are finitely many.
LEMMA BoundedIsFinite ==
    ASSUME NEW T, \A r \in T : r.id \in RowIds, Bounded(T),
           \A q, r \in T : q.id = r.id => q = r
    PROVE  IsFiniteSet(T) /\ Cardinality(T) \in Nat
<1>1. PICK n \in Nat : \A r \in T : r.id <= n
  BY DEF Bounded
<1> DEFINE f == [r \in T |-> r.id]
<1>2. f \in Injection(T, 1..n)
  <2>1. f \in [T -> 1..n]
    BY <1>1 DEF RowIds
  <2>2. \A q, r \in T : f[q] = f[r] => q = r
    OBVIOUS
  <2> QED
    BY <2>1, <2>2 DEF Injection, IsInjective
<1>3. IsFiniteSet(1..n)
  BY FS_Interval
<1> QED
  BY <1>2, <1>3, FS_Injection, FS_CardinalityType

\* An upload's ids are above the table's top by no more than its length.
LEMMA NumberedIsBounded ==
    ASSUME NEW T, \A r \in T : r.id \in RowIds, Bounded(T), NEW n \in Nat,
           NEW positions, NEW f \in Archive!Numberings(T, positions, n),
           NEW U, \A r \in U : r \in T \/ \E i \in positions : r.id = f[i]
    PROVE  Bounded(U)
<1>1. PICK m \in Nat : \A r \in T : r.id <= m
  BY DEF Bounded
<1>2. \A top \in Archive!TopIds(T) : top \in 0..m
  BY <1>1 DEF Archive!TopIds, RowIds
<1>3. ASSUME NEW i \in positions PROVE f[i] \in Nat /\ f[i] <= m + n
  <2>1. PICK top \in Archive!TopIds(T) : f[i] \in (top + 1)..(top + n)
    BY DEF Archive!Numberings, Archive!IdsAbove
  <2> QED
    BY <1>2, <2>1
<1>4. ASSUME NEW r \in U PROVE r.id <= m + n
  BY <1>1, <1>3 DEF RowIds
<1> QED
  BY <1>4 DEF Bounded

\* What a delete leaves of a table is bounded.
LEMMA PartIsBounded ==
    ASSUME NEW T, Bounded(T), NEW U, U \subseteq T
    PROVE  Bounded(U)
BY DEF Bounded

\* The tables stay finite: an upload's ids are bounded by its batch.
LEMMA TablesStayBounded == IInv /\ TablesBounded /\ [Next]_vars => TablesBounded'
<1> SUFFICES ASSUME IInv, TablesBounded, [Next]_vars PROVE TablesBounded'
  OBVIOUS
<1>1. Archive!Next \/ UNCHANGED <<raw, parsed>>
  BY StepImplements DEF Archive!avars, Archive!tables
<1>2. CASE UNCHANGED <<raw, parsed>>
  BY <1>2 DEF TablesBounded
<1>3. CASE Archive!Uploads
  <2>1. PICK b \in Batches, registry \in Registries, skip \in BOOLEAN :
           Archive!Upload(b, registry, skip)
    BY <1>3 DEF Archive!Uploads
  <2> DEFINE kept == Archive!Kept(b, registry, skip)
             good == Archive!Good(b, registry, skip)
  <2>2. PICK f \in Archive!Numberings(raw, kept, Len(b)),
             g \in Archive!Numberings(parsed, good, Len(b)) :
           /\ raw' = raw \cup {Archive!RawRow(f[i], b[i], Archive!Outcome(registry, b[i])) :
                                  i \in kept}
           /\ parsed' = parsed \cup {Archive!ParsedRow(g[i], f[i], b[i]) : i \in good}
    BY <2>1 DEF Archive!Upload
  <2>3. \A r \in raw' : r \in raw \/ \E i \in kept : r.id = f[i]
    BY <2>2 DEF Archive!RawRow
  <2>4. \A p \in parsed' : p \in parsed \/ \E i \in good : p.id = g[i]
    BY <2>2 DEF Archive!ParsedRow
  <2>5. Len(b) \in Nat
    BY BatchSeq
  <2>6. /\ \A r \in raw : r.id \in RowIds
        /\ \A p \in parsed : p.id \in RowIds
    BY DEF IInv, TypeOK, RawRows, ParsedRows
  <2> HIDE DEF kept, good
  <2> QED
    BY <2>2, <2>3, <2>4, <2>5, <2>6, NumberedIsBounded DEF TablesBounded
<1>4. CASE raw' \subseteq raw /\ parsed' \subseteq parsed
  BY <1>4, PartIsBounded DEF TablesBounded
<1> QED
  BY <1>1, <1>2, <1>3, <1>4
     DEF Archive!Next, Archive!Select, Archive!Purge, Archive!tables, Archive!PurgeAll,
         Archive!PurgeErrors, Archive!PurgeCode, Archive!WithoutIds, Archive!Cascade,
         Archive!OtherCodes

\* In the states of the store, the two tables are finite.
LEMMA TablesFinite ==
    ASSUME IInv, TablesBounded
    PROVE  /\ IsFiniteSet(raw) /\ Cardinality(raw) \in Nat
           /\ IsFiniteSet(parsed) /\ Cardinality(parsed) \in Nat
<1>1. /\ \A r \in raw : r.id \in RowIds
      /\ \A p \in parsed : p.id \in RowIds
  BY DEF IInv, TypeOK, RawRows, ParsedRows
<1> QED
  BY <1>1, BoundedIsFinite DEF TablesBounded, IInv, RowsLinked, RowsLinkedIn

-----------------------------------------------------------------------------
(* The types of what a viewer holds.                                       *)

PageValues == {"idle", "search", "list", "get", "inspect", "record", "gone",
               "crashed", "count"}

StoredMessages == [parsedId: RowIds, rawId: RowIds, tr: Codes, body: Payloads,
                   payload: Payloads]

ViewInvTypes ==
    /\ page \in [Viewers -> PageValues]
    /\ filter \in [Viewers -> SUBSET Codes]
    /\ rows \in [Viewers -> SUBSET ParsedRows]
    /\ results \in [Viewers -> SUBSET StoredMessages]
    /\ clicked \in [Viewers -> StoredMessages \cup {NoRow}]
    /\ DOMAIN metrics = Viewers
    /\ purged \subseteq Viewers

\* The counts: numbers, fewer than all of them while the page is counting.
CountTypes ==
    \A v \in Viewers : /\ metrics[v] \in Seq(Nat)
                       /\ Len(metrics[v]) <= Len(Counted)
                       /\ page[v] = "count" => Len(metrics[v]) < Len(Counted)

ViewerTypes == ViewInvTypes /\ CountTypes

\* A StoredMessage built of two rows has the type of one.
LEMMA StoredMessageType ==
    ASSUME IInv, NEW p \in ParsedRows, NEW r \in RawOf(p)
    PROVE  StoredMessage(p, r.payload) \in StoredMessages
BY DEF IInv, TypeOK, RawOf, RawRows, ParsedRows, StoredMessage, StoredMessages

\* Every count of a bounded table is a number.
LEMMA CountedIsNat ==
    ASSUME IInv, TablesBounded, NEW n \in 1..Len(Counted)
    PROVE  Cardinality(Counted[n]) \in Nat
<1>1. Cardinality({r \in raw : r.status = "error"}) \in Nat
  BY TablesFinite, FS_Subset, FS_CardinalityType
<1> QED
  BY <1>1, TablesFinite DEF Counted

\* A search leaves what viewers hold with its type.
LEMMA SearchTypes ==
    ASSUME IInv, ViewerTypes, NEW v \in Viewers, NEW codes, RunSearch(v, codes)
    PROVE  /\ page' \in [Viewers -> PageValues]
           /\ rows' \in [Viewers -> SUBSET ParsedRows]
           /\ results' \in [Viewers -> SUBSET StoredMessages]
           /\ DOMAIN metrics' = Viewers
           /\ CountTypes'
<1> USE DEF RunSearch, ViewerTypes, ViewInvTypes
<1>1. SearchRows(codes) \in SUBSET ParsedRows
  BY DEF SearchRows, Newest, IInv, TypeOK
<1>2. CountTypes'
  BY DEF CountTypes, Counted
<1> QED
  BY <1>1, <1>2 DEF PageValues

\* A viewer has read nothing yet.
LEMMA ViewerInitTypes == PagesInit => ViewerTypes
BY DEF PagesInit, ViewerInit, ViewerTypes, ViewInvTypes, CountTypes, PageValues, Counted

\* A step that leaves the counts alone, and does not start counting.
LEMMA CountKept ==
    ASSUME ViewerTypes, UNCHANGED metrics,
           \A v \in Viewers : page'[v] = page[v] \/ page'[v] # "count"
    PROVE  CountTypes'
BY DEF ViewerTypes, CountTypes, Counted

\* A viewer's step keeps the types of what he holds.
LEMMA ViewerStepTypes ==
    ASSUME IInv, TablesBounded, ViewerTypes, NEW v \in Viewers, ViewerStep(v)
    PROVE  ViewerTypes'
<1> USE DEF ViewerTypes, ViewInvTypes
<1>1. ASSUME NEW codes \in SUBSET Codes, Search(v, codes) PROVE ViewerTypes'
  <2>1. CountTypes' /\ purged' \subseteq Viewers
    BY <1>1, SearchTypes DEF Search
  <2> QED
    BY <1>1, <2>1, SearchTypes DEF Search
<1>2. ASSUME NEW m \in results[v], ClickOpen(v, m) PROVE ViewerTypes'
  BY <1>2, SearchTypes DEF ClickOpen
<1>3. CASE Hydrate(v)
  <2>1. PICK p \in Newest(rows[v], 1) :
           /\ rows' = [rows EXCEPT ![v] = @ \ {p}]
           /\ results' = [results EXCEPT ![v] =
                             @ \cup {StoredMessage(p, r.payload) : r \in RawOf(p)}]
           /\ page' = IF RawOf(p) = {} THEN [page EXCEPT ![v] = "crashed"] ELSE page
    BY <1>3 DEF Hydrate
  <2>2. p \in ParsedRows
    BY DEF Newest
  <2>3. {StoredMessage(p, r.payload) : r \in RawOf(p)} \subseteq StoredMessages
    BY <2>2, StoredMessageType
  <2>4. CountTypes'
    BY <1>3, <2>1, CountKept DEF Hydrate
  <2> QED
    BY <1>3, <2>1, <2>3, <2>4 DEF Hydrate, PageValues
<1>4. CASE EndSearch(v)
  BY <1>4, CountKept DEF EndSearch, PageValues
<1>5. CASE Get(v)
  <2>1. {p \in parsed : p.id = InspectId(v)} \in SUBSET ParsedRows
    BY DEF IInv, TypeOK
  <2> QED
    BY <1>5, <2>1, CountKept DEF Get, PageValues
<1>6. CASE EndGet(v)
  BY <1>6, CountKept DEF EndGet, PageValues
<1>7. CASE StartCounting(v)
  <2>1. CountTypes'
    BY <1>7 DEF StartCounting, CountTypes, Counted
  <2> QED
    BY <1>7, <2>1 DEF StartCounting, PageValues
<1>8. CASE Count(v)
  <2> DEFINE n == Len(metrics[v]) + 1
  <2>1. n \in 1..Len(Counted)
    BY <1>8 DEF Count, CountTypes
  <2>2. /\ metrics' = [metrics EXCEPT ![v] = Append(@, Cardinality(Counted[n]))]
        /\ page' = IF n = Len(Counted) THEN [page EXCEPT ![v] = "idle"] ELSE page
        /\ UNCHANGED <<filter, rows, results, clicked, purged>>
    BY <1>8 DEF Count
  <2>3. Cardinality(Counted[n]) \in Nat
    BY <2>1, CountedIsNat
  <2>4. metrics'[v] \in Seq(Nat) /\ Len(metrics'[v]) = n
    BY <2>2, <2>3 DEF CountTypes
  <2>5. Len(Counted) = 3 /\ Len(Counted)' = 3
    BY DEF Counted
  <2>6. CountTypes'
    BY <2>1, <2>2, <2>4, <2>5 DEF CountTypes
  <2> QED
    BY <2>2, <2>6 DEF PageValues
<1> QED
  BY <1>1, <1>2, <1>3, <1>4, <1>5, <1>6, <1>7, <1>8 DEF ViewerStep

\* So does every step, the other viewers' and the sessions' included.
LEMMA ViewerTypesStep ==
    IInv /\ TablesBounded /\ ViewerTypes /\ [PagesNext]_pvars => ViewerTypes'
<1>1. ASSUME ViewerTypes, UNCHANGED viewing, purged' \in {Viewers, purged}
      PROVE  ViewerTypes'
  BY <1>1 DEF viewing, ViewerTypes, ViewInvTypes, CountTypes, Counted
<1> QED
  BY <1>1, ViewerStepTypes DEF PagesNext, pvars

TypesInv == IInv /\ TablesBounded /\ ViewerTypes

\* The types of viewers and tables, for the whole behaviour.
LEMMA TypesInductive == PagesSpec => []TypesInv
<1>1. PagesInit => TypesInv
  BY InitIInv, ViewerInitTypes DEF TypesInv, PagesInit, Init, TablesBounded, Bounded
<1>2. TypesInv /\ [PagesNext]_pvars => TypesInv'
  BY StoreStep, StepIInv, TablesStayBounded, ViewerTypesStep DEF TypesInv
<1> QED
  BY <1>1, <1>2, PTL DEF PagesSpec, pvars

\* What a viewer holds has its type, whatever the others upload and delete.
THEOREM ViewersTypeCorrect == PagesSpec => []ViewerTypeOK
<1>1. TypesInv => ViewerTypeOK
  BY DEF TypesInv, ViewerTypes, ViewInvTypes, CountTypes, ViewerTypeOK, PageValues,
     StoredMessages
<1> QED
  BY <1>1, TypesInductive, PTL

-----------------------------------------------------------------------------
(* Whoever deletes, what is still stored is read as it is.                 *)

\* The raw row a parsed row leads to is there and holds its payload.
LEMMA RawOfRecord ==
    ASSUME IInv, NEW p \in parsed
    PROVE  /\ RawOf(p) # {}
           /\ \A r \in RawOf(p) : r.payload = p.body
BY DEF IInv, RowsLinked, RowsLinkedIn, RawOf

\* The row that _hydrate takes, if it is still in the table, is shown.
LEMMA StoredRecordHydrates ==
    ASSUME IInv, NEW v \in Viewers, ViewerTypes, Hydrate(v),
           NEW p \in (rows[v] \ rows'[v]) \cap parsed
    PROVE  /\ page'[v] = page[v]
           /\ results'[v] = results[v] \cup {StoredMessage(p, p.body)}
<1>1. PICK q \in Newest(rows[v], 1) :
         /\ rows' = [rows EXCEPT ![v] = @ \ {q}]
         /\ results' = [results EXCEPT ![v] =
                           @ \cup {StoredMessage(q, r.payload) : r \in RawOf(q)}]
         /\ page' = IF RawOf(q) = {} THEN [page EXCEPT ![v] = "crashed"] ELSE page
  BY DEF Hydrate
<1>2. p = q
  BY <1>1 DEF ViewerTypes, ViewInvTypes
<1>3. RawOf(p) # {} /\ \A r \in RawOf(p) : r.payload = p.body
  BY RawOfRecord
<1>4. {StoredMessage(p, r.payload) : r \in RawOf(p)} = {StoredMessage(p, p.body)}
  BY <1>3
<1> QED
  BY <1>1, <1>2, <1>3, <1>4 DEF ViewerTypes, ViewInvTypes

\* For any sessions, admins and viewers: as long as a parsed row is in the
\* table, its raw row is found by the second SELECT, with the payload the
\* body was decoded from.  The linkage of the committed tables is what it
\* rests on; nothing ties the two SELECTs to one state of them.
THEOREM StoredRecordsAreRead == PagesSpec => StoredRecordsHydrate
<1>1. TypesInv => \A v \in Viewers : Hydrate(v) =>
         \A p \in (rows[v] \ rows'[v]) \cap parsed :
            /\ page'[v] = page[v]
            /\ results'[v] = results[v] \cup {StoredMessage(p, p.body)}
  BY StoredRecordHydrates DEF TypesInv
<1> QED
  BY <1>1, TypesInductive, PTL DEF StoredRecordsHydrate

-----------------------------------------------------------------------------
(* A page during which nothing is deleted: the tables only grow, so a row  *)
(* that was read stays what it was, and so does its raw row.               *)

Grows == raw \subseteq raw' /\ parsed \subseteq parsed'

\* A StoredMessage that shows a record as the table P has it.
IsRecord(m, P) == \E p \in P : m = StoredMessage(p, p.body)

\* Inspect has found the row that was clicked, and has hydrated it or not.
Opening(v) ==
    \/ rows[v] = {} /\ results[v] = {clicked[v]}
    \/ /\ results[v] = {}
       /\ \E p \in parsed : rows[v] = {p} /\ clicked[v] = StoredMessage(p, p.body)

ViewOf(v) ==
    /\ rows[v] \subseteq parsed
    /\ \A m \in results[v] : IsRecord(m, parsed)
    /\ clicked[v] # NoRow =>
          /\ IsRecord(clicked[v], parsed)
          /\ page[v] # "gone"
          /\ page[v] = "inspect" => Opening(v)
          /\ page[v] = "record" => results[v] = {clicked[v]}

\* The first count was one of a table that has only grown since.
CountOf(v) ==
    /\ Len(metrics[v]) = 1 => metrics[v][1] <= Cardinality(parsed)
    /\ Len(metrics[v]) >= 2 => metrics[v][1] <= metrics[v][2]

RecordsInv == \A v \in Steady : ViewOf(v)

CountsInv == \A v \in Steady : CountOf(v)

\* A record a viewer holds stays one while the tables grow.
LEMMA IsRecordKept ==
    ASSUME NEW m, NEW P, NEW Q, P \subseteq Q, IsRecord(m, P)
    PROVE  IsRecord(m, Q)
BY DEF IsRecord

\* A viewer whose state a step leaves alone, while the tables grow.
LEMMA ViewKeptGrowing ==
    ASSUME NEW v \in Viewers, ViewOf(v), Grows,
           page'[v] = page[v], rows'[v] = rows[v], results'[v] = results[v],
           clicked'[v] = clicked[v]
    PROVE  ViewOf(v)'
<1>1. \A m : IsRecord(m, parsed) => IsRecord(m, parsed')
  BY IsRecordKept DEF Grows
<1>2. Opening(v) => Opening(v)'
  BY DEF Opening, Grows
<1> QED
  BY <1>1, <1>2 DEF ViewOf, Grows

\* A row that a page has read is hydrated to the record it is.
LEMMA HydratesRecord ==
    ASSUME IInv, ViewerTypes, NEW v \in Viewers, ViewOf(v), Hydrate(v)
    PROVE  \E p \in rows[v] :
              /\ p \in parsed
              /\ page'[v] = page[v] /\ clicked'[v] = clicked[v]
              /\ rows'[v] = rows[v] \ {p}
              /\ results'[v] = results[v] \cup {StoredMessage(p, p.body)}
<1>1. PICK p \in Newest(rows[v], 1) : rows' = [rows EXCEPT ![v] = @ \ {p}]
  BY DEF Hydrate
<1>2. p \in rows[v] /\ p \in parsed
  BY DEF Newest, ViewOf
<1>3. rows'[v] = rows[v] \ {p} /\ p \in (rows[v] \ rows'[v]) \cap parsed
  BY <1>1, <1>2 DEF ViewerTypes, ViewInvTypes
<1> QED
  BY <1>2, <1>3, StoredRecordHydrates DEF Hydrate

\* Rows with the same id are the same row, so Get finds the row clicked.
LEMMA GetsClicked ==
    ASSUME IInv, ViewerTypes, NEW v \in Viewers, ViewOf(v), Get(v), clicked[v] # NoRow
    PROVE  /\ page'[v] = "inspect" /\ results'[v] = {} /\ clicked'[v] = clicked[v]
           /\ \E p \in parsed : rows'[v] = {p} /\ clicked[v] = StoredMessage(p, p.body)
<1>1. PICK p \in parsed : clicked[v] = StoredMessage(p, p.body)
  BY DEF ViewOf, IsRecord
<1>2. InspectId(v) = p.id
  BY <1>1 DEF InspectId, StoredMessage
<1>3. {q \in parsed : q.id = InspectId(v)} = {p}
  BY <1>2 DEF IInv, RowsLinked, RowsLinkedIn
<1> QED
  BY <1>1, <1>2, <1>3 DEF Get, ViewerTypes, ViewInvTypes

\* The step of a steady viewer.
LEMMA OwnStepRecords ==
    ASSUME IInv, ViewerTypes, NEW v \in Viewers, ViewerStep(v), UNCHANGED vars,
           v \notin purged => ViewOf(v), v \notin purged'
    PROVE  ViewOf(v)'
<1> USE DEF ViewerTypes, ViewInvTypes
<1>1. parsed' = parsed
  BY DEF vars, disk
<1>2. ASSUME NEW codes, Search(v, codes) PROVE ViewOf(v)'
  BY <1>1, <1>2 DEF Search, RunSearch, SearchRows, Newest, ViewOf
<1>3. CASE StartCounting(v)
  BY <1>1, <1>3 DEF StartCounting, ViewOf
<1>4. ASSUME v \notin purged, NEW m \in results[v], ClickOpen(v, m) PROVE ViewOf(v)'
  <2>1. IsRecord(m, parsed')
    BY <1>1, <1>4 DEF ViewOf
  <2>2. /\ page'[v] = "search" /\ clicked'[v] = m /\ results'[v] = {}
        /\ rows'[v] \subseteq parsed'
    BY <1>1, <1>4 DEF ClickOpen, RunSearch, SearchRows, Newest
  <2> QED
    BY <2>1, <2>2 DEF ViewOf
<1>5. ASSUME v \notin purged, Hydrate(v) PROVE ViewOf(v)'
  <2>1. PICK p \in rows[v] :
           /\ p \in parsed
           /\ page'[v] = page[v] /\ clicked'[v] = clicked[v]
           /\ rows'[v] = rows[v] \ {p}
           /\ results'[v] = results[v] \cup {StoredMessage(p, p.body)}
    BY <1>5, HydratesRecord
  <2>2. page[v] \in {"search", "inspect"}
    BY <1>5 DEF Hydrate
  <2>3. clicked[v] # NoRow /\ page[v] = "inspect" => Opening(v)'
    <3> SUFFICES ASSUME clicked[v] # NoRow, page[v] = "inspect" PROVE Opening(v)'
      OBVIOUS
    <3>1. Opening(v)
      BY <1>5 DEF ViewOf
    <3> QED
      BY <2>1, <3>1 DEF Opening
  <2>4. \A m \in results'[v] : IsRecord(m, parsed')
    BY <1>1, <1>5, <2>1 DEF ViewOf, IsRecord
  <2> QED
    BY <1>1, <1>5, <2>1, <2>2, <2>3, <2>4 DEF ViewOf
<1>6. ASSUME v \notin purged, EndSearch(v) PROVE ViewOf(v)'
  <2>1. /\ rows'[v] = rows[v] /\ results'[v] = results[v] /\ page'[v] \in {"get", "list"}
        /\ clicked'[v] \in {clicked[v], NoRow}
    BY <1>6 DEF EndSearch
  <2> QED
    BY <1>1, <1>6, <2>1 DEF ViewOf
<1>7. ASSUME v \notin purged, Get(v) PROVE ViewOf(v)'
  <2>1. CASE clicked[v] # NoRow
    <3>1. Opening(v)'
      BY <1>1, <1>7, <2>1, GetsClicked DEF Opening
    <3> QED
      BY <1>1, <1>7, <2>1, <3>1, GetsClicked DEF ViewOf
  <2>2. CASE clicked[v] = NoRow
    <3>1. /\ rows'[v] \subseteq parsed /\ results'[v] = {}
          /\ clicked'[v] = NoRow
      BY <1>7, <2>2 DEF Get
    <3> QED
      BY <1>1, <3>1 DEF ViewOf
  <2> QED
    BY <2>1, <2>2
<1>8. ASSUME v \notin purged, EndGet(v) PROVE ViewOf(v)'
  <2>1. /\ rows'[v] = rows[v] /\ results'[v] = results[v] /\ clicked'[v] = clicked[v]
        /\ page[v] = "inspect" /\ page'[v] = "record" /\ rows[v] = {}
    BY <1>8 DEF EndGet
  <2>2. clicked[v] # NoRow => results[v] = {clicked[v]}
    BY <1>8, <2>1 DEF ViewOf, Opening
  <2> QED
    BY <1>1, <1>8, <2>1, <2>2 DEF ViewOf
<1>9. ASSUME v \notin purged, Count(v) PROVE ViewOf(v)'
  <2>1. /\ page'[v] \in {"count", "idle"}
        /\ rows'[v] = rows[v] /\ results'[v] = results[v] /\ clicked'[v] = clicked[v]
    BY <1>9 DEF Count
  <2> QED
    BY <1>1, <1>9, <2>1 DEF ViewOf
<1>10. v \notin purged \/ (\E codes : Search(v, codes)) \/ StartCounting(v)
  BY DEF ViewerStep, ClickOpen, Hydrate, EndSearch, Get, EndGet, Count
<1> QED
  BY <1>2, <1>3, <1>4, <1>5, <1>6, <1>7, <1>8, <1>9, <1>10 DEF ViewerStep

\* Every step keeps what steady viewers hold true.
LEMMA RecordsStep ==
    IInv /\ ViewerTypes /\ RecordsInv /\ [PagesNext]_pvars => RecordsInv'
<1> SUFFICES ASSUME IInv, ViewerTypes, RecordsInv, [PagesNext]_pvars,
                    NEW w \in Viewers, w \notin purged'
             PROVE  ViewOf(w)'
  BY DEF RecordsInv, Steady
<1>1. ASSUME UNCHANGED viewing, w \notin purged, Grows PROVE ViewOf(w)'
  BY <1>1, ViewKeptGrowing DEF RecordsInv, Steady, viewing
<1>2. CASE UNCHANGED pvars
  BY <1>1, <1>2 DEF pvars, vars, disk, Grows
<1>3. CASE /\ purged' = IF Deletes THEN Viewers ELSE purged
           /\ UNCHANGED viewing
  BY <1>1, <1>3 DEF Deletes, Grows
<1>4. ASSUME NEW v \in Viewers, ViewerStep(v) /\ UNCHANGED vars PROVE ViewOf(w)'
  <2>1. CASE w = v
    BY <1>4, <2>1, OwnStepRecords DEF RecordsInv, Steady
  <2>2. CASE w # v
    <3>1. /\ page'[w] = page[w] /\ rows'[w] = rows[w] /\ results'[w] = results[w]
          /\ clicked'[w] = clicked[w] /\ w \notin purged
      BY <1>4, <2>2 DEF ViewerStep, Search, RunSearch, ClickOpen, Hydrate, EndSearch, Get,
         EndGet, StartCounting, Count, ViewerTypes, ViewInvTypes
    <3>2. Grows
      BY <1>4 DEF vars, disk, Grows
    <3> QED
      BY <3>1, <3>2, ViewKeptGrowing DEF RecordsInv, Steady
  <2> QED
    BY <2>1, <2>2
<1> QED
  BY <1>2, <1>3, <1>4 DEF PagesNext

\* The committed tables hold at least one raw row for each parsed row.
LEMMA NoMoreParsedThanRaw ==
    ASSUME IInv, TablesBounded
    PROVE  Cardinality(parsed) <= Cardinality(raw)
<1> DEFINE f == [p \in parsed |-> CHOOSE r \in raw : r.id = p.rawId]
<1>1. \A p \in parsed : f[p] \in raw /\ f[p].id = p.rawId
  BY DEF IInv, RowsLinked, RowsLinkedIn
<1>2. \A o, p \in parsed : f[o] = f[p] => o = p
  BY <1>1 DEF IInv, RowsLinked, RowsLinkedIn
<1>3. f \in Injection(parsed, raw)
  BY <1>1, <1>2 DEF Injection, IsInjective
<1> QED
  BY <1>3, TablesFinite, FS_Injection

\* A metric more in the list of metrics.
LEMMA AppendFacts ==
    ASSUME NEW q \in Seq(Nat), NEW c \in Nat
    PROVE  /\ Len(Append(q, c)) = Len(q) + 1
           /\ Append(q, c)[Len(q) + 1] = c
           /\ \A i \in 1..Len(q) : Append(q, c)[i] = q[i] /\ q[i] \in Nat
OBVIOUS

\* Every step keeps the counts that steady viewers have read in order.
LEMMA CountsStep ==
    IInv /\ TablesBounded /\ TablesBounded' /\ IInv' /\ ViewerTypes /\ CountsInv
      /\ [PagesNext]_pvars => CountsInv'
<1> SUFFICES ASSUME IInv, TablesBounded, TablesBounded', IInv', ViewerTypes, CountsInv,
                    [PagesNext]_pvars,
                    NEW w \in Viewers, w \notin purged'
             PROVE  CountOf(w)'
  BY DEF CountsInv, Steady
<1> USE DEF CountOf, ViewerTypes, ViewInvTypes, CountTypes
<1>0. /\ w \notin purged => CountOf(w)
      /\ metrics[w] \in Seq(Nat)
  BY DEF CountsInv, Steady
<1>1. Cardinality(parsed) \in Nat /\ Cardinality(raw) \in Nat
      /\ Cardinality(parsed) <= Cardinality(raw)
  BY TablesFinite, NoMoreParsedThanRaw
<1>2. ASSUME Grows
      PROVE  Cardinality(parsed) <= Cardinality(parsed') /\ Cardinality(parsed') \in Nat
  <2>1. IsFiniteSet(parsed') /\ Cardinality(parsed') \in Nat
    <3>1. \A p \in parsed' : p.id \in RowIds
      BY DEF IInv, TypeOK, ParsedRows
    <3> QED
      BY <3>1, BoundedIsFinite DEF TablesBounded, IInv, RowsLinked, RowsLinkedIn
  <2> QED
    BY <1>2, <2>1, FS_Subset DEF Grows
<1>3. CASE metrics'[w] = metrics[w] /\ w \notin purged /\ Grows
  BY <1>0, <1>1, <1>2, <1>3
<1>4. CASE metrics'[w] = <<>>
  BY <1>4
<1>5. CASE Count(w) /\ UNCHANGED vars
  <2>0. CountOf(w)
    BY <1>0, <1>5 DEF Count
  <2> DEFINE n == Len(metrics[w]) + 1
             c == Cardinality(Counted[n])
  <2>1. n \in 1..Len(Counted)
    BY <1>5 DEF Count
  <2>2. metrics'[w] = Append(metrics[w], c)
    BY <1>5 DEF Count
  <2>3. c \in Nat
    BY <2>1, CountedIsNat
  <2>4. parsed' = parsed
    BY <1>5 DEF vars, disk
  <2>5. CASE Len(metrics[w]) = 0
    <3>1. c = Cardinality(parsed) /\ Len(metrics'[w]) = 1 /\ metrics'[w][1] = c
      BY <1>0, <2>2, <2>3, <2>5 DEF Counted
    <3> QED
      BY <1>1, <2>4, <3>1
  <2>6. CASE Len(metrics[w]) = 1
    <3>1. c = Cardinality(raw)
      BY <2>6 DEF Counted
    <3>2. Len(metrics'[w]) = 2 /\ metrics'[w][2] = c /\ metrics'[w][1] = metrics[w][1]
          /\ metrics[w][1] \in Nat
      BY <1>0, <2>2, <2>3, <2>6, AppendFacts
    <3> QED
      BY <1>0, <1>1, <2>0, <2>6, <3>1, <3>2
  <2>7. CASE Len(metrics[w]) >= 2
    <3> HIDE DEF c
    <3>1. Len(metrics'[w]) >= 2 /\ Len(metrics'[w]) # 1
          /\ metrics'[w][2] = metrics[w][2] /\ metrics'[w][1] = metrics[w][1]
      BY <1>0, <2>2, <2>3, <2>7
    <3> QED
      BY <1>0, <2>0, <2>7, <3>1
  <2>8. Len(metrics[w]) = 0 \/ Len(metrics[w]) = 1 \/ Len(metrics[w]) >= 2
    <3>1. Len(metrics[w]) \in Nat
      BY <1>0
    <3>2. \A k \in Nat : k = 0 \/ k = 1 \/ k >= 2
      OBVIOUS
    <3> QED
      BY <3>1, <3>2, Zenon
  <2> HIDE DEF CountOf, c
  <2> QED
    BY <2>5, <2>6, <2>7, <2>8
<1>6. \/ metrics'[w] = metrics[w] /\ w \notin purged /\ Grows
      \/ metrics'[w] = <<>>
      \/ Count(w) /\ UNCHANGED vars
  <2>1. ASSUME NEW v \in Viewers, ViewerStep(v), UNCHANGED vars, ~Count(w)
        PROVE  (metrics'[w] = metrics[w] /\ w \notin purged) \/ metrics'[w] = <<>>
    <3>1. CASE UNCHANGED <<metrics, purged>>
      BY <3>1
    <3>2. CASE metrics' = [metrics EXCEPT ![v] = <<>>] /\ purged' \in {purged, purged \ {v}}
      BY <3>2
    <3>3. CASE Count(v)
      BY <2>1, <3>3 DEF Count
    <3> QED
      BY <2>1, <3>1, <3>2, <3>3 DEF ViewerStep, Search, RunSearch, ClickOpen, Hydrate,
         EndSearch, Get, EndGet, StartCounting
  <2>2. CASE /\ purged' = IF Deletes THEN Viewers ELSE purged
             /\ UNCHANGED viewing
    BY <2>2 DEF viewing, Deletes, Grows
  <2>3. UNCHANGED vars => Grows
    BY DEF vars, disk, Grows
  <2>4. CASE UNCHANGED pvars
    BY <2>3, <2>4 DEF pvars, viewing
  <2> QED
    BY <2>1, <2>2, <2>3, <2>4 DEF PagesNext
<1> QED
  BY <1>3, <1>4, <1>5, <1>6

PagesInv == TypesInv /\ RecordsInv /\ CountsInv

\* What viewers hold, for the whole behaviour.
LEMMA PagesInvInductive == PagesSpec => []PagesInv
<1>1. PagesInit => TypesInv
  BY InitIInv, ViewerInitTypes DEF TypesInv, PagesInit, Init, TablesBounded, Bounded
<1>2. PagesInit => PagesInv
  BY <1>1 DEF PagesInit, ViewerInit, PagesInv, RecordsInv, ViewOf, CountsInv, CountOf, Steady
<1>3. PagesInv /\ [PagesNext]_pvars => PagesInv'
  <2> SUFFICES ASSUME PagesInv, [PagesNext]_pvars PROVE PagesInv'
    OBVIOUS
  <2>1. TypesInv'
    BY StoreStep, StepIInv, TablesStayBounded, ViewerTypesStep DEF TypesInv, PagesInv
  <2> QED
    BY <2>1, RecordsStep, CountsStep DEF PagesInv, TypesInv
<1> QED
  BY <1>2, <1>3, PTL DEF PagesSpec, pvars

\* Whatever is stored meanwhile, and was deleted before: a result of a page
\* shows the payload its body was decoded from.
THEOREM PayloadsMatch == PagesSpec => []PayloadMatchesBody
<1>1. PagesInv => PayloadMatchesBody
  BY DEF PagesInv, RecordsInv, ViewOf, IsRecord, StoredMessage, PayloadMatchesBody
<1> QED
  BY <1>1, PagesInvInductive, PTL

\* Inspect finds and shows the record that was clicked, although the search
\* behind the click and the page that opens read the tables again.
THEOREM OpensWhatWasClicked == PagesSpec => []OpenedRecordIsShown
<1>1. PagesInv => OpenedRecordIsShown
  BY DEF PagesInv, RecordsInv, ViewOf, OpenedRecordIsShown
<1> QED
  BY <1>1, PagesInvInductive, PTL

\* The metrics, read one after the other, never show more parsed records
\* than raw ones.
THEOREM MetricsAgree == PagesSpec => []ParsedNeverExceedRaw
<1>1. PagesInv => ParsedNeverExceedRaw
  BY DEF PagesInv, CountsInv, CountOf, ParsedNeverExceedRaw
<1> QED
  BY <1>1, PagesInvInductive, PTL
=============================================================================

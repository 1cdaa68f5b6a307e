------------------------- MODULE MessageStoreProofs -------------------------
(***************************************************************************)
(* Proofs about MessageStore, for any number of sessions, codes, payloads  *)
(* and registries: the inductive invariant IInv, the safety invariants it  *)
(* implies, and that the store implements MessageArchive; what a delete by *)
(* TR code does when one session at a time deletes, and what it does when  *)
(* there is one session.                                                   *)
(***************************************************************************)
EXTENDS MessageStore, TLAPS

\* A batch is a non-empty sequence of payloads.
LEMMA BatchSeq ==
    ASSUME NEW b \in Batches
    PROVE  b \in Seq(Payloads) /\ Len(b) \in 1..MaxBatch /\ DOMAIN b = 1..Len(b)
BY StoreAssumption DEF Batches, RowIds

\* The id SQLite gives a new row is above every id of the table.
LEMMA FreshId ==
    ASSUME NEW T, \A r \in T : r.id \in RowIds, NEW i \in NextIds(T)
    PROVE  /\ i \in RowIds
           /\ \A r \in T : r.id < i
           /\ i = 1 \/ \E r \in T : i = r.id + 1
BY DEF NextIds, RowIds

\* The empty store.
LEMMA InitIInv == Init => IInv
<1> SUFFICES ASSUME Init PROVE IInv
  OBVIOUS
<1> USE StoreAssumption, TablesAssumption DEF Init
<1>1. TypeOK
  BY DEF TypeOK, NoBatch, NoIds, IsIdMap, PcValues, RowIds
<1>2. RowsLinked /\ NoPendingCommitted
  BY DEF RowsLinked, RowsLinkedIn, NoPendingCommitted
<1>3. LockInv /\ ViewInv
  BY DEF LockInv, ViewInv, RowsLinkedIn
<1>4. UploadInv /\ DeleteInv
  BY DEF UploadInv, UploadOk, NothingStored, DeleteInv, DeleteOk
<1> QED
  BY <1>1, <1>2, <1>3, <1>4 DEF IInv

\* A step leaves a session's own state alone.
LocalsKept(t) ==
    /\ pc'[t] = pc[t] /\ batch'[t] = batch[t] /\ pos'[t] = pos[t]
    /\ known'[t] = known[t] /\ skipUnknown'[t] = skipUnknown[t]
    /\ rawIds'[t] = rawIds[t] /\ parsedIds'[t] = parsedIds[t]
    /\ code'[t] = code[t] /\ picked'[t] = picked[t]

\* Such a session keeps its invariants: if it holds the lock nobody has
\* touched its view or the tables, and if not it has stored nothing.
LEMMA OtherSession ==
    ASSUME IInv, NEW t \in Sessions, LocalsKept(t),
           writer' = t <=> writer = t,
           writer = t => UNCHANGED <<raw, parsed, txRaw, txParsed>>
    PROVE  UploadOk(t)' /\ DeleteOk(t)'
<1>1. UploadOk(t) /\ DeleteOk(t)
  BY DEF IInv, UploadInv, DeleteInv
<1>2. pc[t] \in {"parse", "commit", "deleteRaw"} => writer = t
  BY DEF IInv, LockInv
<1>3. CASE writer = t
  BY <1>1, <1>2, <1>3 DEF LocalsKept, UploadOk, DeleteOk, StoredPositions, UploadView, NothingStored, Done, Mark, Payload
<1>4. CASE writer # t
  <2>1. DeleteOk(t)'
    BY <1>1, <1>2, <1>4 DEF LocalsKept, DeleteOk
  <2>2. ASSUME pc[t] = "ingest" PROVE StoredPositions(t)'
    BY <1>1, <1>4, <2>2 DEF LocalsKept, UploadOk, StoredPositions, Done, Payload
  <2>3. ASSUME pc[t] = "ingest"
        PROVE  NewIds(rawIds[t], raw)' /\ NewIds(parsedIds[t], parsed)'
    <3>1. DOMAIN rawIds[t] = {} /\ DOMAIN parsedIds[t] = {}
      BY <1>1, <1>4, <2>3 DEF UploadOk, StoredPositions
    <3> QED
      BY <3>1 DEF LocalsKept, NewIds
  <2>4. pc[t] \notin {"ingest", "parse"} => NothingStored(t)'
    BY <1>1 DEF UploadOk, NothingStored, LocalsKept
  <2>5. pc[t] # "parse" /\ pc'[t] = pc[t] /\ writer' # t
    BY <1>2, <1>4 DEF LocalsKept
  <2> QED
    BY <2>1, <2>2, <2>3, <2>4, <2>5 DEF UploadOk
<1> QED
  BY <1>3, <1>4

\* One step of session s: what s is not, keeps its invariants.
LEMMA OtherSessions ==
    ASSUME IInv, NEW s \in Sessions,
           \A t \in Sessions \ {s} :
              /\ LocalsKept(t)
              /\ writer' = t <=> writer = t
              /\ writer = t => UNCHANGED <<raw, parsed, txRaw, txParsed>>,
           UploadOk(s)', DeleteOk(s)'
    PROVE  UploadInv' /\ DeleteInv'
<1> SUFFICES ASSUME NEW t \in Sessions PROVE UploadOk(t)' /\ DeleteOk(t)'
  BY DEF UploadInv, DeleteInv
<1>1. CASE t = s
  BY <1>1
<1>2. CASE t # s
  BY <1>2, OtherSession
<1> QED
  BY <1>1, <1>2

\* ViewInv is about the writer's view and the writer's own locals.
LEMMA ViewKept ==
    ASSUME IInv, NEW s \in Sessions, writer # s, UNCHANGED <<tx, rawIds, pos>>,
           \A t \in Sessions \ {s} : pc'[t] = pc[t]
    PROVE  ViewInv'
BY DEF IInv, ViewInv, RowsLinkedIn, tx

\* Where an upload is.
LEMMA UploadFacts ==
    ASSUME IInv, NEW s \in Sessions, pc[s] \in {"ingest", "parse"}
    PROVE  /\ StoredPositions(s)
           /\ NewIds(rawIds[s], raw) /\ NewIds(parsedIds[s], parsed)
           /\ writer = s => UploadView(s)
           /\ batch[s] \in Seq(Payloads) /\ Len(batch[s]) \in 1..MaxBatch
           /\ pos[s] \in 1..(Len(batch[s]) + 1)
           /\ \A i \in 1..Len(batch[s]) : batch[s][i] \in Payloads
<1>1. /\ StoredPositions(s)
      /\ NewIds(rawIds[s], raw) /\ NewIds(parsedIds[s], parsed)
      /\ writer = s => UploadView(s)
  BY DEF IInv, UploadInv, UploadOk
<1>2. batch[s] \in Batches /\ pos[s] \in 1..(Len(batch[s]) + 1)
  BY <1>1 DEF StoredPositions
<1> QED
  BY <1>1, <1>2, BatchSeq

\* A session that deletes nothing has selected nothing.
LEMMA NothingSelected ==
    ASSUME IInv, NEW s \in Sessions, pc[s] \in {"idle", "ingest", "parse"}
    PROVE  code[s] = NoCode /\ picked[s] = {}
BY DEF IInv, DeleteInv, DeleteOk

\* A session starts an upload: it has stored nothing.
LEMMA StartUploadIInv ==
    ASSUME IInv, NEW s \in Sessions, NEW b \in Batches,
           NEW registry \in Registries, NEW skip \in BOOLEAN,
           StartUpload(s, b, registry, skip)
    PROVE  IInv'
<1> USE DEF StartUpload, disk, tx, purge
<1>1. TypeOK'
  <2>1. registry \in SUBSET Codes
    BY TablesAssumption
  <2>2. uploads' \in 0..MaxUploads
    BY StoreAssumption DEF IInv, TypeOK
  <2> QED
    BY <2>1, <2>2 DEF IInv, TypeOK, PcValues, IsIdMap
<1>2. RowsLinked' /\ NoPendingCommitted'
  BY DEF IInv, RowsLinked, RowsLinkedIn, NoPendingCommitted
<1>3. writer # s /\ NothingStored(s)
  BY DEF IInv, LockInv, UploadInv, UploadOk
<1>4. LockInv'
  BY <1>3 DEF IInv, TypeOK, LockInv
<1>5. ViewInv'
  BY <1>3, ViewKept DEF IInv, TypeOK
<1>6. pc'[s] = "ingest" /\ batch'[s] = b /\ known'[s] = registry /\ pos'[s] = 1
      /\ rawIds'[s] = NoIds /\ parsedIds'[s] = NoIds /\ writer' # s
  BY <1>3 DEF IInv, TypeOK, NothingStored
<1>7. UploadOk(s)' /\ DeleteOk(s)'
  <2>1. Done(s)' = {} /\ DOMAIN NoIds = {}
    BY <1>6 DEF Done, NoIds
  <2>2. StoredPositions(s)'
    BY <1>6, <2>1, BatchSeq DEF StoredPositions
  <2>3. NewIds(rawIds[s], raw)' /\ NewIds(parsedIds[s], parsed)'
    BY <1>6, <2>1 DEF NewIds
  <2>9. DeleteOk(s)'
    BY <1>6, NothingSelected DEF DeleteOk, IInv, TypeOK
  <2> QED
    BY <1>6, <2>2, <2>3, <2>9 DEF UploadOk
<1>8. \A t \in Sessions \ {s} : LocalsKept(t)
  BY DEF IInv, TypeOK, LocalsKept
<1>9. UploadInv' /\ DeleteInv'
  BY <1>7, <1>8, OtherSessions
<1> QED
  BY <1>1, <1>2, <1>4, <1>5, <1>9 DEF IInv

\* A frame out of scope: no row stands for its position.
LEMMA SkipFrameIInv ==
    ASSUME IInv, NEW s \in Sessions, SkipFrame(s)
    PROVE  IInv'
<1> USE DEF SkipFrame, Pending, disk, tx, purge
<1>0. batch[s] \in Batches /\ Len(batch[s]) \in 1..MaxBatch /\ pos[s] \in 1..Len(batch[s])
      /\ StoredPositions(s)
  <2>1. pc[s] \in {"ingest", "parse"} /\ pos[s] <= Len(batch[s])
    OBVIOUS
  <2>2. Len(batch[s]) \in 1..MaxBatch /\ pos[s] \in 1..(Len(batch[s]) + 1)
        /\ StoredPositions(s)
    BY <2>1, UploadFacts
  <2>3. pos[s] \in 1..Len(batch[s])
    BY <2>1, <2>2, StoreAssumption DEF RowIds
  <2> QED
    BY <2>2, <2>3 DEF StoredPositions
<1>1. TypeOK'
  BY <1>0, StoreAssumption DEF IInv, TypeOK, PcValues, IsIdMap, RowIds
<1>2. RowsLinked' /\ NoPendingCommitted'
  BY DEF IInv, RowsLinked, RowsLinkedIn, NoPendingCommitted
<1>3. LockInv'
  BY DEF IInv, LockInv
<1>4. ViewInv'
  BY DEF IInv, TypeOK, ViewInv, RowsLinkedIn
<1>5. Done(s)' = Done(s) /\ \A i \in Done(s) : Mark(s, i)' = Mark(s, i)
  <2>1. pos'[s] = pos[s] + 1
    BY DEF IInv, TypeOK
  <2> QED
    BY <1>0, <2>1 DEF Done, Mark, Payload, IInv, TypeOK
<1>6. UploadOk(s)' /\ DeleteOk(s)'
  <2>1. StoredPositions(s)'
    BY <1>0, <1>5 DEF StoredPositions, IInv, TypeOK
  <2>2. NewIds(rawIds[s], raw)' /\ NewIds(parsedIds[s], parsed)'
    BY DEF IInv, UploadInv, UploadOk
  <2>3. writer = s => UploadView(s)'
    <3>1. DOMAIN rawIds[s] = Done(s) /\ DOMAIN parsedIds[s] \subseteq Done(s)
      BY <1>0 DEF StoredPositions
    <3> QED
      BY <1>5, <3>1 DEF IInv, UploadInv, UploadOk, UploadView
  <2>9. DeleteOk(s)'
    BY NothingSelected DEF DeleteOk, IInv, TypeOK
  <2> QED
    BY <2>1, <2>2, <2>3, <2>9 DEF UploadOk
<1>7. \A t \in Sessions \ {s} : LocalsKept(t)
  BY DEF IInv, TypeOK, LocalsKept
<1>8. UploadInv' /\ DeleteInv'
  BY <1>6, <1>7, OtherSessions
<1> QED
  BY <1>1, <1>2, <1>3, <1>4, <1>8 DEF IInv

-----------------------------------------------------------------------------
(* The steps of ingest.                                                    *)

\* What a list of ids is with one more.
LEMMA ExtendFacts ==
    ASSUME NEW f, NEW i, NEW v
    PROVE  /\ DOMAIN Extend(f, i, v) = DOMAIN f \cup {i}
           /\ Extend(f, i, v)[i] = v
           /\ \A j \in DOMAIN f \ {i} : Extend(f, i, v)[j] = f[j]
           /\ IsIdMap(f) /\ i \in 1..MaxBatch /\ v \in RowIds => IsIdMap(Extend(f, i, v))
BY DEF Extend, IsIdMap

\* A session at a position of its batch.
LEMMA PositionFacts ==
    ASSUME IInv, NEW s \in Sessions, pc[s] \in {"ingest", "parse"},
           pos[s] <= Len(batch[s])
    PROVE  /\ pos[s] \in 1..MaxBatch
           /\ pos[s] \in 1..Len(batch[s])
           /\ pos[s] + 1 \in 1..(MaxBatch + 1)
           /\ pos[s] + 1 \in 1..(Len(batch[s]) + 1)
           /\ batch[s][pos[s]] \in Payloads
           /\ \A i \in Done(s) : i \in 1..MaxBatch /\ i < pos[s]
                                 /\ batch[s][i] \in Payloads
<1>1. /\ Len(batch[s]) \in 1..MaxBatch /\ pos[s] \in 1..(Len(batch[s]) + 1)
      /\ \A i \in 1..Len(batch[s]) : batch[s][i] \in Payloads
  BY UploadFacts
<1>2. pos[s] \in 1..Len(batch[s]) /\ MaxBatch \in Nat
  BY <1>1, StoreAssumption DEF RowIds
<1>3. pos[s] \in 1..MaxBatch
  BY <1>1, <1>2
<1> QED
  BY <1>1, <1>2, <1>3 DEF Done

\* The view a session that may write starts from, the lock taken or not.
LEMMA ViewFacts ==
    ASSUME IInv, NEW s \in Sessions, pc[s] \in {"ingest", "parse"}, CanWrite(s)
    PROVE  UploadView(s)
<1>1. CASE writer = s
  BY <1>1, UploadFacts
<1>2. CASE writer # s
  <2>1. txRaw = raw /\ txParsed = parsed
    BY <1>2 DEF CanWrite, IInv, LockInv
  <2>2. DOMAIN rawIds[s] = {} /\ DOMAIN parsedIds[s] = {}
    BY <1>2, UploadFacts DEF StoredPositions
  <2> QED
    BY <2>1, <2>2 DEF UploadView
<1> QED
  BY <1>1, <1>2

\* A new row's id continues the ids of a batch: V is a table's view, T the
\* table, f the ids of the rows the batch has added, n the next position.
LEMMA NextId ==
    ASSUME NEW T, NEW V, NEW f, NEW n \in Nat \ {0},
           \A r \in V : r.id \in RowIds,
           \A j \in DOMAIN f : j \in Nat /\ j < n /\ f[j] \in RowIds,
           NewIds(f, T),
           T \subseteq V,
           \A j \in DOMAIN f : \E r \in V : r.id = f[j],
           \A r \in V : r \in T \/ \E j \in DOMAIN f : r.id = f[j],
           NEW i \in NextIds(V)
    PROVE  /\ i \in RowIds
           /\ \A r \in V : r.id < i
           /\ NewIds(Extend(f, n, i), T)
<1> DEFINE g == Extend(f, n, i)
<1>1. /\ i \in RowIds
      /\ \A r \in V : r.id < i
      /\ i = 1 \/ \E r \in V : i = r.id + 1
  BY FreshId
<1>2. /\ DOMAIN g = DOMAIN f \cup {n} /\ g[n] = i
      /\ \A j \in DOMAIN f : g[j] = f[j] /\ j # n
  BY DEF Extend
<1>3. \A j \in DOMAIN f : f[j] < i
  BY <1>1
<1>4. ASSUME NEW j \in DOMAIN g, NEW k \in DOMAIN g, j < k PROVE g[j] < g[k]
  <2>1. CASE k = n
    BY <1>2, <1>3, <1>4, <2>1
  <2>2. CASE k # n
    <3>1. k \in DOMAIN f /\ j \in DOMAIN f
      BY <1>2, <1>4, <2>2
    <3> QED
      BY <1>2, <1>4, <3>1 DEF NewIds
  <2> QED
    BY <2>1, <2>2
<1>5. \A j \in DOMAIN g, r \in T : r.id < g[j]
  BY <1>1, <1>2 DEF NewIds
<1>6. ASSUME NEW j \in DOMAIN g
      PROVE  \E top \in Archive!TopIds(T) : g[j] <= top + j
  <2>1. CASE j \in DOMAIN f
    BY <1>2, <2>1 DEF NewIds
  <2>2. CASE j = n
    <3>1. CASE i = 1
      <4>1. V = {}
        BY <1>1, <3>1 DEF RowIds
      <4>2. 0 \in Archive!TopIds(T)
        BY <4>1 DEF Archive!TopIds
      <4> QED
        BY <1>2, <2>2, <3>1, <4>2
    <3>2. CASE \E r \in T : i = r.id + 1
      <4>1. PICK r \in T : i = r.id + 1
        BY <3>2
      <4>2. r.id \in Archive!TopIds(T)
        BY <1>1, <4>1 DEF Archive!TopIds, RowIds
      <4> QED
        BY <1>2, <2>2, <4>1, <4>2 DEF RowIds
    <3>3. CASE \E k \in DOMAIN f : i = f[k] + 1
      <4>1. PICK k \in DOMAIN f : i = f[k] + 1
        BY <3>3
      <4>2. PICK top \in Archive!TopIds(T) : f[k] <= top + k
        BY DEF NewIds
      <4>3. top \in Nat
        BY DEF Archive!TopIds, RowIds
      <4> QED
        BY <1>2, <2>2, <4>1, <4>2, <4>3 DEF RowIds
    <3> QED
      BY <1>1, <3>1, <3>2, <3>3
  <2> QED
    BY <1>2, <2>1, <2>2
<1> QED
  BY <1>1, <1>4, <1>5, <1>6 DEF NewIds

\* The first flush of ingest: the one pending row of the view.
LEMMA InsertRawIInv ==
    ASSUME IInv, NEW s \in Sessions, InsertRaw(s)
    PROVE  IInv'
<1> USE DEF InsertRaw, Pending, LockWrite, disk, tx, purge
<1> DEFINE n == pos[s]
<1>1. /\ n \in 1..MaxBatch /\ n \in 1..Len(batch[s]) /\ n \in Nat \ {0}
      /\ Payload(s) \in Payloads
      /\ \A j \in Done(s) : j \in Nat /\ j < n
  BY PositionFacts, StoreAssumption DEF Payload, RowIds
<1>2. PICK i \in NextIds(txRaw) :
         /\ txRaw' = txRaw \cup {RawRow(i, Payload(s), "pending")}
         /\ rawIds' = [rawIds EXCEPT ![s] = Extend(rawIds[s], n, i)]
  OBVIOUS
<1>3. StoredPositions(s) /\ NewIds(rawIds[s], raw) /\ NewIds(parsedIds[s], parsed)
      /\ DOMAIN rawIds[s] = Done(s) /\ IsIdMap(rawIds[s])
  BY UploadFacts DEF StoredPositions, IInv, TypeOK
<1>4. UploadView(s)
  BY ViewFacts
<1>5. /\ i \in RowIds
      /\ \A r \in txRaw : r.id < i
      /\ NewIds(Extend(rawIds[s], n, i), raw)
  <2>1. \A j \in DOMAIN rawIds[s] : j \in Nat /\ j < n /\ rawIds[s][j] \in RowIds
    BY <1>1, <1>3 DEF IsIdMap
  <2>2. raw \subseteq txRaw
    BY <1>4 DEF UploadView
  <2>3. ASSUME NEW j \in DOMAIN rawIds[s] PROVE \E r \in txRaw : r.id = rawIds[s][j]
    <3>1. RawRow(rawIds[s][j], batch[s][j], Mark(s, j)) \in txRaw
      BY <1>4 DEF UploadView
    <3> QED
      BY <3>1 DEF RawRow
  <2>4. \A r \in txRaw : r \in raw \/ \E j \in DOMAIN rawIds[s] : r.id = rawIds[s][j]
    BY <1>4 DEF UploadView, RawRow
  <2>5. \A r \in txRaw : r.id \in RowIds
    BY DEF IInv, TypeOK, RawRows
  <2> QED
    BY <1>1, <1>3, <2>1, <2>2, <2>3, <2>4, <2>5, NextId
<1>6. /\ rawIds'[s] = Extend(rawIds[s], n, i) /\ pc'[s] = "parse" /\ writer' = s
      /\ IsIdMap(rawIds'[s])
      /\ DOMAIN rawIds'[s] = Done(s) \cup {n} /\ rawIds'[s][n] = i
      /\ \A j \in Done(s) : rawIds'[s][j] = rawIds[s][j]
  <2>1. rawIds'[s] = Extend(rawIds[s], n, i) /\ pc'[s] = "parse" /\ writer' = s
    BY <1>2 DEF IInv, TypeOK
  <2>2. IsIdMap(Extend(rawIds[s], n, i))
    BY <1>1, <1>3, <1>5 DEF Extend, IsIdMap
  <2> QED
    BY <1>1, <1>3, <2>1, <2>2 DEF Extend
<1>7. TypeOK'
  <2>1. RawRow(i, Payload(s), "pending") \in RawRows
    BY <1>1, <1>5 DEF RawRow, RawRows, Statuses
  <2>2. DOMAIN rawIds' = Sessions /\ \A t \in Sessions : IsIdMap(rawIds'[t])
    BY <1>2, <1>6 DEF IInv, TypeOK
  <2> QED
    BY <1>2, <2>1, <2>2 DEF IInv, TypeOK, PcValues
<1>8. RowsLinked' /\ NoPendingCommitted'
  BY DEF IInv, RowsLinked, RowsLinkedIn, NoPendingCommitted
<1>9. LockInv'
  BY <1>6, StoreAssumption DEF IInv, TypeOK, LockInv, CanWrite
<1>10. ViewInv'
  <2>1. RowsLinkedIn(txRaw', txParsed)
    <3>1. RawRow(i, Payload(s), "pending").id = i
      BY DEF RawRow
    <3>2. \A q, r \in txRaw' : q.id = r.id => q = r
      BY <1>2, <1>5, <3>1 DEF IInv, ViewInv, RowsLinkedIn, TypeOK, RawRows, RowIds
    <3> QED
      BY <1>2, <3>2 DEF IInv, ViewInv, RowsLinkedIn
  <2>2. \A r \in txRaw : r.status # "pending"
    BY StoreAssumption DEF IInv, ViewInv, CanWrite
  <2>3. \A r \in txRaw' : r.status = "pending" => r.id = i
    BY <1>2, <2>2 DEF RawRow
  <2> QED
    BY <1>6, <2>1, <2>3 DEF ViewInv
<1>11. UploadOk(s)' /\ DeleteOk(s)'
  <2>1. Done(s)' = Done(s) /\ \A j \in Done(s) \cup {n} : Mark(s, j)' = Mark(s, j)
    BY DEF Done, Mark
  <2>2. StoredPositions(s)'
    BY <1>1, <1>3, <1>6, <2>1 DEF StoredPositions, Payload
  <2>3. NewIds(rawIds[s], raw)' /\ NewIds(parsedIds[s], parsed)'
    BY <1>3, <1>5, <1>6
  <2>4. UploadView(s)'
    <3>1. Mark(s, n) = "pending" /\ Payload(s) = batch[s][n]
      BY <1>1 DEF Mark, Payload
    <3>2. txRaw' = raw \cup {RawRow(rawIds'[s][j], batch[s][j], Mark(s, j)) :
                                j \in Done(s) \cup {n}}
      BY <1>2, <1>3, <1>4, <1>6, <3>1 DEF UploadView
    <3>3. DOMAIN parsedIds[s] \subseteq Done(s)
      BY <1>3 DEF StoredPositions
    <3>4. txParsed' = parsed \cup {ParsedRow(parsedIds[s][j], rawIds'[s][j], batch[s][j]) :
                                      j \in DOMAIN parsedIds[s]}
      BY <1>4, <1>6, <3>3 DEF UploadView
    <3> QED
      BY <1>6, <2>1, <3>2, <3>4 DEF UploadView
  <2>9. DeleteOk(s)'
    BY <1>6, NothingSelected DEF DeleteOk, IInv, TypeOK
  <2> QED
    BY <1>6, <2>2, <2>3, <2>4, <2>9 DEF UploadOk
<1>12. \A t \in Sessions \ {s} : LocalsKept(t) /\ writer # t /\ writer' # t
  BY <1>2, <1>6, StoreAssumption DEF IInv, TypeOK, LocalsKept, CanWrite
<1>13. UploadInv' /\ DeleteInv'
  BY <1>11, <1>12, OtherSessions
<1> QED
  BY <1>7, <1>8, <1>9, <1>10, <1>13 DEF IInv

\* The verdict on the row being parsed: it is the only pending row, no
\* parsed row is linked to it yet, and marking it touches no other.
LEMMA VerdictFacts ==
    ASSUME IInv, NEW s \in Sessions, pc[s] = "parse", NEW st \in {"parsed", "error"}
    PROVE  LET n == pos[s]
               id == rawIds[s][n]
               pending == RawRow(id, Payload(s), "pending")
           IN  /\ writer = s /\ n \in DOMAIN rawIds[s] /\ id \in RowIds
               /\ pending \in txRaw /\ pending \notin raw
               /\ \A r \in txRaw : r.id = id => r = pending
               /\ \A r \in txRaw : r.status = "pending" => r = pending
               /\ \A p \in txParsed : p.rawId # id
               /\ SetStatus(txRaw, id, st) =
                     (txRaw \ {pending}) \cup {RawRow(id, Payload(s), st)}
<1> DEFINE n == pos[s]
           id == rawIds[s][n]
           pending == RawRow(id, Payload(s), "pending")
<1>1. writer = s /\ pos[s] <= Len(batch[s])
  BY UploadFacts DEF IInv, LockInv, StoredPositions
<1>2. n \in DOMAIN rawIds[s] /\ id \in RowIds
  BY UploadFacts DEF StoredPositions, IInv, TypeOK, IsIdMap
<1>3. Mark(s, n) = "pending"
  <2>1. n \in 1..MaxBatch
    BY <1>1, PositionFacts
  <2> QED
    BY <2>1, StoreAssumption DEF Mark, RowIds
<1>4. pending \in txRaw
  BY <1>1, <1>2, <1>3, UploadFacts DEF UploadView, Payload
<1>5. pending.id = id /\ pending.status = "pending" /\ pending.payload = Payload(s)
  BY DEF RawRow
<1>6. pending \notin raw
  BY <1>5 DEF IInv, NoPendingCommitted
<1>7. \A r \in txRaw : r.id = id => r = pending
  BY <1>4, <1>5 DEF IInv, ViewInv, RowsLinkedIn
<1>8. \A r \in txRaw : r.status = "pending" => r = pending
  BY <1>1, <1>7 DEF IInv, ViewInv
<1>9. ASSUME NEW p \in txParsed PROVE p.rawId # id
  <2>1. PICK r \in txRaw : r.id = p.rawId /\ r.status = "parsed"
    BY DEF IInv, ViewInv, RowsLinkedIn
  <2> QED
    BY <1>5, <1>7, <2>1
<1>10. SetStatus(txRaw, id, st) =
          (txRaw \ {pending}) \cup {RawRow(id, Payload(s), st)}
  BY <1>4, <1>5, <1>7 DEF SetStatus
<1> QED
  BY <1>1, <1>2, <1>4, <1>6, <1>7, <1>8, <1>9, <1>10

\* What both verdicts of the parser do to the raw table and to the session.
LEMMA VerdictView ==
    ASSUME IInv, NEW s \in Sessions, pc[s] = "parse", NEW st \in {"parsed", "error"},
           Outcome(known[s], Payload(s)) = st,
           txRaw' = SetStatus(txRaw, rawIds[s][pos[s]], st),
           pos' = [pos EXCEPT ![s] = @ + 1], pc' = [pc EXCEPT ![s] = "ingest"],
           UNCHANGED <<disk, writer, batch, known, skipUnknown, rawIds>>
    PROVE  /\ txRaw' \subseteq RawRows
           /\ pos'[s] = pos[s] + 1 /\ pc'[s] = "ingest"
           /\ pos'[s] \in 1..(MaxBatch + 1) /\ pos'[s] \in 1..(Len(batch[s]) + 1)
           /\ pos[s] \notin Done(s)
           /\ Done(s)' = Done(s) \cup {pos[s]}
           /\ DOMAIN rawIds[s] = Done(s)'
           /\ \A i \in Done(s)' : Outcome(known[s], batch[s][i]) # "raises"
           /\ txRaw' = raw \cup {RawRow(rawIds[s][i], batch[s][i], Mark(s, i)') :
                                    i \in DOMAIN rawIds[s]}
           /\ \A q, r \in txRaw' : q.id = r.id => q = r
           /\ \A r \in txRaw' : r.status # "pending"
<1>0. PICK n : n = pos[s]
  OBVIOUS
<1> DEFINE id == rawIds[s][n]
           pending == RawRow(id, Payload(s), "pending")
           settled == RawRow(id, Payload(s), st)
<1> USE DEF disk
<1>1. /\ writer = s /\ n \in DOMAIN rawIds[s] /\ id \in RowIds
      /\ pending \in txRaw /\ pending \notin raw
      /\ \A r \in txRaw : r.id = id => r = pending
      /\ \A r \in txRaw : r.status = "pending" => r = pending
      /\ txRaw' = (txRaw \ {pending}) \cup {settled}
  BY <1>0, VerdictFacts
<1>2. StoredPositions(s) /\ UploadView(s) /\ n <= Len(batch[s])
  BY <1>0, <1>1, UploadFacts DEF StoredPositions
<1>3. /\ n \in 1..MaxBatch /\ n + 1 \in 1..(MaxBatch + 1)
      /\ n + 1 \in 1..(Len(batch[s]) + 1) /\ n \in 1..Len(batch[s])
      /\ Payload(s) \in Payloads
      /\ \A i \in Done(s) : i \in 1..MaxBatch /\ i < n
  BY <1>0, <1>2, PositionFacts DEF Payload
<1>4. n \in Nat \ {0} /\ \A i \in Done(s) : i \in Nat /\ i < n /\ i # n /\ i < n + 1
  BY <1>3, StoreAssumption DEF RowIds
<1>5. pos'[s] = n + 1 /\ pc'[s] = "ingest"
  BY <1>0 DEF IInv, TypeOK
<1>6. Done(s)' = Done(s) \cup {n}
  BY <1>0, <1>2, <1>4, <1>5 DEF Done, StoredPositions, Payload
<1>7. DOMAIN rawIds[s] = Done(s) \cup {n}
  BY <1>0, <1>2 DEF StoredPositions
<1>8. /\ Mark(s, n)' = st /\ Mark(s, n) = "pending"
      /\ \A i \in Done(s) : Mark(s, i)' = Mark(s, i)
  BY <1>0, <1>4, <1>5 DEF Mark, Payload
<1>9. settled.id = id /\ settled.status = st /\ pending.id = id
      /\ pending.status = "pending"
  BY DEF RawRow
<1>10. txRaw' = raw \cup {RawRow(rawIds[s][i], batch[s][i], Mark(s, i)') :
                             i \in DOMAIN rawIds[s]}
  <2>1. \A i \in Done(s) : RawRow(rawIds[s][i], batch[s][i], Mark(s, i)) # pending
    <3>1. \A i \in Done(s) : rawIds[s][i] < id /\ rawIds[s][i] \in RowIds
      BY <1>1, <1>4, <1>7, UploadFacts DEF NewIds, IInv, TypeOK, IsIdMap
    <3> QED
      BY <1>1, <3>1 DEF RawRow, RowIds
  <2>2. txRaw = (raw \cup {RawRow(rawIds[s][i], batch[s][i], Mark(s, i)) : i \in Done(s)})
                   \cup {pending}
    BY <1>0, <1>2, <1>7, <1>8 DEF UploadView, Payload
  <2>3. txRaw \ {pending} =
           raw \cup {RawRow(rawIds[s][i], batch[s][i], Mark(s, i)) : i \in Done(s)}
    BY <1>1, <2>1, <2>2
  <2>4. settled = RawRow(rawIds[s][n], batch[s][n], Mark(s, n)')
    BY <1>0, <1>8 DEF Payload
  <2> QED
    BY <1>1, <1>7, <1>8, <2>3, <2>4
<1>11. \A q, r \in txRaw' : q.id = r.id => q = r
  BY <1>1, <1>9 DEF IInv, ViewInv, RowsLinkedIn
<1>12. \A r \in txRaw' : r.status # "pending"
  BY <1>1, <1>9
<1>13. txRaw' \subseteq RawRows
  BY <1>1, <1>3 DEF IInv, TypeOK, RawRow, RawRows, Statuses
<1>14. \A i \in Done(s)' : Outcome(known[s], batch[s][i]) # "raises"
  BY <1>0, <1>2, <1>6 DEF StoredPositions, Payload
<1> QED
  BY <1>0, <1>3, <1>4, <1>5, <1>6, <1>7, <1>10, <1>11, <1>12, <1>13, <1>14

\* The verdict 'error': the pending row is settled.
LEMMA ParseErrorIInv ==
    ASSUME IInv, NEW s \in Sessions, ParseError(s)
    PROVE  IInv'
<1> USE DEF ParseError, ParseIs, disk, purge
<1>1. PICK n : n = pos[s]
  OBVIOUS
<1>2. /\ writer = s
      /\ \A r \in txRaw : r.status = "pending" => r = RawRow(rawIds[s][n], Payload(s), "pending")
      /\ txRaw' = (txRaw \ {RawRow(rawIds[s][n], Payload(s), "pending")})
                     \cup {RawRow(rawIds[s][n], Payload(s), "error")}
  BY <1>1, VerdictFacts
<1>3. /\ txRaw' \subseteq RawRows
      /\ pos'[s] = n + 1 /\ pc'[s] = "ingest"
      /\ pos'[s] \in 1..(MaxBatch + 1) /\ pos'[s] \in 1..(Len(batch[s]) + 1)
      /\ Done(s)' = Done(s) \cup {n}
      /\ DOMAIN rawIds[s] = Done(s)'
      /\ \A i \in Done(s)' : Outcome(known[s], batch[s][i]) # "raises"
      /\ txRaw' = raw \cup {RawRow(rawIds[s][i], batch[s][i], Mark(s, i)') :
                               i \in DOMAIN rawIds[s]}
      /\ \A q, r \in txRaw' : q.id = r.id => q = r
      /\ \A r \in txRaw' : r.status # "pending"
  BY <1>1, VerdictView
<1>4. StoredPositions(s) /\ NewIds(rawIds[s], raw) /\ NewIds(parsedIds[s], parsed)
      /\ UploadView(s)
  BY <1>2, UploadFacts
<1>5. TypeOK'
  BY <1>3 DEF IInv, TypeOK, PcValues
<1>6. RowsLinked' /\ NoPendingCommitted'
  BY DEF IInv, RowsLinked, RowsLinkedIn, NoPendingCommitted
<1>7. LockInv'
  BY <1>2, StoreAssumption DEF IInv, TypeOK, LockInv
<1>8. ViewInv'
  <2>1. \A p \in txParsed : \E r \in txRaw' :
           r.id = p.rawId /\ r.status = "parsed" /\ r.payload = p.body
    <3>1. RawRow(rawIds[s][n], Payload(s), "pending").status = "pending"
      BY DEF RawRow
    <3> QED
      BY <1>2, <3>1 DEF IInv, ViewInv, RowsLinkedIn
  <2> QED
    BY <1>3, <2>1 DEF IInv, ViewInv, RowsLinkedIn
<1>9. UploadOk(s)' /\ DeleteOk(s)'
  <2>1. StoredPositions(s)'
    <3>1. DOMAIN parsedIds[s] =
             {i \in Done(s)' : Outcome(known[s], batch[s][i]) = "parsed"}
      BY <1>1, <1>3, <1>4 DEF StoredPositions, Payload
    <3> QED
      BY <1>2, <1>3, <1>4, <3>1 DEF StoredPositions
  <2>2. UploadView(s)'
    BY <1>3, <1>4 DEF UploadView
  <2>9. DeleteOk(s)'
    BY <1>3, <1>4, NothingSelected DEF DeleteOk, IInv, TypeOK
  <2> QED
    BY <1>3, <1>4, <2>1, <2>2, <2>9 DEF UploadOk
<1>10. \A t \in Sessions \ {s} : LocalsKept(t) /\ writer # t /\ writer' # t
  BY <1>2 DEF IInv, TypeOK, LocalsKept
<1>11. UploadInv' /\ DeleteInv'
  BY <1>9, <1>10, OtherSessions
<1> QED
  BY <1>5, <1>6, <1>7, <1>8, <1>11 DEF IInv

\* The verdict 'parsed': the pending row is settled and gets its parsed row.
LEMMA ParseOkIInv ==
    ASSUME IInv, NEW s \in Sessions, ParseOk(s)
    PROVE  IInv'
<1> USE DEF ParseOk, ParseIs, disk, purge
<1>1. PICK n : n = pos[s]
  OBVIOUS
<1> DEFINE id == rawIds[s][n]
<1>2. PICK i \in NextIds(txParsed) :
         /\ txParsed' = txParsed \cup {ParsedRow(i, id, Payload(s))}
         /\ parsedIds' = [parsedIds EXCEPT ![s] = Extend(parsedIds[s], n, i)]
  BY <1>1
<1>3. /\ writer = s /\ n \in DOMAIN rawIds[s] /\ id \in RowIds
      /\ \A r \in txRaw : r.status = "pending" => r = RawRow(id, Payload(s), "pending")
      /\ \A p \in txParsed : p.rawId # id
      /\ txRaw' = (txRaw \ {RawRow(id, Payload(s), "pending")})
                     \cup {RawRow(id, Payload(s), "parsed")}
  BY <1>1, VerdictFacts
<1>4. /\ txRaw' \subseteq RawRows
      /\ pos'[s] = n + 1 /\ pc'[s] = "ingest"
      /\ pos'[s] \in 1..(MaxBatch + 1) /\ pos'[s] \in 1..(Len(batch[s]) + 1)
      /\ Done(s)' = Done(s) \cup {n} /\ n \notin Done(s)
      /\ DOMAIN rawIds[s] = Done(s)'
      /\ \A j \in Done(s)' : Outcome(known[s], batch[s][j]) # "raises"
      /\ txRaw' = raw \cup {RawRow(rawIds[s][j], batch[s][j], Mark(s, j)') :
                               j \in DOMAIN rawIds[s]}
      /\ \A q, r \in txRaw' : q.id = r.id => q = r
      /\ \A r \in txRaw' : r.status # "pending"
  BY <1>1, VerdictView
<1>5. StoredPositions(s) /\ NewIds(rawIds[s], raw) /\ NewIds(parsedIds[s], parsed)
      /\ UploadView(s) /\ IsIdMap(parsedIds[s])
      /\ DOMAIN parsedIds[s] =
            {j \in Done(s) : Outcome(known[s], batch[s][j]) = "parsed"}
  BY <1>3, UploadFacts DEF StoredPositions, IInv, TypeOK
<1>6. /\ n \in 1..MaxBatch /\ n \in Nat \ {0} /\ Payload(s) \in Payloads
      /\ \A j \in Done(s) : j \in Nat /\ j < n
      /\ n = pos[s] /\ Payload(s) = batch[s][n]
  <2>1. pos[s] <= Len(batch[s])
    BY <1>5 DEF StoredPositions
  <2> QED
    BY <1>1, <2>1, PositionFacts, StoreAssumption DEF Payload, RowIds
<1>7. /\ i \in RowIds
      /\ \A p \in txParsed : p.id < i
      /\ NewIds(Extend(parsedIds[s], n, i), parsed)
  <2>1. \A j \in DOMAIN parsedIds[s] : j \in Nat /\ j < n /\ parsedIds[s][j] \in RowIds
    BY <1>5, <1>6 DEF IsIdMap
  <2>2. parsed \subseteq txParsed
    BY <1>5 DEF UploadView
  <2>3. ASSUME NEW j \in DOMAIN parsedIds[s]
        PROVE  \E p \in txParsed : p.id = parsedIds[s][j]
    <3>1. ParsedRow(parsedIds[s][j], rawIds[s][j], batch[s][j]) \in txParsed
      BY <1>5 DEF UploadView
    <3> QED
      BY <3>1 DEF ParsedRow
  <2>4. \A p \in txParsed : p \in parsed \/ \E j \in DOMAIN parsedIds[s] : p.id = parsedIds[s][j]
    BY <1>5 DEF UploadView, ParsedRow
  <2>5. \A p \in txParsed : p.id \in RowIds
    BY DEF IInv, TypeOK, ParsedRows
  <2> QED
    BY <1>5, <1>6, <2>1, <2>2, <2>3, <2>4, <2>5, NextId
<1>8. /\ parsedIds'[s] = Extend(parsedIds[s], n, i)
      /\ IsIdMap(parsedIds'[s])
      /\ DOMAIN parsedIds'[s] = DOMAIN parsedIds[s] \cup {n} /\ parsedIds'[s][n] = i
      /\ \A j \in DOMAIN parsedIds[s] : parsedIds'[s][j] = parsedIds[s][j]
  <2>1. parsedIds'[s] = Extend(parsedIds[s], n, i)
    BY <1>2 DEF IInv, TypeOK
  <2>2. IsIdMap(Extend(parsedIds[s], n, i))
    BY <1>5, <1>6, <1>7 DEF Extend, IsIdMap
  <2> QED
    BY <1>4, <1>5, <2>1, <2>2 DEF Extend
<1>9. /\ ParsedRow(i, id, Payload(s)).id = i
      /\ ParsedRow(i, id, Payload(s)).rawId = id
      /\ ParsedRow(i, id, Payload(s)).body = Payload(s)
      /\ ParsedRow(i, id, Payload(s)) \in ParsedRows
  BY <1>3, <1>6, <1>7, TablesAssumption DEF ParsedRow, ParsedRows
<1>10. TypeOK'
  <2>1. DOMAIN parsedIds' = Sessions /\ \A t \in Sessions : IsIdMap(parsedIds'[t])
    BY <1>2, <1>8 DEF IInv, TypeOK
  <2> QED
    BY <1>2, <1>4, <1>9, <2>1 DEF IInv, TypeOK, PcValues
<1>11. RowsLinked' /\ NoPendingCommitted'
  BY DEF IInv, RowsLinked, RowsLinkedIn, NoPendingCommitted
<1>12. LockInv'
  BY <1>3, StoreAssumption DEF IInv, TypeOK, LockInv
<1>13. ViewInv'
  <2>1. \A o, p \in txParsed' : o.id = p.id \/ o.rawId = p.rawId => o = p
    <3>1. \A p \in txParsed : p.id # i /\ p.rawId # id
      BY <1>3, <1>7 DEF RowIds, IInv, TypeOK, ParsedRows
    <3> QED
      BY <1>2, <1>9, <3>1 DEF IInv, ViewInv, RowsLinkedIn
  <2>2. ASSUME NEW p \in txParsed'
        PROVE  \E r \in txRaw' :
                  r.id = p.rawId /\ r.status = "parsed" /\ r.payload = p.body
    <3>1. CASE p \in txParsed
      <4>1. RawRow(id, Payload(s), "pending").status = "pending"
        BY DEF RawRow
      <4> QED
        BY <1>3, <3>1, <4>1 DEF IInv, ViewInv, RowsLinkedIn
    <3>2. CASE p = ParsedRow(i, id, Payload(s))
      <4> DEFINE r == RawRow(id, Payload(s), "parsed")
      <4>1. r \in txRaw'
        BY <1>3
      <4>2. r.id = id /\ r.status = "parsed" /\ r.payload = Payload(s)
        BY DEF RawRow
      <4>3. p.rawId = id /\ p.body = Payload(s)
        BY <1>9, <3>2
      <4> HIDE DEF r
      <4> QED
        BY <4>1, <4>2, <4>3
    <3> QED
      BY <1>2, <3>1, <3>2
  <2> QED
    BY <1>4, <2>1, <2>2 DEF ViewInv, RowsLinkedIn
<1>14. UploadOk(s)' /\ DeleteOk(s)'
  <2>1. StoredPositions(s)'
    <3>1. DOMAIN parsedIds'[s] =
             {j \in Done(s)' : Outcome(known[s], batch[s][j]) = "parsed"}
      BY <1>4, <1>5, <1>6, <1>8
    <3> QED
      BY <1>3, <1>4, <1>5, <3>1 DEF StoredPositions
  <2>2. txParsed' = parsed \cup {ParsedRow(parsedIds'[s][j], rawIds[s][j], batch[s][j]) :
                                    j \in DOMAIN parsedIds'[s]}
    BY <1>2, <1>5, <1>6, <1>8 DEF UploadView
  <2>3. UploadView(s)'
    BY <1>4, <2>2 DEF UploadView
  <2>4. NewIds(rawIds[s], raw)' /\ NewIds(parsedIds[s], parsed)'
    BY <1>5, <1>7, <1>8
  <2>9. DeleteOk(s)'
    BY <1>4, NothingSelected DEF DeleteOk, IInv, TypeOK
  <2> QED
    BY <1>4, <2>1, <2>3, <2>4, <2>9 DEF UploadOk
<1>15. \A t \in Sessions \ {s} : LocalsKept(t) /\ writer # t /\ writer' # t
  BY <1>2, <1>3 DEF IInv, TypeOK, LocalsKept
<1>16. UploadInv' /\ DeleteInv'
  BY <1>14, <1>15, OtherSessions
<1> QED
  BY <1>10, <1>11, <1>12, <1>13, <1>16 DEF IInv

-----------------------------------------------------------------------------
(* The ends of a scope, and the deletes.                                   *)

\* Leaving the scope resets the session and nothing else.
LEMMA LeaveFacts ==
    ASSUME IInv, NEW s \in Sessions, Leave(s)
    PROVE  /\ pc'[s] = "idle" /\ NothingStored(s)'
           /\ code'[s] = NoCode /\ picked'[s] = {}
           /\ \A t \in Sessions \ {s} : LocalsKept(t)
BY DEF IInv, TypeOK, Leave, NothingStored, LocalsKept

\* The types after a scope has ended.
LEMMA LeaveTypeOK ==
    ASSUME IInv, NEW s \in Sessions, Leave(s),
           raw' \subseteq RawRows, parsed' \subseteq ParsedRows,
           txRaw' \subseteq RawRows, txParsed' \subseteq ParsedRows,
           writer' \in Sessions \cup {NoSession}
    PROVE  TypeOK'
<1>1. pos' \in [Sessions -> 1..(MaxBatch + 1)]
  BY StoreAssumption DEF IInv, TypeOK, Leave, RowIds
<1>2. IsIdMap(NoIds)
  BY DEF IsIdMap, NoIds, RowIds
<1>3. /\ DOMAIN rawIds' = Sessions /\ \A t \in Sessions : IsIdMap(rawIds'[t])
      /\ DOMAIN parsedIds' = Sessions /\ \A t \in Sessions : IsIdMap(parsedIds'[t])
  BY <1>2 DEF IInv, TypeOK, Leave
<1> QED
  BY <1>1, <1>3 DEF IInv, TypeOK, Leave, PcValues

\* A session that rolls back, whether or not it held the lock.
LEMMA RollbackIInv ==
    ASSUME IInv, NEW s \in Sessions, Rollback(s)
    PROVE  IInv'
<1> USE DEF Rollback, disk
<1>1. /\ writer' \in Sessions \cup {NoSession}
      /\ writer' = NoSession => txRaw' = raw /\ txParsed' = parsed
      /\ \A t \in Sessions \ {s} :
            /\ writer' = t <=> writer = t
            /\ writer = t => UNCHANGED <<raw, parsed, txRaw, txParsed>>
      /\ writer' # s
  BY StoreAssumption DEF IInv, TypeOK, LockInv
<1>2. TypeOK'
  BY <1>1, LeaveTypeOK DEF IInv, TypeOK
<1>3. RowsLinked' /\ NoPendingCommitted'
  BY DEF IInv, RowsLinked, RowsLinkedIn, NoPendingCommitted
<1>4. /\ pc'[s] = "idle" /\ NothingStored(s)'
      /\ code'[s] = NoCode /\ picked'[s] = {}
      /\ \A t \in Sessions \ {s} : LocalsKept(t)
  BY LeaveFacts
<1>5. LockInv'
  BY <1>1, <1>4 DEF LockInv, LocalsKept, IInv
<1>6. ViewInv'
  <2>1. CASE writer = s
    BY <2>1 DEF IInv, RowsLinked, NoPendingCommitted, ViewInv, RowsLinkedIn
  <2>2. CASE writer # s
    <3>1. RowsLinkedIn(txRaw', txParsed')
      BY <2>2 DEF IInv, ViewInv
    <3>2. ASSUME NEW r \in txRaw', r.status = "pending"
          PROVE  \E t \in Sessions : writer' = t /\ pc'[t] = "parse"
                                     /\ r.id = rawIds'[t][pos'[t]]
      BY <1>1, <1>4, <2>2, <3>2 DEF IInv, ViewInv, LocalsKept
    <3> QED
      BY <3>1, <3>2 DEF ViewInv
  <2> QED
    BY <2>1, <2>2
<1>7. UploadInv' /\ DeleteInv'
  <2>1. UploadOk(s)' /\ DeleteOk(s)'
    BY <1>4 DEF UploadOk, DeleteOk
  <2> QED
    BY <1>1, <1>4, <2>1, OtherSessions
<1> QED
  BY <1>2, <1>3, <1>5, <1>6, <1>7 DEF IInv

\* A restart: the committed tables, and new sessions.
LEMMA CrashIInv ==
    ASSUME IInv, Crash
    PROVE  IInv'
<1> USE DEF Crash, disk
<1>1. TypeOK'
  <2>1. IsIdMap(NoIds)
    BY DEF IsIdMap, NoIds, RowIds
  <2>2. pos' \in [Sessions -> 1..(MaxBatch + 1)]
    BY StoreAssumption DEF RowIds
  <2> QED
    BY <2>1, <2>2 DEF IInv, TypeOK, PcValues
<1>2. RowsLinked' /\ NoPendingCommitted'
  BY DEF IInv, RowsLinked, RowsLinkedIn, NoPendingCommitted
<1>3. LockInv' /\ ViewInv'
  BY StoreAssumption DEF IInv, LockInv, ViewInv, RowsLinked, RowsLinkedIn, NoPendingCommitted
<1>4. UploadInv' /\ DeleteInv'
  BY DEF UploadInv, UploadOk, NothingStored, DeleteInv, DeleteOk
<1> QED
  BY <1>1, <1>2, <1>3, <1>4 DEF IInv

\* A commit publishes the view, which holds no pending row then.
LEMMA CommitIInv ==
    ASSUME IInv, NEW s \in Sessions, Commit(s)
    PROVE  IInv'
<1> USE DEF Commit, disk
<1>1. pc[s] \in {"commit", "ingest"}
  BY DEF AtCommit
<1>2. /\ writer' \in Sessions \cup {NoSession}
      /\ writer' = NoSession => txRaw' = raw' /\ txParsed' = parsed'
      /\ \A t \in Sessions \ {s} :
            /\ writer' = t <=> writer = t
            /\ writer = t => UNCHANGED <<raw, parsed, txRaw, txParsed>>
      /\ writer' # s
  BY StoreAssumption DEF IInv, TypeOK, LockInv
<1>3. TypeOK'
  BY <1>2, LeaveTypeOK DEF IInv, TypeOK
<1>4. writer = s => \A r \in txRaw : r.status # "pending"
  BY <1>1 DEF IInv, ViewInv
<1>5. RowsLinked' /\ NoPendingCommitted'
  BY <1>4 DEF IInv, RowsLinked, ViewInv, RowsLinkedIn, NoPendingCommitted
<1>6. /\ pc'[s] = "idle" /\ NothingStored(s)'
      /\ code'[s] = NoCode /\ picked'[s] = {}
      /\ \A t \in Sessions \ {s} : LocalsKept(t)
  BY LeaveFacts
<1>7. LockInv'
  BY <1>2, <1>6 DEF LockInv, LocalsKept, IInv
<1>8. ViewInv'
  <2>1. RowsLinkedIn(txRaw', txParsed')
    BY DEF IInv, ViewInv
  <2>2. ASSUME NEW r \in txRaw', r.status = "pending"
        PROVE  \E t \in Sessions : writer' = t /\ pc'[t] = "parse"
                                   /\ r.id = rawIds'[t][pos'[t]]
    BY <1>1, <1>2, <1>4, <1>6, <2>2 DEF IInv, ViewInv, LocalsKept
  <2> QED
    BY <2>1, <2>2 DEF ViewInv
<1>9. UploadInv' /\ DeleteInv'
  <2>1. UploadOk(s)' /\ DeleteOk(s)'
    BY <1>6 DEF UploadOk, DeleteOk
  <2> QED
    BY <1>2, <1>6, <2>1, OtherSessions
<1> QED
  BY <1>3, <1>5, <1>7, <1>8, <1>9 DEF IInv

\* The DELETE statements share this: session s, at rest or already deleting,
\* holds the lock after the step, and its view has lost some rows.
LEMMA DeleteStep ==
    ASSUME IInv, NEW s \in Sessions, CanWrite(s), writer' = s,
           pc[s] \in {"idle", "deleteParsed", "deleteRaw"},
           NEW next \in {"commit", "deleteRaw"}, pc' = [pc EXCEPT ![s] = next],
           UNCHANGED <<disk, upload, purge, uploads>>,
           txRaw' \subseteq txRaw, txParsed' \subseteq txParsed,
           \A p \in txParsed' : \A r \in txRaw : r.id = p.rawId => r \in txRaw',
           DeleteOk(s)'
    PROVE  IInv'
<1> USE DEF disk, upload, purge
<1>1. /\ pc'[s] = next
      /\ \A t \in Sessions \ {s} : LocalsKept(t) /\ writer # t /\ writer' # t
  BY StoreAssumption DEF CanWrite, IInv, TypeOK, LocalsKept
<1>2. TypeOK'
  BY DEF IInv, TypeOK, PcValues
<1>3. RowsLinked' /\ NoPendingCommitted'
  BY DEF IInv, RowsLinked, RowsLinkedIn, NoPendingCommitted
<1>4. LockInv'
  BY <1>1, StoreAssumption DEF LockInv, IInv, LocalsKept
<1>5. ViewInv'
  <2>1. \A r \in txRaw : r.status # "pending"
    BY StoreAssumption DEF CanWrite, IInv, ViewInv
  <2>2. RowsLinkedIn(txRaw', txParsed')
    BY DEF IInv, ViewInv, RowsLinkedIn
  <2> QED
    BY <2>1, <2>2 DEF ViewInv
<1>6. UploadOk(s)'
  BY <1>1 DEF IInv, UploadInv, UploadOk, NothingStored
<1>7. UploadInv' /\ DeleteInv'
  BY <1>1, <1>6, OtherSessions
<1> QED
  BY <1>2, <1>3, <1>4, <1>5, <1>7 DEF IInv

\* A raw row that goes takes its parsed rows with it.
LEMMA CascadeFacts ==
    ASSUME NEW T, NEW P, NEW ids
    PROVE  /\ WithoutIds(T, ids) \subseteq T /\ Cascade(P, ids) \subseteq P
           /\ \A p \in Cascade(P, ids) : \A r \in T :
                 r.id = p.rawId => r \in WithoutIds(T, ids)
BY DEF WithoutIds, Cascade

\* The session that is about to write starts from the committed tables.
LEMMA FreshView ==
    ASSUME IInv, NEW s \in Sessions, CanWrite(s), pc[s] \in {"idle", "deleteParsed"}
    PROVE  txRaw = raw /\ txParsed = parsed
BY DEF IInv, LockInv, CanWrite

\* Both tables are emptied.
LEMMA DeleteAllIInv ==
    ASSUME IInv, NEW s \in Sessions, DeleteAll(s)
    PROVE  IInv'
<1>1. DeleteOk(s)'
  BY NothingSelected DEF DeleteAll, DeleteOk, IInv, TypeOK, purge
<1> QED
  BY <1>1, DeleteStep DEF DeleteAll, LockWrite

\* The error rows go; no parsed row belongs to one.
LEMMA DeleteErrorsIInv ==
    ASSUME IInv, NEW s \in Sessions, DeleteErrors(s)
    PROVE  IInv'
<1> USE DEF DeleteErrors, LockWrite
<1>1. txRaw = raw /\ txParsed = parsed
  BY FreshView
<1>2. DeleteOk(s)'
  BY <1>1, NothingSelected DEF DeleteOk, IInv, TypeOK, disk, purge
<1> QED
  BY <1>2, CascadeFacts, DeleteStep

\* The SELECT of a delete by TR code writes nothing.
LEMMA SelectRawIdsIInv ==
    ASSUME IInv, NEW s \in Sessions, NEW c \in Codes, SelectRawIds(s, c)
    PROVE  IInv'
<1> USE DEF SelectRawIds, disk, tx, upload
<1>1. TypeOK'
  <2>1. RawIdsOf(parsed, c) \subseteq RowIds
    BY DEF RawIdsOf, IInv, TypeOK, ParsedRows
  <2> QED
    BY <2>1 DEF IInv, TypeOK, PcValues
<1>2. RowsLinked' /\ NoPendingCommitted'
  BY DEF IInv, RowsLinked, RowsLinkedIn, NoPendingCommitted
<1>3. writer # s
  BY DEF IInv, LockInv
<1>4. pc'[s] = "deleteParsed" /\ code'[s] = c
      /\ \A t \in Sessions \ {s} : LocalsKept(t)
  BY DEF IInv, TypeOK, LocalsKept
<1>5. LockInv'
  BY <1>3, <1>4 DEF IInv, LockInv, LocalsKept
<1>6. ViewInv'
  BY <1>3, <1>4, ViewKept DEF LocalsKept
<1>7. UploadOk(s)' /\ DeleteOk(s)'
  BY <1>4 DEF IInv, UploadInv, UploadOk, NothingStored, DeleteOk
<1>8. UploadInv' /\ DeleteInv'
  BY <1>4, <1>7, OtherSessions
<1> QED
  BY <1>1, <1>2, <1>5, <1>6, <1>8 DEF IInv

\* Its first DELETE starts from the committed tables.
LEMMA DeleteParsedIInv ==
    ASSUME IInv, NEW s \in Sessions, DeleteParsed(s)
    PROVE  IInv'
<1> USE DEF DeleteParsed, LockWrite
<1> DEFINE next == IF picked[s] = {} THEN "commit" ELSE "deleteRaw"
<1>1. txRaw = raw /\ txParsed = parsed
  BY FreshView
<1>2. DeleteOk(s)'
  <2>1. pc'[s] = next /\ code[s] \in Codes
    BY DEF IInv, TypeOK, DeleteInv, DeleteOk
  <2>2. WithoutIds(raw, {}) = raw /\ Cascade(OtherCodes(parsed, code[s]), {})
                                        = OtherCodes(parsed, code[s])
    BY DEF WithoutIds, Cascade
  <2> QED
    BY <1>1, <2>1, <2>2 DEF DeleteOk, disk, purge
<1>3. txParsed' \subseteq txParsed
  BY DEF OtherCodes
<1> QED
  BY <1>2, <1>3, DeleteStep

\* Its second DELETE cascades.
LEMMA DeleteRawIInv ==
    ASSUME IInv, NEW s \in Sessions, DeleteRaw(s)
    PROVE  IInv'
<1> USE DEF DeleteRaw
<1>1. /\ writer = s /\ code[s] \in Codes
      /\ txRaw = raw /\ txParsed = OtherCodes(parsed, code[s])
  BY DEF IInv, LockInv, DeleteInv, DeleteOk
<1>2. DeleteOk(s)'
  BY <1>1 DEF DeleteOk, IInv, TypeOK, disk, purge
<1> QED
  BY <1>1, <1>2, CascadeFacts, DeleteStep DEF CanWrite

-----------------------------------------------------------------------------
(* The theorems.                                                           *)

\* Every step keeps the invariant.
LEMMA StepIInv == IInv /\ [Next]_vars => IInv'
<1> SUFFICES ASSUME IInv, [Next]_vars PROVE IInv'
  OBVIOUS
<1>1. CASE UNCHANGED vars
  <2>1. (TypeOK /\ RowsLinked /\ NoPendingCommitted /\ LockInv /\ ViewInv)'
    BY <1>1 DEF vars, disk, tx, upload, purge, IInv, TypeOK, RowsLinked,
       RowsLinkedIn, NoPendingCommitted, LockInv, ViewInv
  <2>2. UploadInv'
    BY <1>1 DEF vars, disk, tx, upload, IInv, UploadInv, UploadOk, NothingStored,
       StoredPositions, UploadView, Done, Mark, Payload
  <2>3. DeleteInv'
    BY <1>1 DEF vars, disk, tx, purge, IInv, DeleteInv, DeleteOk
  <2> QED
    BY <2>1, <2>2, <2>3 DEF IInv
<1>2. CASE Crash
  BY <1>2, CrashIInv
<1>3. ASSUME NEW s \in Sessions, Request(s) PROVE IInv'
  BY <1>3, StartUploadIInv, DeleteAllIInv, DeleteErrorsIInv, SelectRawIdsIInv
     DEF Request
<1>4. ASSUME NEW s \in Sessions, Proceed(s) PROVE IInv'
  <2>1. CASE Parse(s)
    BY <2>1, ParseOkIInv, ParseErrorIInv, RollbackIInv DEF Parse, ParseRaises
  <2>2. CASE TooManyVariables(s) \/ LockTimeout(s)
    BY <2>2, RollbackIInv DEF TooManyVariables, LockTimeout
  <2> QED
    BY <1>4, <2>1, <2>2, SkipFrameIInv, InsertRawIInv, DeleteParsedIInv,
       DeleteRawIInv, CommitIInv DEF Proceed
<1> QED
  BY <1>1, <1>2, <1>3, <1>4 DEF Next

\* The inductive invariant holds in every reachable state of the store.
THEOREM Inductive == Spec => []IInv
BY InitIInv, StepIInv, PTL DEF Spec

\* Every variable keeps its type, whatever sessions do and however they fail.
THEOREM TypeCorrect == Spec => []TypeOK
<1>1. IInv => TypeOK
  BY DEF IInv
<1> QED
  BY <1>1, Inductive, PTL

\* The committed tables always fit together: a parsed row has a raw row of
\* its own, marked parsed, with the payload it was decoded from; ids are
\* unique.  Cascades, the one transaction per scope and the two flushes of
\* ingest see to it for any number of sessions.
THEOREM TablesLinked == Spec => []RowsLinked
<1>1. IInv => RowsLinked
  BY DEF IInv
<1> QED
  BY <1>1, Inductive, PTL

\* The 'pending' mark between the two flushes of ingest is never committed.
THEOREM PendingIsPrivate == Spec => []NoPendingCommitted
<1>1. IInv => NoPendingCommitted
  BY DEF IInv
<1> QED
  BY <1>1, Inductive, PTL

-----------------------------------------------------------------------------
(* The store implements the archive.                                       *)

\* The ids of a batch are a numbering of the positions they stand for.
LEMMA NumberingFacts ==
    ASSUME NEW T, \A r \in T : r.id \in RowIds, NEW n \in Nat,
           NEW f, IsIdMap(f), NewIds(f, T), DOMAIN f \subseteq 1..n
    PROVE  f \in Archive!Numberings(T, DOMAIN f, n)
<1>1. ASSUME NEW i \in DOMAIN f PROVE f[i] \in Archive!IdsAbove(T, n)
  <2>1. PICK top \in Archive!TopIds(T) : f[i] <= top + i
    BY DEF NewIds
  <2>2. top \in Nat /\ f[i] \in Nat \ {0} /\ i \in 1..n
    BY DEF Archive!TopIds, RowIds, IsIdMap
  <2>3. top < f[i]
    BY <2>2 DEF Archive!TopIds, NewIds
  <2>4. f[i] \in (top + 1)..(top + n)
    BY <2>1, <2>2, <2>3
  <2> QED
    BY <2>1, <2>4 DEF Archive!IdsAbove
<1>2. f \in [DOMAIN f -> Archive!IdsAbove(T, n)]
  BY <1>1 DEF IsIdMap
<1> QED
  BY <1>2 DEF Archive!Numberings, NewIds

\* The commit of an upload is the archive's Upload of its whole batch.
LEMMA UploadImplements ==
    ASSUME IInv, NEW s \in Sessions, pc[s] = "ingest", pos[s] > Len(batch[s]),
           writer = s, raw' = txRaw, parsed' = txParsed
    PROVE  Archive!Uploads
<1> DEFINE b == batch[s]
           k == known[s]
           skip == skipUnknown[s]
<1>1. StoredPositions(s) /\ NewIds(rawIds[s], raw) /\ NewIds(parsedIds[s], parsed)
      /\ UploadView(s)
  BY UploadFacts
<1>2. Len(b) \in Nat /\ pos[s] = Len(b) + 1
  BY UploadFacts, StoreAssumption DEF RowIds
<1>3. /\ b \in Batches /\ k \in Registries /\ skip \in BOOLEAN
      /\ IsIdMap(rawIds[s]) /\ IsIdMap(parsedIds[s])
  BY <1>1 DEF StoredPositions, IInv, TypeOK
<1>4. Done(s) = Archive!Kept(b, k, skip)
  BY <1>2 DEF Done, Archive!Kept, InScope, Archive!InScope
<1>5. DOMAIN rawIds[s] = Archive!Kept(b, k, skip)
  BY <1>1, <1>4 DEF StoredPositions
<1>6. DOMAIN parsedIds[s] = Archive!Good(b, k, skip)
  BY <1>1, <1>4 DEF StoredPositions, Archive!Good, Outcome, Archive!Outcome
<1>7. \A i \in Archive!Kept(b, k, skip) :
         Outcome(k, b[i]) # "raises" /\ Mark(s, i) = Outcome(k, b[i])
  BY <1>1, <1>2, <1>4 DEF StoredPositions, Mark, Done
<1>8. rawIds[s] \in Archive!Numberings(raw, Archive!Kept(b, k, skip), Len(b))
  <2>1. \A r \in raw : r.id \in RowIds
    BY DEF IInv, TypeOK, RawRows
  <2>2. DOMAIN rawIds[s] \subseteq 1..Len(b)
    BY <1>5 DEF Archive!Kept
  <2> QED
    BY <1>1, <1>2, <1>3, <1>5, <2>1, <2>2, NumberingFacts
<1>9. parsedIds[s] \in Archive!Numberings(parsed, Archive!Good(b, k, skip), Len(b))
  <2>1. \A p \in parsed : p.id \in RowIds
    BY DEF IInv, TypeOK, ParsedRows
  <2>2. DOMAIN parsedIds[s] \subseteq 1..Len(b)
    BY <1>6 DEF Archive!Kept, Archive!Good
  <2> QED
    BY <1>1, <1>2, <1>3, <1>6, <2>1, <2>2, NumberingFacts
<1>10. raw' = raw \cup {RawRow(rawIds[s][i], b[i], Outcome(k, b[i])) :
                           i \in Archive!Kept(b, k, skip)}
  BY <1>1, <1>5, <1>7 DEF UploadView
<1>11. parsed' = parsed \cup {ParsedRow(parsedIds[s][i], rawIds[s][i], b[i]) :
                                 i \in Archive!Good(b, k, skip)}
  BY <1>1, <1>6 DEF UploadView
<1>12. Archive!Upload(b, k, skip)
  BY <1>7, <1>8, <1>9, <1>10, <1>11
     DEF Archive!Upload, RawRow, Archive!RawRow, ParsedRow, Archive!ParsedRow,
         Outcome, Archive!Outcome
<1> QED
  BY <1>3, <1>12 DEF Archive!Uploads

\* A session that leaves its scope forgets what it selected, if anything.
LEMMA LeaveForgets ==
    ASSUME IInv, NEW s \in Sessions, Leave(s)
    PROVE  /\ Archive!Forget({s})
           /\ code[s] = NoCode /\ picked[s] = {} => UNCHANGED <<code, picked>>
<1>1. code \in [Sessions -> Codes \cup {NoCode}] /\ picked \in [Sessions -> SUBSET RowIds]
  BY DEF IInv, TypeOK
<1>2. code' = [t \in Sessions |-> IF t \in {s} THEN NoCode ELSE code[t]]
  BY <1>1 DEF Leave
<1>3. picked' = [t \in Sessions |-> IF t \in {s} THEN {} ELSE picked[t]]
  BY <1>1 DEF Leave
<1> QED
  BY <1>1, <1>2, <1>3 DEF Archive!Forget, Leave

\* The commit of a delete is one of the archive's purges.
LEMMA PurgeImplements ==
    ASSUME IInv, NEW s \in Sessions, pc[s] = "commit", Leave(s),
           raw' = txRaw, parsed' = txParsed
    PROVE  Archive!Next
<1>1. CASE code[s] = NoCode /\ picked[s] = {} /\ txRaw = {} /\ txParsed = {}
  BY <1>1, LeaveForgets DEF Archive!Next, Archive!PurgeAll, Archive!selection
<1>2. CASE /\ code[s] = NoCode /\ picked[s] = {}
           /\ txRaw = WithoutIds(raw, ErrorIds(raw))
           /\ txParsed = Cascade(parsed, ErrorIds(raw))
  <2>1. Archive!PurgeErrors
    BY <1>2 DEF Archive!PurgeErrors, WithoutIds, Archive!WithoutIds,
       ErrorIds, Archive!ErrorIds, Cascade, Archive!Cascade
  <2> QED
    BY <1>2, <2>1, LeaveForgets DEF Archive!Next, Archive!selection
<1>3. CASE /\ code[s] \in Codes
           /\ txRaw = WithoutIds(raw, picked[s])
           /\ txParsed = Cascade(OtherCodes(parsed, code[s]), picked[s])
  <2>1. Archive!PurgeCode(code[s], picked[s])
    BY <1>3 DEF Archive!PurgeCode, WithoutIds, Archive!WithoutIds,
       Cascade, Archive!Cascade, OtherCodes, Archive!OtherCodes
  <2>2. code[s] # NoCode
    BY <1>3, StoreAssumption
  <2>3. Archive!Purge(s)
    BY <2>1, <2>2, LeaveForgets DEF Archive!Purge
  <2> QED
    BY <2>3 DEF Archive!Next
<1> QED
  BY <1>1, <1>2, <1>3 DEF IInv, DeleteInv, DeleteOk

\* The empty store is the empty archive.
LEMMA InitImplements == Init => Archive!Init
BY DEF Init, Archive!Init, Archive!Empty

\* The SELECT of a delete is the archive's.
LEMMA SelectImplements ==
    ASSUME IInv, NEW s \in Sessions, NEW c \in Codes, SelectRawIds(s, c)
    PROVE  Archive!Next
<1>1. code[s] = NoCode
  BY NothingSelected DEF SelectRawIds
<1>2. Archive!Select(s, c)
  BY <1>1 DEF SelectRawIds, disk, Archive!Select, Archive!tables, RawIdsOf,
     Archive!RawIdsOf
<1> QED
  BY <1>2 DEF Archive!Next

\* A commit is an upload or a delete of the archive, or writes nothing.
LEMMA CommitImplements ==
    ASSUME IInv, NEW s \in Sessions, Commit(s)
    PROVE  Archive!Next \/ UNCHANGED <<raw, parsed, code, picked>>
<1>1. Leave(s) /\ AtCommit(s)
  BY DEF Commit
<1>2. CASE pc[s] = "commit"
  <2>1. writer = s
    BY <1>2 DEF IInv, LockInv
  <2> QED
    BY <1>1, <1>2, <2>1, PurgeImplements DEF Commit
<1>3. CASE pc[s] = "ingest" /\ pos[s] > Len(batch[s])
  <2>1. UNCHANGED <<code, picked>>
    BY <1>1, <1>3, NothingSelected, LeaveForgets
  <2>2. CASE writer # s
    BY <2>1, <2>2 DEF Commit
  <2>3. CASE writer = s
    BY <1>3, <2>1, <2>3, UploadImplements DEF Commit, Archive!Next, Archive!selection
  <2> QED
    BY <2>2, <2>3
<1> QED
  BY <1>1, <1>2, <1>3 DEF AtCommit

\* Every step is one of the archive's or leaves its variables alone.
LEMMA StepImplements == IInv /\ [Next]_vars => [Archive!Next]_Archive!avars
<1> SUFFICES ASSUME IInv, [Next]_vars
             PROVE  Archive!Next \/ UNCHANGED <<raw, parsed, code, picked>>
  BY DEF Archive!avars, Archive!tables, Archive!selection
<1>1. CASE UNCHANGED vars
  BY <1>1 DEF vars, disk, purge
<1>2. CASE Crash
  <2>1. Archive!Forget(Sessions) /\ UNCHANGED <<raw, parsed>>
    BY <1>2 DEF Crash, disk, Archive!Forget
  <2> QED
    BY <2>1 DEF Archive!Next, Archive!tables
<1>3. ASSUME NEW s \in Sessions, Request(s)
      PROVE  Archive!Next \/ UNCHANGED <<raw, parsed, code, picked>>
  <2>1. CASE \E c \in Codes : SelectRawIds(s, c)
    BY <2>1, SelectImplements
  <2>2. CASE UNCHANGED <<disk, purge>>
    BY <2>2 DEF disk, purge
  <2> QED
    BY <1>3, <2>1, <2>2 DEF Request, StartUpload, DeleteAll, DeleteErrors
<1>4. ASSUME NEW s \in Sessions, Proceed(s)
      PROVE  Archive!Next \/ UNCHANGED <<raw, parsed, code, picked>>
  <2>1. CASE Commit(s)
    BY <2>1, CommitImplements
  <2>2. CASE Rollback(s)
    <3>1. Archive!Forget({s}) /\ UNCHANGED <<raw, parsed>>
      BY <2>2, LeaveForgets DEF Rollback, disk
    <3> QED
      BY <3>1 DEF Archive!Next, Archive!tables
  <2>3. CASE UNCHANGED <<disk, purge>>
    BY <2>3 DEF disk, purge
  <2> QED
    BY <1>4, <2>1, <2>2, <2>3 DEF Proceed, Parse, SkipFrame, InsertRaw, ParseOk,
       ParseError, ParseRaises, DeleteParsed, DeleteRaw, TooManyVariables, LockTimeout
<1> QED
  BY <1>1, <1>2, <1>3, <1>4 DEF Next

\* The store changes only by whole operations: each batch appears at once,
\* complete, in its order and with its verdicts, or not at all; each delete
\* appears at once, and one by TR code takes the raw rows it selected and the
\* parsed rows together.  Whoever else writes, times out, fails or crashes.
THEOREM Implements == Spec => ArchiveSpec
BY InitImplements, StepImplements, Inductive, PTL
   DEF Spec, ArchiveSpec, Archive!Spec

-----------------------------------------------------------------------------
(* The Admin page is used in one session: whatever the others upload while *)
(* a TR code is being deleted, the raw ids that were read before stay      *)
(* those of the code.                                                      *)

OneAdmin == \A s, t \in Admins : s = t

\* A delete by TR code that is under way: its ids are in the raw table, the
\* parsed rows they belong to are of its code, and its view is the tables
\* without them.
PurgeOk(s) ==
    /\ pc[s] \in {"commit", "deleteParsed", "deleteRaw"} => s \in Admins
    /\ code[s] # NoCode => pc[s] \in {"commit", "deleteParsed", "deleteRaw"}
    /\ code[s] # NoCode =>
          /\ picked[s] \subseteq {r.id : r \in raw}
          /\ \A p \in parsed : p.rawId \in picked[s] => p.tr = code[s]
          /\ pc[s] = "commit" =>
                /\ txRaw = WithoutIds(raw, picked[s])
                /\ txParsed = Cascade(OtherCodes(parsed, code[s]), picked[s])

PurgeInv == \A s \in Sessions : PurgeOk(s)

\* Rows were added, none of them to a raw row that was there.
OnlyNewRows ==
    /\ \A r \in raw : \E q \in raw' : q.id = r.id
    /\ \A p \in parsed' : p \in parsed \/ \A r \in raw : p.rawId # r.id

\* What somebody else's step leaves of a delete under way.
LEMMA PurgeKept ==
    ASSUME IInv, NEW t \in Sessions, PurgeOk(t), LocalsKept(t),
           writer = t => UNCHANGED <<raw, parsed, txRaw, txParsed>>,
           code[t] # NoCode => OnlyNewRows
    PROVE  PurgeOk(t)'
<1>1. pc[t] = "commit" => writer = t
  BY DEF IInv, LockInv
<1>2. /\ pc'[t] = pc[t] /\ code'[t] = code[t] /\ picked'[t] = picked[t]
  BY DEF LocalsKept
<1>3. ASSUME code[t] # NoCode
      PROVE  /\ picked[t] \subseteq {r.id : r \in raw'}
             /\ \A p \in parsed' : p.rawId \in picked[t] => p.tr = code[t]
  BY <1>3 DEF PurgeOk, OnlyNewRows
<1>4. ASSUME code[t] # NoCode, pc[t] = "commit"
      PROVE  /\ txRaw' = WithoutIds(raw', picked[t])
             /\ txParsed' = Cascade(OtherCodes(parsed', code[t]), picked[t])
  BY <1>1, <1>4 DEF PurgeOk
<1> QED
  BY <1>2, <1>3, <1>4 DEF PurgeOk

\* The commit of an upload adds rows under ids the raw table did not use.
LEMMA UploadAddsRows ==
    ASSUME IInv, NEW s \in Sessions, pc[s] = "ingest", writer = s,
           raw' = txRaw, parsed' = txParsed
    PROVE  OnlyNewRows
<1>1. StoredPositions(s) /\ NewIds(rawIds[s], raw) /\ UploadView(s)
  BY UploadFacts
<1>2. \A r \in raw : r.id \in Nat
  BY DEF IInv, TypeOK, RawRows, RowIds
<1>3. IsIdMap(rawIds[s]) /\ DOMAIN parsedIds[s] \subseteq DOMAIN rawIds[s]
  BY <1>1 DEF StoredPositions, IInv, TypeOK
<1>4. ASSUME NEW i \in DOMAIN parsedIds[s], NEW r \in raw PROVE rawIds[s][i] # r.id
  BY <1>1, <1>2, <1>3 DEF NewIds, IsIdMap, RowIds
<1>5. ASSUME NEW p \in parsed', p \notin parsed PROVE \A r \in raw : p.rawId # r.id
  <2>1. PICK i \in DOMAIN parsedIds[s] :
           p = ParsedRow(parsedIds[s][i], rawIds[s][i], batch[s][i])
    BY <1>1, <1>5 DEF UploadView
  <2>2. p.rawId = rawIds[s][i]
    BY <2>1 DEF ParsedRow
  <2> QED
    BY <1>4, <2>2
<1>6. raw \subseteq raw'
  BY <1>1 DEF UploadView
<1> QED
  BY <1>5, <1>6 DEF OnlyNewRows

\* Steps that leave the committed tables alone add nothing.
LEMMA UnchangedAddsNothing ==
    ASSUME UNCHANGED <<raw, parsed>> PROVE OnlyNewRows
BY DEF OnlyNewRows

\* One step of session s: what the others are deleting.
LEMMA PurgeOthers ==
    ASSUME IInv, PurgeInv, NEW s \in Sessions, UNCHANGED <<raw, parsed>>, PurgeOk(s)',
           \A t \in Sessions \ {s} : LocalsKept(t),
           \A t \in Sessions \ {s} : writer = t => UNCHANGED <<txRaw, txParsed>>
    PROVE  PurgeInv'
<1> SUFFICES ASSUME NEW t \in Sessions PROVE PurgeOk(t)'
  BY DEF PurgeInv
<1>1. CASE t # s
  <2>1. PurgeOk(t)
    BY DEF PurgeInv
  <2> QED
    BY <1>1, <2>1, PurgeKept, UnchangedAddsNothing
<1> QED
  BY <1>1

\* Who asks for something else than a delete by TR code has none under way.
LEMMA PurgeElsewhere ==
    ASSUME IInv, PurgeInv, NEW s \in Sessions, pc[s] \in {"idle", "ingest", "parse"},
           NEW next \in {"ingest", "parse", "commit"}, next = "commit" => s \in Admins,
           pc' = [pc EXCEPT ![s] = next], UNCHANGED purge
    PROVE  PurgeOk(s)'
<1>1. code[s] = NoCode
  BY DEF PurgeInv, PurgeOk
<1>2. pc'[s] = next /\ code'[s] = NoCode
  BY <1>1 DEF IInv, TypeOK, purge
<1> QED
  BY <1>2 DEF PurgeOk

\* A session that has left its scope deletes nothing.
LEMMA PurgeLeft ==
    ASSUME IInv, NEW s \in Sessions, Leave(s)
    PROVE  PurgeOk(s)'
<1>1. pc'[s] = "idle" /\ code'[s] = NoCode
  BY DEF IInv, TypeOK, Leave
<1> QED
  BY <1>1 DEF PurgeOk

\* The raw ids selected are in the table, and of the code.
LEMMA SelectPurge ==
    ASSUME IInv, PurgeInv, NEW s \in Sessions, NEW c \in Codes, SelectRawIds(s, c)
    PROVE  PurgeInv'
<1> USE DEF SelectRawIds
<1>1. /\ pc'[s] = "deleteParsed" /\ code'[s] = c /\ picked'[s] = RawIdsOf(parsed, c)
      /\ \A t \in Sessions \ {s} : LocalsKept(t)
  BY DEF IInv, TypeOK, LocalsKept, upload
<1>2. RawIdsOf(parsed, c) \subseteq {r.id : r \in raw}
  BY DEF RawIdsOf, IInv, RowsLinked, RowsLinkedIn
<1>3. \A p \in parsed : p.rawId \in RawIdsOf(parsed, c) => p.tr = c
  BY DEF RawIdsOf, IInv, RowsLinked, RowsLinkedIn
<1>4. UNCHANGED <<raw, parsed, txRaw, txParsed>>
  BY DEF disk, tx
<1>5. PurgeOk(s)'
  BY <1>1, <1>2, <1>3, <1>4 DEF PurgeOk
<1> QED
  BY <1>1, <1>4, <1>5, PurgeOthers

\* Deleting the parsed rows of the code leaves the ids what they are.
LEMMA DeleteParsedPurge ==
    ASSUME IInv, PurgeInv, NEW s \in Sessions, DeleteParsed(s)
    PROVE  PurgeInv'
<1> USE DEF DeleteParsed, LockWrite
<1> DEFINE next == IF picked[s] = {} THEN "commit" ELSE "deleteRaw"
<1>1. /\ pc'[s] = next /\ code'[s] = code[s] /\ picked'[s] = picked[s]
      /\ UNCHANGED <<raw, parsed, txRaw>>
      /\ \A t \in Sessions \ {s} : LocalsKept(t) /\ writer # t
  BY StoreAssumption DEF IInv, TypeOK, LocalsKept, disk, upload, purge, CanWrite
<1>2. txRaw = raw /\ txParsed = parsed
  BY FreshView
<1>3. next = "commit" => /\ txRaw' = WithoutIds(raw, picked[s])
                         /\ txParsed' = Cascade(OtherCodes(parsed, code[s]), picked[s])
  BY <1>1, <1>2 DEF WithoutIds, Cascade
<1>4. PurgeOk(s)'
  BY <1>1, <1>3 DEF PurgeInv, PurgeOk
<1> QED
  BY <1>1, <1>4, PurgeOthers

\* Then the view is the tables without the rows of the code.
LEMMA DeleteRawPurge ==
    ASSUME IInv, PurgeInv, NEW s \in Sessions, DeleteRaw(s)
    PROVE  PurgeInv'
<1> USE DEF DeleteRaw
<1>1. /\ writer = s /\ txRaw = raw /\ txParsed = OtherCodes(parsed, code[s])
  BY DEF IInv, LockInv, DeleteInv, DeleteOk
<1>2. /\ pc'[s] = "commit" /\ code'[s] = code[s] /\ picked'[s] = picked[s]
      /\ UNCHANGED <<raw, parsed>>
      /\ \A t \in Sessions \ {s} : LocalsKept(t)
  BY DEF IInv, TypeOK, LocalsKept, disk, upload, purge
<1>3. PurgeOk(s)'
  BY <1>1, <1>2 DEF PurgeInv, PurgeOk
<1> QED
  BY <1>1, <1>2, <1>3, PurgeOthers

\* A commit of somebody else, while one session deletes, is an upload's.
LEMMA CommitPurge ==
    ASSUME OneAdmin, IInv, PurgeInv, NEW s \in Sessions, Commit(s)
    PROVE  PurgeInv'
<1> USE DEF Commit
<1>1. PurgeOk(s)' /\ \A t \in Sessions \ {s} : LocalsKept(t)
  BY PurgeLeft, LeaveFacts
<1> SUFFICES ASSUME NEW t \in Sessions, t # s PROVE PurgeOk(t)'
  BY <1>1 DEF PurgeInv
<1>2. PurgeOk(t) /\ PurgeOk(s) /\ LocalsKept(t)
  BY <1>1 DEF PurgeInv
<1>3. writer = t => UNCHANGED <<raw, parsed, txRaw, txParsed>>
  BY DEF disk
<1>4. ASSUME code[t] # NoCode PROVE OnlyNewRows
  <2>1. CASE writer # s
    BY <2>1, UnchangedAddsNothing
  <2>2. CASE writer = s
    <3>1. t \in Admins
      BY <1>2, <1>4 DEF PurgeOk
    <3>2. pc[s] # "commit"
      BY <1>2, <3>1 DEF PurgeOk, OneAdmin
    <3>3. pc[s] = "ingest"
      BY <3>2 DEF AtCommit
    <3> QED
      BY <2>2, <3>3, UploadAddsRows
  <2> QED
    BY <2>1, <2>2
<1> QED
  BY <1>2, <1>3, <1>4, PurgeKept

\* Every step keeps what is known of the deletes under way.
LEMMA StepPurge ==
    ASSUME OneAdmin PROVE IInv /\ PurgeInv /\ [Next]_vars => PurgeInv'
<1> SUFFICES ASSUME IInv, PurgeInv, [Next]_vars PROVE PurgeInv'
  OBVIOUS
<1>1. CASE UNCHANGED vars
  BY <1>1 DEF vars, disk, tx, purge, PurgeInv, PurgeOk
<1>2. CASE Crash
  BY <1>2 DEF Crash, PurgeInv, PurgeOk
<1>3. ASSUME NEW s \in Sessions, Request(s) PROVE PurgeInv'
  <2>1. ASSUME NEW b \in Batches, NEW registry \in Registries, NEW skip \in BOOLEAN,
               StartUpload(s, b, registry, skip)
        PROVE  PurgeInv'
    <3>1. /\ UNCHANGED <<raw, parsed, txRaw, txParsed>>
          /\ \A t \in Sessions \ {s} : LocalsKept(t)
      BY <2>1 DEF StartUpload, IInv, TypeOK, LocalsKept, disk, tx, purge
    <3>2. PurgeOk(s)'
      BY <2>1, PurgeElsewhere DEF StartUpload
    <3> QED
      BY <3>1, <3>2, PurgeOthers
  <2>2. CASE DeleteAll(s) \/ DeleteErrors(s)
    <3>1. /\ UNCHANGED <<raw, parsed>>
          /\ \A t \in Sessions \ {s} : LocalsKept(t) /\ writer # t
      BY <2>2, StoreAssumption DEF DeleteAll, DeleteErrors, LockWrite, CanWrite, IInv,
         TypeOK, LocalsKept, disk, upload, purge
    <3>2. PurgeOk(s)'
      BY <2>2, PurgeElsewhere DEF DeleteAll, DeleteErrors
    <3> QED
      BY <3>1, <3>2, PurgeOthers
  <2> QED
    BY <1>3, <2>1, <2>2, SelectPurge DEF Request
<1>4. ASSUME NEW s \in Sessions, Proceed(s) PROVE PurgeInv'
  <2>1. CASE SkipFrame(s)
    <3>1. /\ UNCHANGED <<raw, parsed, txRaw, txParsed>>
          /\ \A t \in Sessions \ {s} : LocalsKept(t)
      BY <2>1 DEF SkipFrame, IInv, TypeOK, LocalsKept, disk, tx, purge
    <3>2. pc' = [pc EXCEPT ![s] = "ingest"] /\ pc[s] = "ingest" /\ UNCHANGED purge
      BY <2>1 DEF SkipFrame, Pending, IInv, TypeOK
    <3>3. PurgeOk(s)'
      BY <3>2, PurgeElsewhere
    <3> QED
      BY <3>1, <3>3, PurgeOthers
  <2>2. CASE InsertRaw(s)
    <3>1. /\ UNCHANGED <<raw, parsed>>
          /\ \A t \in Sessions \ {s} : LocalsKept(t) /\ writer # t
      BY <2>2, StoreAssumption DEF InsertRaw, LockWrite, CanWrite, IInv, TypeOK,
         LocalsKept, disk, purge
    <3>2. PurgeOk(s)'
      BY <2>2, PurgeElsewhere DEF InsertRaw, Pending
    <3> QED
      BY <3>1, <3>2, PurgeOthers
  <2>3. CASE ParseOk(s) \/ ParseError(s)
    <3>1. pc[s] = "parse" /\ writer = s
      BY <2>3 DEF ParseOk, ParseError, ParseIs, IInv, LockInv
    <3>2. /\ UNCHANGED <<raw, parsed>>
          /\ \A t \in Sessions \ {s} : LocalsKept(t)
      BY <2>3 DEF ParseOk, ParseError, IInv, TypeOK, LocalsKept, disk, purge
    <3>3. pc' = [pc EXCEPT ![s] = "ingest"] /\ UNCHANGED purge
      BY <2>3 DEF ParseOk, ParseError
    <3>4. PurgeOk(s)'
      BY <3>1, <3>3, PurgeElsewhere
    <3> QED
      BY <3>1, <3>2, <3>4, PurgeOthers
  <2>4. CASE Rollback(s)
    <3>1. /\ UNCHANGED <<raw, parsed>>
          /\ \A t \in Sessions \ {s} : LocalsKept(t)
          /\ \A t \in Sessions \ {s} : writer = t => UNCHANGED <<txRaw, txParsed>>
      BY <2>4, LeaveFacts DEF Rollback, disk
    <3>2. PurgeOk(s)'
      BY <2>4, PurgeLeft DEF Rollback
    <3> QED
      BY <3>1, <3>2, PurgeOthers
  <2> QED
    BY <1>4, <2>1, <2>2, <2>3, <2>4, DeleteParsedPurge, DeleteRawPurge, CommitPurge
       DEF Proceed, Parse, ParseRaises, TooManyVariables, LockTimeout
<1> QED
  BY <1>1, <1>2, <1>3, <1>4 DEF Next

\* The commit of a delete by TR code keeps the parsed rows of other codes.
LEMMA PurgeSpares ==
    ASSUME IInv, PurgeInv, NEW s \in Sessions, Commit(s), code[s] # NoCode
    PROVE  OtherCodes(parsed, code[s]) \subseteq parsed'
<1>1. PurgeOk(s)
  BY DEF PurgeInv
<1>2. pc[s] = "commit" /\ writer = s
  BY <1>1 DEF PurgeOk, Commit, AtCommit, IInv, LockInv
<1>3. parsed' = Cascade(OtherCodes(parsed, code[s]), picked[s])
  BY <1>1, <1>2 DEF Commit, PurgeOk
<1> QED
  BY <1>1, <1>3 DEF PurgeOk, Cascade, OtherCodes

\* With one session on the Admin page, a delete by TR code leaves the records
\* of the other codes alone, although its raw ids were read before its
\* transaction began and any number of sessions upload in between.
THEOREM PurgesSpareOthers == ASSUME OneAdmin PROVE Spec => PurgeSparesOtherCodes
<1>1. Init => PurgeInv
  BY DEF Init, PurgeInv, PurgeOk
<1>2. IInv /\ PurgeInv =>
         \A s \in Sessions : Commit(s) /\ code[s] # NoCode =>
            OtherCodes(parsed, code[s]) \subseteq parsed'
  BY PurgeSpares
<1> QED
  BY <1>1, <1>2, StepPurge, Inductive, PTL DEF Spec, PurgeSparesOtherCodes

-----------------------------------------------------------------------------
(* One session: the deletes are the documented ones.                       *)

OneSession == \A s, t \in Sessions : s = t

\* The raw ids that were read are still those of the code.
SoloInv ==
    \A s \in Sessions : code[s] # NoCode => picked[s] = RawIdsOf(parsed, code[s])

\* Only a commit changes the tables, and it ends the delete.
LEMMA StepSolo ==
    ASSUME OneSession PROVE IInv /\ SoloInv /\ [Next]_vars => SoloInv'
<1> SUFFICES ASSUME IInv, SoloInv, [Next]_vars, NEW t \in Sessions, code'[t] # NoCode
             PROVE  picked'[t] = RawIdsOf(parsed', code'[t])
  BY DEF SoloInv
<1>1. CASE UNCHANGED vars
  BY <1>1 DEF vars, disk, purge, SoloInv
<1>2. CASE Crash
  BY <1>2 DEF Crash
<1>3. ASSUME NEW s \in Sessions, Request(s)
      PROVE  picked'[t] = RawIdsOf(parsed', code'[t])
  <2>1. s = t
    BY DEF OneSession
  <2>2. ASSUME NEW c \in Codes, SelectRawIds(s, c)
        PROVE  picked'[t] = RawIdsOf(parsed', code'[t])
    BY <2>1, <2>2 DEF SelectRawIds, disk, IInv, TypeOK
  <2>3. CASE UNCHANGED <<disk, purge>>
    BY <2>3 DEF disk, purge, SoloInv
  <2> QED
    BY <1>3, <2>2, <2>3 DEF Request, StartUpload, DeleteAll, DeleteErrors
<1>4. ASSUME NEW s \in Sessions, Proceed(s)
      PROVE  picked'[t] = RawIdsOf(parsed', code'[t])
  <2>1. s = t
    BY DEF OneSession
  <2>2. CASE Leave(s)
    <3>1. code'[s] = NoCode
      BY <2>2 DEF Leave, IInv, TypeOK
    <3> QED
      BY <2>1, <3>1
  <2>3. CASE UNCHANGED <<disk, purge>>
    BY <2>3 DEF disk, purge, SoloInv
  <2> QED
    BY <1>4, <2>2, <2>3 DEF Proceed, Parse, SkipFrame, InsertRaw, ParseOk, ParseError,
       ParseRaises, DeleteParsed, DeleteRaw, TooManyVariables, Commit, LockTimeout,
       Rollback
<1> QED
  BY <1>1, <1>2, <1>3, <1>4 DEF Next

\* The commit of a delete is a documented one.
LEMMA DocumentedCommit ==
    ASSUME IInv, SoloInv, NEW s \in Sessions, pc[s] = "commit",
           raw' = txRaw, parsed' = txParsed
    PROVE  Archive!DocumentedNext
<1>1. CASE txRaw = {} /\ txParsed = {}
  BY <1>1 DEF Archive!DocumentedNext, Archive!PurgeAll
<1>2. CASE /\ txRaw = WithoutIds(raw, ErrorIds(raw))
           /\ txParsed = Cascade(parsed, ErrorIds(raw))
  BY <1>2 DEF Archive!DocumentedNext, Archive!PurgeErrors, WithoutIds,
     Archive!WithoutIds, ErrorIds, Archive!ErrorIds, Cascade, Archive!Cascade
<1>3. CASE /\ code[s] \in Codes
           /\ txRaw = WithoutIds(raw, picked[s])
           /\ txParsed = Cascade(OtherCodes(parsed, code[s]), picked[s])
  <2>1. picked[s] = RawIdsOf(parsed, code[s])
    BY <1>3, StoreAssumption DEF SoloInv
  <2>2. Archive!PurgeCodeExactly(code[s])
    BY <1>3, <2>1 DEF Archive!PurgeCodeExactly, Archive!PurgeCode, WithoutIds,
       Archive!WithoutIds, Cascade, Archive!Cascade, OtherCodes, Archive!OtherCodes,
       RawIdsOf, Archive!RawIdsOf
  <2> QED
    BY <1>3, <2>2 DEF Archive!DocumentedNext
<1> QED
  BY <1>1, <1>2, <1>3 DEF IInv, DeleteInv, DeleteOk

\* Every step is a documented one or leaves the tables alone.
LEMMA StepDocumented ==
    IInv /\ SoloInv /\ [Next]_vars => [Archive!DocumentedNext]_<<raw, parsed>>
<1> SUFFICES ASSUME IInv, SoloInv, [Next]_vars
             PROVE  Archive!DocumentedNext \/ UNCHANGED <<raw, parsed>>
  OBVIOUS
<1>1. CASE UNCHANGED vars \/ Crash
  BY <1>1 DEF vars, disk, Crash
<1>2. ASSUME NEW s \in Sessions, Request(s) PROVE UNCHANGED <<raw, parsed>>
  BY <1>2 DEF Request, StartUpload, DeleteAll, DeleteErrors, SelectRawIds, disk
<1>3. ASSUME NEW s \in Sessions, Proceed(s)
      PROVE  Archive!DocumentedNext \/ UNCHANGED <<raw, parsed>>
  <2>1. CASE Commit(s)
    <3>1. CASE writer # s
      BY <2>1, <3>1 DEF Commit
    <3>2. CASE writer = s /\ pc[s] = "commit"
      BY <2>1, <3>2, DocumentedCommit DEF Commit
    <3>3. CASE writer = s /\ pc[s] = "ingest" /\ pos[s] > Len(batch[s])
      BY <2>1, <3>3, UploadImplements DEF Commit, Archive!DocumentedNext
    <3> QED
      BY <2>1, <3>1, <3>2, <3>3 DEF Commit, AtCommit
  <2> QED
    BY <1>3, <2>1 DEF Proceed, Parse, SkipFrame, InsertRaw, ParseOk, ParseError,
       ParseRaises, DeleteParsed, DeleteRaw, TooManyVariables, LockTimeout,
       Rollback, disk
<1> QED
  BY <1>1, <1>2, <1>3 DEF Next

\* A session alone: no commit falls between the SELECT and the DELETEs, and
\* a delete by TR code removes the parsed rows of the code and exactly their
\* raw rows, as the docstring says.
THEOREM ImplementsDocumented == ASSUME OneSession PROVE Spec => DocumentedArchive
<1>1. Init => SoloInv
  BY DEF Init, SoloInv
<1> QED
  BY <1>1, InitImplements, StepSolo, StepDocumented, Inductive, PTL
     DEF Spec, DocumentedArchive, Archive!DocumentedSpec, Archive!tables, Archive!Init,
         Archive!Empty

\* The documented operations keep a parsed row for every raw row they mark.
LEMMA DocumentedKeepsRows ==
    ASSUME ParsedRawHasRow, Archive!DocumentedNext
    PROVE  ParsedRawHasRow'
<1> SUFFICES ASSUME NEW r \in raw', r.status = "parsed"
             PROVE  \E p \in parsed' : p.rawId = r.id
  BY DEF ParsedRawHasRow
<1>1. CASE Archive!Uploads
  <2>1. PICK b \in Batches, k \in Registries, skip \in BOOLEAN : Archive!Upload(b, k, skip)
    BY <1>1 DEF Archive!Uploads
  <2>2. PICK f \in Archive!Numberings(raw, Archive!Kept(b, k, skip), Len(b)) :
        \E g \in Archive!Numberings(parsed, Archive!Good(b, k, skip), Len(b)) :
          /\ raw' = raw \cup {Archive!RawRow(f[i], b[i], Archive!Outcome(k, b[i])) :
                                 i \in Archive!Kept(b, k, skip)}
          /\ parsed' = parsed \cup {Archive!ParsedRow(g[i], f[i], b[i]) :
                                       i \in Archive!Good(b, k, skip)}
    BY <2>1 DEF Archive!Upload
  <2>3. PICK g \in Archive!Numberings(parsed, Archive!Good(b, k, skip), Len(b)) :
          /\ raw' = raw \cup {Archive!RawRow(f[i], b[i], Archive!Outcome(k, b[i])) :
                                 i \in Archive!Kept(b, k, skip)}
          /\ parsed' = parsed \cup {Archive!ParsedRow(g[i], f[i], b[i]) :
                                       i \in Archive!Good(b, k, skip)}
    BY <2>2
  <2>4. CASE r \in raw
    BY <2>3, <2>4 DEF ParsedRawHasRow
  <2>5. CASE r \notin raw
    <3>1. PICK i \in Archive!Kept(b, k, skip) :
             r = Archive!RawRow(f[i], b[i], Archive!Outcome(k, b[i]))
      BY <2>3, <2>5
    <3>2. r.id = f[i] /\ r.status = Archive!Outcome(k, b[i])
      BY <3>1 DEF Archive!RawRow
    <3>3. i \in Archive!Good(b, k, skip)
      BY <3>2 DEF Archive!Good
    <3>4. Archive!ParsedRow(g[i], f[i], b[i]) \in parsed'
      BY <2>3, <3>3
    <3>5. Archive!ParsedRow(g[i], f[i], b[i]).rawId = f[i]
      BY DEF Archive!ParsedRow
    <3> QED
      BY <3>2, <3>4, <3>5
  <2> QED
    BY <2>4, <2>5
<1>2. CASE Archive!PurgeAll
  BY <1>2 DEF Archive!PurgeAll
<1>3. CASE Archive!PurgeErrors
  <2>1. PICK p \in parsed : p.rawId = r.id
    BY <1>3 DEF Archive!PurgeErrors, Archive!WithoutIds, ParsedRawHasRow
  <2> QED
    BY <1>3, <2>1 DEF Archive!PurgeErrors, Archive!WithoutIds, Archive!Cascade
<1>4. ASSUME NEW c \in Codes, Archive!PurgeCodeExactly(c)
      PROVE  \E p \in parsed' : p.rawId = r.id
  <2>1. r \in raw /\ r.id \notin Archive!RawIdsOf(parsed, c)
    BY <1>4 DEF Archive!PurgeCodeExactly, Archive!PurgeCode, Archive!WithoutIds
  <2>2. PICK p \in parsed : p.rawId = r.id
    BY <2>1 DEF ParsedRawHasRow
  <2>3. p.tr # c
    BY <2>1, <2>2 DEF Archive!RawIdsOf
  <2> QED
    BY <1>4, <2>1, <2>2, <2>3 DEF Archive!PurgeCodeExactly, Archive!PurgeCode,
       Archive!Cascade, Archive!OtherCodes
<1> QED
  BY <1>1, <1>2, <1>3, <1>4 DEF Archive!DocumentedNext

\* A session alone never leaves a raw row marked parsed without its parsed
\* row.  (With two, a delete by TR code does.)
THEOREM ParsedRowsStay == ASSUME OneSession PROVE Spec => []ParsedRawHasRow
<1>1. Archive!Empty => ParsedRawHasRow
  BY DEF Archive!Empty, ParsedRawHasRow
<1>2. ParsedRawHasRow /\ [Archive!DocumentedNext]_<<raw, parsed>> => ParsedRawHasRow'
  BY DocumentedKeepsRows DEF ParsedRawHasRow
<1> QED
  BY <1>1, <1>2, ImplementsDocumented, PTL
     DEF DocumentedArchive, Archive!DocumentedSpec, Archive!tables
=============================================================================

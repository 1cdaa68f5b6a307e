-------------------------- MODULE UploadPageProofs --------------------------
(***************************************************************************)
(* The Upload page cuts payloads as iter_records does, never decodes a     *)
(* record by a schema of another length, stores numbers as their columns   *)
(* spell them, reads back what it stored, and its registry holds only      *)
(* schemas that tile their record: proofs about UploadPage, for every set  *)
(* of schema texts and every payload.                                      *)
(***************************************************************************)
EXTENDS UploadPage, RecordSlicerProofs, RecordLayoutProofs

-----------------------------------------------------------------------------
(* The payload.                                                            *)

\* A part of a sequence is as long as its bounds say.
LEMMA PartLength ==
    ASSUME NEW S, NEW s \in Seq(S), NEW m \in Nat, NEW n \in Nat,
           1 <= m, m <= n + 1, n <= Len(s)
    PROVE  Len(SubSeq(s, m, n)) = n - m + 1
  OBVIOUS

\* Taking line ends out of a text leaves a text that is not longer.
LEMMA SanitizedIs ==
    ASSUME NEW text \in Seq(Nat)
    PROVE  Sanitized(text) \in Seq(Nat) /\ Len(Sanitized(text)) <= Len(text)
  <1> DEFINE N == Len(text)
             kept == {k \in DOMAIN text :
                         /\ text[k] # LineFeed
                         /\ text[k] = Return => k = Len(text) \/ text[k + 1] # LineFeed}
             Rec(g, n) == g = [k \in 0..n |->
                                  IF k = 0 THEN <<>>
                                  ELSE IF k \in kept THEN Append(g[k - 1], text[k])
                                       ELSE g[k - 1]]
             Has(n) == n <= N => \E g : Rec(g, n)
             S == {n \in Nat : Has(n)}
  <1>1. N \in Nat /\ N <= N /\ \A k \in 1..N : text[k] \in Nat
    OBVIOUS
  <1> HIDE DEF kept, N
  <1>2. Has(0)
    <2> DEFINE g == [k \in 0..0 |-> <<>>]
    <2>1. Rec(g, 0)
      OBVIOUS
    <2> QED
      BY <2>1
  <1>3. ASSUME NEW n \in Nat, Has(n)
        PROVE  Has(n + 1)
    <2> SUFFICES ASSUME n + 1 <= N
                 PROVE  \E g : Rec(g, n + 1)
      OBVIOUS
    <2>1. n <= N
      BY <1>1
    <2>2. PICK g : Rec(g, n)
      BY <2>1, <1>3
    <2> DEFINE last == IF n + 1 \in kept THEN Append(g[n], text[n + 1]) ELSE g[n]
               h == [k \in 0..(n + 1) |-> IF k = n + 1 THEN last ELSE g[k]]
    <2>3. ASSUME NEW k \in 0..(n + 1)
          PROVE  h[k] = IF k = 0 THEN <<>>
                        ELSE IF k \in kept THEN Append(h[k - 1], text[k]) ELSE h[k - 1]
      <3>1. CASE k = n + 1
        <4>1. k # 0 /\ k - 1 = n /\ h[k - 1] = g[n] /\ h[k] = last
          BY <3>1
        <4> QED
          BY <4>1, <3>1
      <3>2. CASE k # n + 1
        <4>1. k \in 0..n /\ h[k] = g[k]
          BY <3>2
        <4>2. g[k] = IF k = 0 THEN <<>>
                     ELSE IF k \in kept THEN Append(g[k - 1], text[k]) ELSE g[k - 1]
          BY <4>1, <2>2
        <4>3. k # 0 => h[k - 1] = g[k - 1]
          BY <4>1
        <4> QED
          BY <4>1, <4>2, <4>3
      <3> QED
        BY <3>1, <3>2
    <2>4. Rec(h, n + 1)
      BY <2>3
    <2> QED
      BY <2>4
  <1> HIDE DEF Has
  <1>4. N \in S
    <2>1. 0 \in S /\ \A n \in Nat : n \in S => n + 1 \in S
      BY <1>2, <1>3
    <2> HIDE DEF S
    <2> QED
      BY <2>1, <1>1, SetInduction
  <1>5. \E g : Rec(g, N)
    <2>1. Has(N)
      BY <1>4
    <2> HIDE DEF Rec
    <2> QED
      BY <2>1, <1>1 DEF Has
  <1> DEFINE nth == CHOOSE g : Rec(g, N)
  <1>6. Rec(nth, N)
    BY <1>5
  <1>7. Sanitized(text) = nth[N]
    BY Zenon DEF Sanitized, kept, N
  <1> HIDE DEF nth
  <1> DEFINE Short(n) == n <= N => nth[n] \in Seq(Nat) /\ Len(nth[n]) <= n
             T == {n \in Nat : Short(n)}
  <1>8. Short(0)
    BY <1>1, <1>6
  <1>9. ASSUME NEW n \in Nat, Short(n)
        PROVE  Short(n + 1)
    <2> SUFFICES ASSUME n + 1 <= N
                 PROVE  nth[n + 1] \in Seq(Nat) /\ Len(nth[n + 1]) <= n + 1
      OBVIOUS
    <2>1. nth[n] \in Seq(Nat) /\ Len(nth[n]) <= n /\ Len(nth[n]) \in Nat /\ text[n + 1] \in Nat
      BY <1>1, <1>9
    <2>2. nth[n + 1] = IF n + 1 \in kept THEN Append(nth[n], text[n + 1]) ELSE nth[n]
      <3>1. n + 1 \in 0..N /\ n + 1 # 0 /\ (n + 1) - 1 = n
        BY <1>1
      <3> QED
        BY <3>1, <1>6
    <2>3. Append(nth[n], text[n + 1]) \in Seq(Nat)
          /\ Len(Append(nth[n], text[n + 1])) = Len(nth[n]) + 1
      BY <2>1
    <2> QED
      BY <2>1, <2>2, <2>3
  <1>10. N \in T
    <2>1. 0 \in T /\ \A n \in Nat : n \in T => n + 1 \in T
      BY <1>8, <1>9
    <2> HIDE DEF T
    <2> QED
      BY <2>1, <1>1, SetInduction
  <1> QED
    BY <1>1, <1>7, <1>10 DEF N

\* The payload is a sequence of bytes, within the bound.
LEMMA PayloadIs ==
    ASSUME NEW u \in Uploads
    PROVE  PayloadOf(u) \in Seq(Nat) /\ Len(PayloadOf(u)) \in 0..MaxPayload
  <1>1. Len(u.bytes) <= MaxPayload /\ MaxPayload \in Nat
    BY UploadAssumption, SlicerAssumption
  <1>2. u.bytes \in Seq(Nat)
    BY UploadAssumption
  <1>3. CASE u.way = "paste"
    <2>1. Sanitized(u.bytes) \in Seq(Nat) /\ Len(Sanitized(u.bytes)) <= Len(u.bytes)
      BY <1>2, SanitizedIs
    <2>2. Len(Sanitized(u.bytes)) \in Nat /\ Len(u.bytes) \in Nat
      BY <2>1, <1>2
    <2> QED
      BY <1>1, <1>3, <2>1, <2>2 DEF PayloadOf
  <1>4. CASE u.way # "paste"
    <2>1. Len(u.bytes) \in Nat
      BY <1>2
    <2> QED
      BY <1>1, <1>2, <1>4, <2>1 DEF PayloadOf
  <1> QED
    BY <1>3, <1>4

\* A schema whose lengths and counts are numbers can be measured.
LEMMA OrdinaryIsMeasured ==
    ASSUME NEW t, Ordinary(t), Accepted(t)
    PROVE  MeasuredText(t)
  <1>1. ASSUME NEW k \in DOMAIN t.layout
        PROVE  MeasuredItem(t.layout[k])
    <2>1. ItemAccepted(t.layout[k])
      BY DEF Accepted
    <2>2. /\ t.layout[k].kind = "field" => t.layout[k].length \in Nat
          /\ t.layout[k].kind = "array" =>
                /\ t.layout[k].count \in Nat
                /\ IsRow(t.layout[k].fields)
                /\ \A f \in DOMAIN t.layout[k].fields : t.layout[k].fields[f].length \in Nat
      BY DEF Ordinary, Measures
    <2> QED
      BY <2>1, <2>2 DEF ItemAccepted, MeasuredItem, IsRow
  <1> QED
    BY <1>1 DEF MeasuredText, Ordinary, IsRow

\* A registry holds texts that build_schema accepts.
LEMMA RegistryHolds ==
    ASSUME NEW reg \in Registries, NEW t \in reg
    PROVE  Ordinary(t) /\ Accepted(t)
  <1>1. t \in UNION Folders /\ Accepted(t)
    BY DEF Registries, Loads
  <1> QED
    BY <1>1, UploadAssumption

\* A schema that a registry has for a code is one of its texts.
LEMMA SchemaIs ==
    ASSUME NEW reg \in Registries, NEW code, Knows(reg, code)
    PROVE  /\ SchemaOf(reg, code) \in reg
           /\ SchemaOf(reg, code).length \in RecordLengths \cap Nat
  <1>1. SchemaOf(reg, code) \in reg
    BY DEF Knows, SchemaOf
  <1>2. reg \in Folders
    BY DEF Registries
  <1>3. \A t \in UNION Folders : t.length \in RecordLengths
    BY UploadAssumption
  <1>4. SchemaOf(reg, code).length \in Nat
    BY <1>1, RegistryHolds, OrdinaryIsMeasured, OffsetsAre
  <1> QED
    BY <1>1, <1>2, <1>3, <1>4

\* They tile their record.
LEMMA RegistryTiles ==
    ASSUME NEW reg \in Registries, NEW t \in reg
    PROVE  Tiled(t)
  BY RegistryHolds, OrdinaryIsMeasured, AcceptedTiles

-----------------------------------------------------------------------------
(* The page runs the loop of iter_records.                                 *)

PayloadRead == total = Len(PayloadOf(upload))

\* Lengths are not negative, and a record cut off ends within the payload.
WholeRecords ==
    /\ at >= 0
    /\ \A p \in Places : Known(p) => lengthAt[p] \in Nat
    /\ \A c \in cuts : Known(c) /\ RecordEnd(c) <= total

\* The page starts the loop at the first byte.
LEMMA InitIsSlicer == PageInit => SlicerInit
  <1> SUFFICES ASSUME PageInit
               PROVE  SlicerInit
    OBVIOUS
  <1>1. total \in 0..MaxPayload
    BY PayloadIs DEF PageInit
  <1>2. ASSUME NEW p
        PROVE  LengthRead(cached, PayloadOf(upload), p) \in RecordLengths \cup {NoRecord}
    <2> DEFINE window == Slice(PayloadOf(upload), p, p + PeekLength)
               code == PeekCode(window)
    <2>1. cached \in Registries
      BY DEF PageInit
    <2>2. Knows(cached, code) => SchemaOf(cached, code).length \in RecordLengths
      BY <2>1, SchemaIs
    <2> QED
      BY <2>2 DEF LengthRead
  <1> QED
    BY <1>1, <1>2 DEF PageInit, SlicerInit, Places

\* A step of the page is a step of the loop, or leaves the loop alone.
LEMMA StepIsSlicer == [PageNext]_pageVars => [SlicerNext]_slicerVars
  BY DEF PageNext, Proceed, SliceStep, ShowWarning, ShowPreview, Save, EditSchema, Inspect,
         AtRest, pageVars

\* The Upload page refines the loop.
THEOREM PageSlices == PageSpec => SlicerSpec
  <1> QED
    BY InitIsSlicer, StepIsSlicer, PTL DEF PageSpec, SlicerSpec

\* The inductive invariant of the loop holds on the page.
THEOREM PageSlicerInductive == PageSpec => []SlicerIInv
  <1> QED
    BY PageSlices, SlicerInductive, PTL

\* What the Upload page cuts is the whole payload, where that can be cut.
THEOREM PageCutsWhole == PageSpec => []WholeStreamCut
  <1> QED
    BY PageSlices, SlicerCutsWhole, PTL

-----------------------------------------------------------------------------
(* Recursive functions over the columns of a text.                         *)

\* A function that is computed from its last value, column by column: step
\* gives the next value for a column and the last one.
LEMMA Recurs ==
    ASSUME NEW N \in Nat, NEW step \in [(1..N) \X Nat -> Nat], NEW first \in Nat
    PROVE  \E g \in [0..N -> Nat] :
              g[0] = first /\ \A k \in 1..N : g[k] = step[<<k, g[k - 1]>>]
  <1> DEFINE Has(n) == n <= N => \E g \in [0..n -> Nat] :
                          g[0] = first /\ \A k \in 1..n : g[k] = step[<<k, g[k - 1]>>]
             S == {n \in Nat : Has(n)}
  <1>1. Has(0)
    <2> DEFINE g == [k \in 0..0 |-> first]
    <2>1. g \in [0..0 -> Nat] /\ g[0] = first /\ \A k \in 1..0 : g[k] = step[<<k, g[k - 1]>>]
      OBVIOUS
    <2> QED
      BY <2>1
  <1>2. ASSUME NEW n \in Nat, Has(n)
        PROVE  Has(n + 1)
    <2> SUFFICES ASSUME n + 1 <= N
                 PROVE  \E g \in [0..(n + 1) -> Nat] :
                           g[0] = first /\ \A k \in 1..(n + 1) : g[k] = step[<<k, g[k - 1]>>]
      OBVIOUS
    <2>1. PICK g \in [0..n -> Nat] :
              g[0] = first /\ \A k \in 1..n : g[k] = step[<<k, g[k - 1]>>]
      BY <1>2
    <2> DEFINE next == step[<<n + 1, g[n]>>]
               h == [k \in 0..(n + 1) |-> IF k = n + 1 THEN next ELSE g[k]]
    <2>2. next \in Nat
      BY <2>1
    <2>3. h \in [0..(n + 1) -> Nat] /\ h[0] = first
      BY <2>1, <2>2
    <2>4. ASSUME NEW k \in 1..(n + 1)
          PROVE  h[k] = step[<<k, h[k - 1]>>]
      <3>1. CASE k = n + 1
        <4>1. h[k] = next /\ h[k - 1] = g[n]
          BY <3>1
        <4> QED
          BY <3>1, <4>1
      <3>2. CASE k # n + 1
        <4>1. k \in 1..n /\ h[k] = g[k] /\ h[k - 1] = g[k - 1]
          BY <3>2
        <4> QED
          BY <2>1, <4>1
      <3> QED
        BY <3>1, <3>2
    <2> HIDE DEF h
    <2> QED
      BY <2>3, <2>4
  <1> HIDE DEF Has
  <1>3. N \in S
    <2>1. 0 \in S /\ \A n \in Nat : n \in S => n + 1 \in S
      BY <1>1, <1>2
    <2> HIDE DEF S
    <2> QED
      BY <2>1, SetInduction
  <1> QED
    BY <1>3 DEF Has

\* Two of them, step by step and altogether.
StepsAlike(f, g, N) == \A k \in 1..N : f[k - 1] = g[k - 1] => f[k] = g[k]
Alike(f, g, N) == \A k \in 0..N : f[k] = g[k]

\* Two of them that start alike and step alike are alike.
LEMMA StepAlike ==
    ASSUME NEW N \in Nat, NEW f, NEW g, f[0] = g[0], StepsAlike(f, g, N)
    PROVE  Alike(f, g, N)
  <1> DEFINE S == {n \in Nat : n <= N => f[n] = g[n]}
  <1>1. 0 \in S
    OBVIOUS
  <1>2. ASSUME NEW n \in Nat, n \in S
        PROVE  n + 1 \in S
    <2>1. CASE n + 1 <= N
      <3>1. n + 1 \in 1..N /\ (n + 1) - 1 = n /\ f[n] = g[n]
        BY <1>2, <2>1
      <3> QED
        BY <3>1 DEF StepsAlike
    <2> QED
      BY <2>1
  <1>3. Nat \subseteq S
    <2> HIDE DEF S
    <2> QED
      BY <1>1, <1>2, SetInduction
  <1> QED
    BY <1>3 DEF Alike

-----------------------------------------------------------------------------
(* The number that digits spell.                                           *)

\* The value read so far, column by column.
IsReading(v, text) ==
    /\ v \in [0..Len(text) -> Nat]
    /\ v[0] = 0
    /\ \A k \in 1..Len(text) :
          v[k] = IF text[k] \in Digits THEN 10 * v[k - 1] + (text[k] - Zero) ELSE v[k - 1]

\* NumberOf reads a text to its end.
LEMMA NumberIs ==
    ASSUME NEW text \in Seq(Nat)
    PROVE  \E v : IsReading(v, text) /\ NumberOf(text) = v[Len(text)]
  <1> DEFINE N == Len(text)
             Rec(g) == g = [k \in 0..N |->
                               IF k = 0 THEN 0
                               ELSE IF text[k] \in Digits THEN 10 * g[k - 1] + text[k] - Zero
                               ELSE g[k - 1]]
             step == [q \in (1..N) \X Nat |->
                         IF text[q[1]] \in Digits THEN 10 * q[2] + (text[q[1]] - Zero) ELSE q[2]]
  <1>1. N \in Nat /\ \A k \in 1..N : text[k] \in Nat
    OBVIOUS
  <1>2. ASSUME NEW k \in 1..N, NEW x \in Nat
        PROVE  /\ step[<<k, x>>] = IF text[k] \in Digits THEN 10 * x + (text[k] - Zero) ELSE x
               /\ step[<<k, x>>] \in Nat
    <2>1. step[<<k, x>>] = IF text[k] \in Digits THEN 10 * x + (text[k] - Zero) ELSE x
      OBVIOUS
    <2>2. text[k] \in Digits => text[k] - Zero \in Nat
      BY DEF Digits, Zero
    <2> HIDE DEF step
    <2> QED
      BY <2>1, <2>2
  <1>3. step \in [(1..N) \X Nat -> Nat]
    <2>1. ASSUME NEW q \in (1..N) \X Nat
          PROVE  step[q] \in Nat
      <3>1. q = <<q[1], q[2]>> /\ q[1] \in 1..N /\ q[2] \in Nat
        OBVIOUS
      <3> HIDE DEF step
      <3> QED
        BY <3>1, <1>2
    <2> QED
      BY <2>1
  <1> HIDE DEF step, N
  <1>4. PICK v \in [0..N -> Nat] : v[0] = 0 /\ \A k \in 1..N : v[k] = step[<<k, v[k - 1]>>]
    <2>1. 0 \in Nat
      OBVIOUS
    <2> QED
      BY <2>1, <1>1, <1>3, Recurs
  <1>5. ASSUME NEW k \in 1..N
        PROVE  v[k - 1] \in Nat /\ v[k] =
            IF text[k] \in Digits THEN 10 * v[k - 1] + (text[k] - Zero) ELSE v[k - 1]
    <2>1. k - 1 \in 0..N
      BY <1>1
    <2>2. v[k - 1] \in Nat
      BY <1>4, <2>1
    <2> QED
      BY <1>2, <1>4, <2>2
  <1>6. \A k \in 1..N : 10 * v[k - 1] + (text[k] - Zero) = 10 * v[k - 1] + text[k] - Zero
    BY <1>1, <1>5 DEF Zero
  <1>7. Rec(v)
    <2>1. \A k \in 0..N : v[k] =
             IF k = 0 THEN 0
             ELSE IF text[k] \in Digits THEN 10 * v[k - 1] + text[k] - Zero ELSE v[k - 1]
      BY <1>1, <1>4, <1>5, <1>6
    <2> QED
      BY <1>4, <2>1
  <1> DEFINE g == CHOOSE g : Rec(g)
  <1>8. Rec(g)
    BY <1>7
  <1>9. NumberOf(text) = g[N]
    BY Zenon DEF NumberOf, N
  <1> HIDE DEF g
  <1>10. \A k \in 0..N : v[k] = g[k]
    <2>1. v[0] = g[0]
      BY <1>1, <1>4, <1>8
    <2>2. ASSUME NEW k \in 1..N, v[k - 1] = g[k - 1]
          PROVE  v[k] = g[k]
      <3>1. k \in 0..N /\ k # 0
        BY <1>1
      <3>2. g[k] = IF text[k] \in Digits THEN 10 * g[k - 1] + text[k] - Zero ELSE g[k - 1]
        BY <3>1, <1>8
      <3> QED
        BY <2>2, <3>2, <1>5, <1>6
    <2>3. StepsAlike(v, g, N)
      BY <2>2 DEF StepsAlike
    <2>4. Alike(v, g, N)
      BY <1>1, <2>1, <2>3, StepAlike
    <2> QED
      BY <2>4 DEF Alike
  <1>11. IsReading(v, text)
    BY <1>4, <1>5 DEF IsReading, N
  <1> QED
    BY <1>1, <1>9, <1>10, <1>11 DEF N

\* A reading is the only one.
LEMMA OneReading ==
    ASSUME NEW text \in Seq(Nat), NEW v, IsReading(v, text)
    PROVE  NumberOf(text) = v[Len(text)]
  <1>1. PICK w : IsReading(w, text) /\ NumberOf(text) = w[Len(text)]
    BY NumberIs
  <1>2. Len(text) \in Nat /\ v[0] = w[0]
    BY <1>1 DEF IsReading
  <1>3. StepsAlike(v, w, Len(text))
    BY <1>1 DEF IsReading, StepsAlike
  <1>4. Alike(v, w, Len(text))
    BY <1>2, <1>3, StepAlike
  <1> QED
    BY <1>1, <1>2, <1>4 DEF Alike

\* The digits that count.
NonZero == 49..57

\* Up to the first digit that counts, nothing has been read.
LEMMA ReadsNothing ==
    ASSUME NEW text \in Seq(Nat), NEW v, IsReading(v, text), NEW n \in 0..Len(text),
           \A k \in 1..n : text[k] \notin NonZero
    PROVE  v[n] = 0
  <1> DEFINE z == [k \in 0..n |-> 0]
  <1>1. n \in Nat /\ v[0] = z[0]
    BY DEF IsReading
  <1>2. ASSUME NEW k \in 1..n, v[k - 1] = z[k - 1]
        PROVE  v[k] = z[k]
    <2>1. k \in 1..Len(text) /\ z[k - 1] = 0 /\ z[k] = 0 /\ text[k] \notin NonZero
      OBVIOUS
    <2>2. text[k] \in Digits => text[k] - Zero = 0
      BY <2>1 DEF Digits, NonZero, Zero
    <2>3. v[k] = IF text[k] \in Digits THEN 10 * v[k - 1] + (text[k] - Zero) ELSE v[k - 1]
      BY <2>1 DEF IsReading
    <2> QED
      BY <1>2, <2>1, <2>2, <2>3
  <1>3. z[n] = 0
    BY <1>1
  <1> HIDE DEF z
  <1>4. Alike(v, z, n)
    <2>1. StepsAlike(v, z, n)
      BY <1>2 DEF StepsAlike
    <2> QED
      BY <1>1, <2>1, StepAlike
  <1> QED
    BY <1>1, <1>3, <1>4 DEF Alike

\* A text without what stands before its digits spells the same number.
LEMMA NumberOfTail ==
    ASSUME NEW text \in Seq(Nat), NEW a \in 1..(Len(text) + 1),
           \A k \in 1..(a - 1) : text[k] \notin NonZero
    PROVE  NumberOf(SubSeq(text, a, Len(text))) = NumberOf(text)
  <1> DEFINE N == Len(text)
             part == SubSeq(text, a, N)
             M == N - a + 1
  <1>1. /\ N \in Nat /\ a \in Nat /\ 1 <= a /\ a <= N + 1
        /\ a - 1 \in 0..N /\ M \in Nat /\ M = N - a + 1
        /\ part \in Seq(Nat) /\ Len(part) = M
    OBVIOUS
  <1>part. \A j \in 1..M : part[j] = text[a - 1 + j]
    OBVIOUS
  <1> HIDE DEF part, M
  <1>2. PICK v : IsReading(v, text) /\ NumberOf(text) = v[N]
    BY NumberIs
  <1> DEFINE w == [j \in 0..M |-> v[a - 1 + j]]
  <1>3. v[a - 1] = 0
    BY <1>1, <1>2, ReadsNothing
  <1>4. w \in [0..M -> Nat] /\ w[0] = 0 /\ w[M] = v[N]
    BY <1>1, <1>2, <1>3 DEF IsReading
  <1>5. ASSUME NEW j \in 1..M
        PROVE  w[j] = IF part[j] \in Digits THEN 10 * w[j - 1] + (part[j] - Zero) ELSE w[j - 1]
    <2>1. a - 1 + j \in 1..N /\ (a - 1 + j) - 1 = a - 1 + (j - 1)
      <3>1. j \in Nat /\ 1 <= j /\ j <= M
        BY <1>1
      <3> HIDE DEF N
      <3> QED
        BY <1>1, <3>1
    <2>2. w[j] = v[a - 1 + j] /\ w[j - 1] = v[(a - 1 + j) - 1]
      <3>1. j \in 0..M /\ j - 1 \in 0..M
        BY <1>1
      <3> QED
        BY <2>1, <3>1
    <2>3. part[j] = text[a - 1 + j]
      BY <1>part
    <2> HIDE DEF w
    <2> QED
      BY <1>2, <2>1, <2>2, <2>3 DEF IsReading
  <1>6. IsReading(w, part)
    BY <1>1, <1>4, <1>5 DEF IsReading
  <1> HIDE DEF w
  <1>7. NumberOf(part) = w[M]
    BY <1>1, <1>6, OneReading
  <1> QED
    BY <1>2, <1>4, <1>7 DEF part

\* Two texts, one behind the other.
LEMMA ConcatIs ==
    ASSUME NEW s \in Seq(Nat), NEW t \in Seq(Nat)
    PROVE  /\ s \o t \in Seq(Nat) /\ Len(s \o t) = Len(s) + Len(t)
           /\ \A k \in 1..Len(s) : (s \o t)[k] = s[k]
           /\ \A k \in 1..Len(t) : (s \o t)[Len(s) + k] = t[k]
  OBVIOUS

\* A text without one of its bytes that is no digit spells the same number, too.
LEMMA NumberOfWithout ==
    ASSUME NEW text \in Seq(Nat), NEW p \in 1..Len(text), text[p] \notin Digits
    PROVE  /\ Without(text, p) \in Seq(Nat)
           /\ Len(Without(text, p)) = Len(text) - 1
           /\ \A k \in 1..(p - 1) : Without(text, p)[k] = text[k]
           /\ \A k \in p..(Len(text) - 1) : Without(text, p)[k] = text[k + 1]
           /\ NumberOf(Without(text, p)) = NumberOf(text)
  <1> DEFINE N == Len(text)
             l == SubSeq(text, 1, p - 1)
             r == SubSeq(text, p + 1, N)
             rest == Without(text, p)
  <1>1. N \in Nat /\ p \in Nat /\ N - 1 \in Nat /\ 1 <= p /\ p <= N
    OBVIOUS
  <1>2. l \in Seq(Nat) /\ Len(l) = p - 1 /\ \A k \in 1..(p - 1) : l[k] = text[k]
    OBVIOUS
  <1>3. r \in Seq(Nat) /\ Len(r) = N - p /\ \A k \in 1..(N - p) : r[k] = text[p + k]
    OBVIOUS
  <1>4. rest = l \o r
    BY DEF Without
  <1> HIDE DEF l, r, rest, N
  <1>5. rest \in Seq(Nat) /\ Len(rest) = N - 1
    <2>1. l \in Seq(Nat) /\ r \in Seq(Nat)
      BY <1>2, <1>3
    <2>2. l \o r \in Seq(Nat) /\ Len(l \o r) = Len(l) + Len(r)
      BY <2>1
    <2> QED
      BY <1>1, <1>2, <1>3, <1>4, <2>2
  <1>6. \A k \in 1..(p - 1) : rest[k] = text[k]
    BY <1>1, <1>2, <1>3, <1>4
  <1>7. ASSUME NEW k \in p..(N - 1)
        PROVE  rest[k] = text[k + 1]
    <2>1. k - (p - 1) \in 1..(N - p) /\ p + (k - (p - 1)) = k + 1 /\ k \in 1..(N - 1)
      BY <1>1
    <2>2. rest[k] = r[k - (p - 1)]
      <3>1. \A i \in 1..Len(r) : (l \o r)[Len(l) + i] = r[i]
        BY <1>2, <1>3, ConcatIs
      <3>2. k - (p - 1) \in 1..Len(r) /\ Len(l) + (k - (p - 1)) = k
        BY <1>1, <1>2, <1>3, <2>1
      <3> QED
        BY <1>4, <3>1, <3>2
    <2> QED
      BY <1>3, <2>1, <2>2
  <1> HIDE DEF rest
  <1>8. PICK v : IsReading(v, text) /\ NumberOf(text) = v[N]
    BY NumberIs DEF N
  <1>read. /\ v \in [0..N -> Nat] /\ v[0] = 0
        /\ \A k \in 1..N : v[k] = IF text[k] \in Digits
                                 THEN 10 * v[k - 1] + (text[k] - Zero) ELSE v[k - 1]
    BY <1>8 DEF IsReading, N
  <1>9. v[p] = v[p - 1]
    BY <1>1, <1>read
  <1> DEFINE w == [j \in 0..(N - 1) |-> IF j < p THEN v[j] ELSE v[j + 1]]
  <1>10. w \in [0..(N - 1) -> Nat] /\ w[0] = 0 /\ w[N - 1] = v[N]
    <2>1. ASSUME NEW j \in 0..(N - 1)
          PROVE  w[j] \in Nat
      <3>1. j \in 0..N /\ j + 1 \in 0..N
        BY <1>1
      <3> QED
        BY <1>read, <3>1
    <2>2. w[0] = 0
      BY <1>1, <1>read
    <2>3. w[N - 1] = v[N]
      BY <1>1, <1>9
    <2> QED
      BY <2>1, <2>2, <2>3
  <1>11. ASSUME NEW j \in 1..(N - 1)
         PROVE  w[j] = IF rest[j] \in Digits THEN 10 * w[j - 1] + (rest[j] - Zero) ELSE w[j - 1]
    <2>1. CASE j < p
      <3>1. w[j] = v[j] /\ w[j - 1] = v[j - 1] /\ rest[j] = text[j] /\ j \in 1..N
        BY <1>1, <1>6, <2>1
      <3> HIDE DEF w
      <3> QED
        BY <1>read, <3>1
    <2>2. CASE j >= p
      <3>1. w[j] = v[j + 1] /\ rest[j] = text[j + 1] /\ j + 1 \in 1..N /\ (j + 1) - 1 = j
        <4>1. j \in p..(N - 1) /\ j \in 0..(N - 1) /\ ~(j < p) /\ j + 1 \in 1..N
              /\ (j + 1) - 1 = j
          BY <1>1, <2>2
        <4> QED
          BY <1>7, <4>1
      <3>2. w[j - 1] = v[j]
        <4>1. CASE j = p
          BY <1>1, <1>9, <4>1
        <4>2. CASE j # p
          BY <1>1, <2>2, <4>2
        <4> QED
          BY <4>1, <4>2
      <3> HIDE DEF w
      <3> QED
        BY <1>read, <3>1, <3>2
    <2> QED
      BY <1>1, <2>1, <2>2
  <1>12. IsReading(w, rest)
    BY <1>5, <1>10, <1>11 DEF IsReading
  <1> HIDE DEF w
  <1>13. NumberOf(rest) = NumberOf(text)
    BY <1>5, <1>8, <1>10, <1>12, OneReading
  <1> QED
    BY <1>5, <1>6, <1>7, <1>13 DEF rest, N

-----------------------------------------------------------------------------
(* The number that columns spell.                                          *)

\* The powers of ten, up to the nth.
IsPowers(p, n) ==
    p \in [0..n -> Nat] /\ p[0] = 1 /\ \A k \in 1..n : p[k] = 10 * p[k - 1]

\* TenTo is the last of them.
LEMMA TenToPowers ==
    ASSUME NEW n \in Nat
    PROVE  \E p : IsPowers(p, n) /\ TenTo(n) = p[n]
  <1> DEFINE Rec(g) == g = [k \in 0..n |-> IF k = 0 THEN 1 ELSE 10 * g[k - 1]]
             step == [q \in (1..n) \X Nat |-> 10 * q[2]]
  <1>1. step \in [(1..n) \X Nat -> Nat] /\ \A k \in 1..n, x \in Nat : step[<<k, x>>] = 10 * x
    OBVIOUS
  <1> HIDE DEF step
  <1>2. PICK p \in [0..n -> Nat] : p[0] = 1 /\ \A k \in 1..n : p[k] = step[<<k, p[k - 1]>>]
    <2>1. 1 \in Nat
      OBVIOUS
    <2> QED
      BY <2>1, <1>1, Recurs
  <1>3. ASSUME NEW k \in 1..n
        PROVE  p[k] = 10 * p[k - 1]
    <2>1. k - 1 \in 0..n
      OBVIOUS
    <2>2. p[k - 1] \in Nat
      BY <1>2, <2>1
    <2> QED
      BY <1>1, <1>2, <2>2
  <1>4. IsPowers(p, n)
    BY <1>2, <1>3 DEF IsPowers
  <1>5. Rec(p)
    <2>1. \A k \in 0..n : p[k] = IF k = 0 THEN 1 ELSE 10 * p[k - 1]
      BY <1>2, <1>3
    <2> QED
      BY <1>2, <2>1
  <1> DEFINE g == CHOOSE g : Rec(g)
  <1>6. Rec(g)
    BY <1>5
  <1>7. TenTo(n) = g[n]
    BY Zenon DEF TenTo
  <1> HIDE DEF g
  <1>8. p[0] = g[0]
    BY <1>2, <1>6
  <1>9. ASSUME NEW k \in 1..n, p[k - 1] = g[k - 1]
        PROVE  p[k] = g[k]
    <2>1. k \in 0..n /\ k # 0
      OBVIOUS
    <2>2. g[k] = 10 * g[k - 1]
      BY <1>6, <2>1
    <2> QED
      BY <1>9, <1>3, <2>2
  <1>10. Alike(p, g, n)
    <2>1. StepsAlike(p, g, n)
      BY <1>9 DEF StepsAlike
    <2> QED
      BY <1>8, <2>1, StepAlike
  <1> QED
    BY <1>4, <1>7, <1>10 DEF Alike

\* Ten times a power is the next one.
LEMMA TenToIs ==
    /\ TenTo(0) = 1
    /\ \A n \in Nat : TenTo(n) \in Nat /\ TenTo(n + 1) = 10 * TenTo(n)
  <1>1. TenTo(0) = 1
    BY TenToPowers DEF IsPowers
  <1>2. ASSUME NEW n \in Nat
        PROVE  TenTo(n) \in Nat /\ TenTo(n + 1) = 10 * TenTo(n)
    <2>1. PICK p : IsPowers(p, n) /\ TenTo(n) = p[n]
      BY TenToPowers
    <2>2. PICK q : IsPowers(q, n + 1) /\ TenTo(n + 1) = q[n + 1]
      <3>1. n + 1 \in Nat
        OBVIOUS
      <3> QED
        BY <3>1, TenToPowers
    <2>3. p[0] = q[0] /\ StepsAlike(p, q, n)
      BY <2>1, <2>2 DEF IsPowers, StepsAlike
    <2>4. p[n] = q[n]
      <3>1. Alike(p, q, n)
        BY <2>3, StepAlike
      <3> QED
        BY <3>1 DEF Alike
    <2>5. q[n + 1] = 10 * q[n]
      <3>1. n + 1 \in 1..(n + 1) /\ (n + 1) - 1 = n
        OBVIOUS
      <3> QED
        BY <3>1, <2>2 DEF IsPowers
    <2>6. p[n] \in Nat
      BY <2>1 DEF IsPowers
    <2> QED
      BY <2>1, <2>2, <2>4, <2>5, <2>6
  <1> QED
    BY <1>1, <1>2

\* A column more on the right, unless it is the point.
LEMMA ColumnsAre ==
    ASSUME NEW text \in Seq(Nat)
    PROVE  /\ ColumnsRight(text, Len(text)) = 0
           /\ \A k \in 0..Len(text) : ColumnsRight(text, k) \in Nat
           /\ \A k \in 1..Len(text) :
                 ColumnsRight(text, k - 1) =
                    IF text[k] = Point THEN ColumnsRight(text, k) ELSE ColumnsRight(text, k) + 1
  <1> DEFINE N == Len(text)
             Right(k) == {m \in (k + 1)..N : text[m] # Point}
  <1>1. N \in Nat
    OBVIOUS
  <1>2. \A k : ColumnsRight(text, k) = Cardinality(Right(k))
    BY DEF ColumnsRight
  <1>3. Right(N) = {}
    BY <1>1
  <1>4. ASSUME NEW k \in 0..N
        PROVE  IsFiniteSet(Right(k)) /\ Cardinality(Right(k)) \in Nat
    <2>1. IsFiniteSet((k + 1)..N)
      BY <1>1, FS_Interval
    <2>2. Right(k) \subseteq (k + 1)..N
      OBVIOUS
    <2>3. IsFiniteSet(Right(k))
      BY <2>1, <2>2, FS_Subset
    <2> QED
      BY <2>3, FS_CardinalityType
  <1>5. ASSUME NEW k \in 1..N
        PROVE  /\ text[k] = Point => Right(k - 1) = Right(k)
               /\ text[k] # Point => Right(k - 1) = Right(k) \cup {k} /\ k \notin Right(k)
    <2>1. /\ \A m : m \in (k - 1 + 1)..N <=> m = k \/ m \in (k + 1)..N
          /\ k \notin (k + 1)..N
      BY <1>1
    <2> QED
      BY <2>1
  <1>6. ASSUME NEW k \in 1..N
        PROVE  Cardinality(Right(k - 1)) =
                  IF text[k] = Point THEN Cardinality(Right(k)) ELSE Cardinality(Right(k)) + 1
    <2>1. k \in 0..N
      BY <1>1
    <2>2. IsFiniteSet(Right(k))
      BY <2>1, <1>4
    <2>3. k \notin Right(k) => Cardinality(Right(k) \cup {k}) = Cardinality(Right(k)) + 1
      <3> HIDE DEF Right
      <3> QED
        BY <2>2, FS_AddElement
    <2> HIDE DEF Right
    <2> QED
      BY <1>5, <2>3
  <1> HIDE DEF Right
  <1>7. Cardinality(Right(N)) = 0
    BY <1>3, FS_EmptySet
  <1> QED
    BY <1>2, <1>4, <1>6, <1>7

\* The sum so far, column by column.
IsSum(s, text) ==
    /\ s \in [0..Len(text) -> Nat]
    /\ s[0] = 0
    /\ \A k \in 1..Len(text) :
          s[k] = IF text[k] \in Digits
                 THEN s[k - 1] + (text[k] - Zero) * TenTo(ColumnsRight(text, k)) ELSE s[k - 1]

\* Positional sums the columns of a text to its end.
LEMMA PositionalIs ==
    ASSUME NEW text \in Seq(Nat)
    PROVE  \E s : /\ IsSum(s, text)
                  /\ Positional(text) = IF text[1] = Minus THEN -s[Len(text)] ELSE s[Len(text)]
  <1> DEFINE N == Len(text)
             part == [k \in 1..N |-> (text[k] - Zero) * TenTo(ColumnsRight(text, k))]
             Rec(g) == g = [k \in 0..N |->
                               IF k = 0 THEN 0
                               ELSE IF text[k] \in Digits
                                    THEN g[k - 1] + (text[k] - Zero) * TenTo(ColumnsRight(text, k))
                                    ELSE g[k - 1]]
             step == [q \in (1..N) \X Nat |->
                         IF text[q[1]] \in Digits THEN q[2] + part[q[1]] ELSE q[2]]
  <1>1. N \in Nat /\ \A k \in 1..N : text[k] \in Nat
    OBVIOUS
  <1>2. ASSUME NEW k \in 1..N
        PROVE  /\ part[k] = (text[k] - Zero) * TenTo(ColumnsRight(text, k))
               /\ text[k] \in Digits => part[k] \in Nat
    <2>1. k \in 0..N
      BY <1>1
    <2>2. TenTo(ColumnsRight(text, k)) \in Nat
      BY <2>1, ColumnsAre, TenToIs
    <2>3. text[k] \in Digits => text[k] - Zero \in Nat
      BY DEF Digits, Zero
    <2>4. \A x, y \in Nat : x * y \in Nat
      OBVIOUS
    <2> QED
      BY <2>2, <2>3, <2>4
  <1> HIDE DEF part
  <1>3. ASSUME NEW k \in 1..N, NEW x \in Nat
        PROVE  /\ step[<<k, x>>] = IF text[k] \in Digits THEN x + part[k] ELSE x
               /\ step[<<k, x>>] \in Nat
    <2>1. step[<<k, x>>] = IF text[k] \in Digits THEN x + part[k] ELSE x
      OBVIOUS
    <2> HIDE DEF step
    <2> QED
      BY <2>1, <1>2
  <1>4. step \in [(1..N) \X Nat -> Nat]
    <2>1. ASSUME NEW q \in (1..N) \X Nat
          PROVE  step[q] \in Nat
      <3>1. q = <<q[1], q[2]>> /\ q[1] \in 1..N /\ q[2] \in Nat
        OBVIOUS
      <3> HIDE DEF step
      <3> QED
        BY <3>1, <1>3
    <2> QED
      BY <2>1
  <1> HIDE DEF step, N
  <1>5. PICK s \in [0..N -> Nat] : s[0] = 0 /\ \A k \in 1..N : s[k] = step[<<k, s[k - 1]>>]
    <2>1. 0 \in Nat
      OBVIOUS
    <2> QED
      BY <2>1, <1>1, <1>4, Recurs
  <1>6. ASSUME NEW k \in 1..N
        PROVE  s[k] = IF text[k] \in Digits
                      THEN s[k - 1] + (text[k] - Zero) * TenTo(ColumnsRight(text, k)) ELSE s[k - 1]
    <2>1. k - 1 \in 0..N
      BY <1>1
    <2>2. s[k - 1] \in Nat
      BY <1>5, <2>1
    <2>3. s[k] = IF text[k] \in Digits THEN s[k - 1] + part[k] ELSE s[k - 1]
      BY <1>3, <1>5, <2>2
    <2> QED
      BY <1>2, <2>3
  <1>7. Rec(s)
    <2>1. \A k \in 0..N : s[k] =
             IF k = 0 THEN 0
             ELSE IF text[k] \in Digits
                  THEN s[k - 1] + (text[k] - Zero) * TenTo(ColumnsRight(text, k)) ELSE s[k - 1]
      BY <1>1, <1>5, <1>6
    <2> QED
      BY <1>5, <2>1
  <1> DEFINE g == CHOOSE g : Rec(g)
  <1>8. Rec(g)
    BY <1>7
  <1>9. Positional(text) = IF text[1] = Minus THEN -g[N] ELSE g[N]
    BY Zenon DEF Positional, N
  <1> HIDE DEF g
  <1>10. \A k \in 0..N : s[k] = g[k]
    <2>1. s[0] = g[0]
      BY <1>1, <1>5, <1>8
    <2>2. ASSUME NEW k \in 1..N, s[k - 1] = g[k - 1]
          PROVE  s[k] = g[k]
      <3>1. k \in 0..N /\ k # 0
        BY <1>1
      <3>2. g[k] = IF text[k] \in Digits
                   THEN g[k - 1] + (text[k] - Zero) * TenTo(ColumnsRight(text, k)) ELSE g[k - 1]
        BY <3>1, <1>8
      <3> QED
        BY <2>2, <3>2, <1>6
    <2>3. StepsAlike(s, g, N)
      BY <2>2 DEF StepsAlike
    <2>4. Alike(s, g, N)
      BY <1>1, <2>1, <2>3, StepAlike
    <2> QED
      BY <2>4 DEF Alike
  <1>11. IsSum(s, text)
    BY <1>5, <1>6 DEF IsSum, N
  <1>12. s[N] = g[N]
    BY <1>1, <1>10
  <1> QED
    BY <1>9, <1>11, <1>12 DEF N

\* A byte that is neither a digit nor a point stands before every digit that
\* counts.
InColumns(text) ==
    \A k \in 1..Len(text) : text[k] \notin Digits \cup {Point} =>
        \A j \in 1..k : text[j] \notin NonZero

\* Then reading digit by digit is summing column by column.
LEMMA DigitsSumUp ==
    ASSUME NEW text \in Seq(Nat), InColumns(text)
    PROVE  Positional(text) = IF text[1] = Minus THEN -NumberOf(text) ELSE NumberOf(text)
  <1> DEFINE N == Len(text)
             Power(k) == TenTo(ColumnsRight(text, k))
  <1>1. N \in Nat
    OBVIOUS
  <1>2. PICK v : IsReading(v, text) /\ NumberOf(text) = v[N]
    BY NumberIs
  <1>3. PICK s : /\ IsSum(s, text)
                 /\ Positional(text) = IF text[1] = Minus THEN -s[N] ELSE s[N]
    BY PositionalIs
  <1>4. \A k \in 0..N : Power(k) \in Nat
    BY ColumnsAre, TenToIs
  <1>5. Power(N) = 1
    BY ColumnsAre, TenToIs
  <1>6. \A k \in 1..N : Power(k - 1) = IF text[k] = Point THEN Power(k) ELSE 10 * Power(k)
    <2>1. ASSUME NEW k \in 1..N
          PROVE  Power(k - 1) = IF text[k] = Point THEN Power(k) ELSE 10 * Power(k)
      <3>1. k \in 0..N
        BY <1>1
      <3>2. ColumnsRight(text, k) \in Nat
        BY <3>1, ColumnsAre
      <3>3. TenTo(ColumnsRight(text, k) + 1) = 10 * Power(k)
        BY <3>2, TenToIs
      <3> QED
        BY <3>3, ColumnsAre
    <2> QED
      BY <2>1
  <1>7. IsSum(s, text) => /\ s[0] = 0
                          /\ \A k \in 1..N : s[k] = IF text[k] \in Digits
                                                    THEN s[k - 1] + (text[k] - Zero) * Power(k)
                                                    ELSE s[k - 1]
    BY DEF IsSum
  <1> HIDE DEF Power
  <1> DEFINE h == [k \in 0..N |-> v[k] * Power(k)]
  <1>8. s[0] = h[0]
    <2>1. v[0] = 0 /\ 0 \in 0..N /\ Power(0) \in Nat
      BY <1>1, <1>2, <1>4 DEF IsReading
    <2> QED
      BY <1>3, <1>7, <2>1
  <1>9. ASSUME NEW k \in 1..N, s[k - 1] = h[k - 1]
        PROVE  s[k] = h[k]
    <2>1. k \in 0..N /\ k - 1 \in 0..N
      BY <1>1
    <2>2. v[k] \in Nat /\ v[k - 1] \in Nat /\ Power(k) \in Nat /\ Power(k - 1) \in Nat
      BY <1>2, <1>4, <2>1 DEF IsReading
    <2>3. h[k] = v[k] * Power(k) /\ s[k - 1] = v[k - 1] * Power(k - 1)
      BY <1>9, <2>1
    <2> HIDE DEF h
    <2>4. CASE text[k] \in Digits
      <3>1. text[k] - Zero \in Nat /\ text[k] # Point
        BY <2>4 DEF Digits, Zero, Point
      <3>2. v[k] = 10 * v[k - 1] + (text[k] - Zero)
        BY <1>2, <2>4 DEF IsReading
      <3>3. s[k] = v[k - 1] * (10 * Power(k)) + (text[k] - Zero) * Power(k)
        BY <1>3, <1>6, <1>7, <2>3, <2>4, <3>1
      <3> DEFINE x == v[k - 1]
                 d == text[k] - Zero
                 q == Power(k)
      <3>4. x \in Nat /\ d \in Nat /\ q \in Nat
        BY <2>2, <3>1
      <3>5. x * (10 * q) + d * q = (10 * x + d) * q
        <4> HIDE DEF x, d, q
        <4> QED
          BY <3>4
      <3> QED
        BY Zenon, <2>3, <3>2, <3>3, <3>5
    <2>5. CASE text[k] = Point
      <3>1. text[k] \notin Digits
        BY <2>5 DEF Digits, Point
      <3>2. v[k] = v[k - 1] /\ Power(k - 1) = Power(k) /\ s[k] = s[k - 1]
        BY <1>2, <1>3, <1>6, <1>7, <2>5, <3>1 DEF IsReading
      <3> QED
        BY <2>3, <3>2
    <2>6. CASE text[k] \notin Digits \cup {Point}
      <3>1. \A j \in 1..k : text[j] \notin NonZero
        BY <2>6 DEF InColumns
      <3>2. v[k] = 0
        BY <1>2, <2>1, <3>1, ReadsNothing
      <3>3. v[k] = v[k - 1] /\ s[k] = s[k - 1]
        BY <1>2, <1>3, <1>7, <2>6 DEF IsReading
      <3> QED
        BY <2>2, <2>3, <3>2, <3>3
    <2> QED
      BY <2>4, <2>5, <2>6
  <1>10. h[N] = v[N]
    <2>1. N \in 0..N /\ v[N] \in Nat
      BY <1>1, <1>2 DEF IsReading
    <2> QED
      BY <1>5, <2>1
  <1> HIDE DEF h
  <1>11. Alike(s, h, N)
    <2>1. StepsAlike(s, h, N)
      BY <1>9 DEF StepsAlike
    <2> QED
      BY <1>1, <1>8, <2>1, StepAlike
  <1> QED
    BY <1>1, <1>2, <1>3, <1>10, <1>11 DEF Alike

\* Stripping a text that is filled up to its end takes what fills it on the
\* left, and leaves its number.
LEMMA StripIs ==
    ASSUME NEW text \in Seq(Nat), text # <<>>, text[Len(text)] \notin Whitespace
    PROVE  \E a \in 1..Len(text) :
              /\ Strip(text, Whitespace) = SubSeq(text, a, Len(text))
              /\ \A k \in 1..(a - 1) : text[k] \in Whitespace
  <1> DEFINE N == Len(text)
             kept == {k \in DOMAIN text : text[k] \notin Whitespace}
             first == CHOOSE k \in kept : \A m \in kept : k <= m
             last == CHOOSE k \in kept : \A m \in kept : m <= k
  <1>1. N \in Nat /\ DOMAIN text = 1..N /\ N >= 1
    OBVIOUS
  <1>2. N \in kept /\ kept \in SUBSET Nat /\ kept \subseteq 1..N
    BY <1>1
  <1>3. Strip(text, Whitespace) = SubSeq(text, first, last)
    BY <1>2 DEF Strip
  <1>4. first \in kept /\ \A m \in kept : first <= m
    <2> HIDE DEF kept
    <2>1. \E k \in kept : \A m \in kept : k <= m
      BY <1>2, LeastNumber
    <2> QED
      BY <2>1
  <1>5. last = N
    <2>1. \A m \in kept : m <= N
      BY <1>1, <1>2
    <2>2. last \in kept /\ \A m \in kept : m <= last
      <3> HIDE DEF kept
      <3> QED
        BY <1>2, <2>1
    <2> HIDE DEF kept, last, N
    <2>3. last <= N /\ N <= last /\ last \in Nat
      BY <1>2, <2>1, <2>2
    <2> QED
      BY <1>1, <2>3
  <1> HIDE DEF first, last
  <1>6. \A k \in 1..(first - 1) : text[k] \in Whitespace
    <2>1. ASSUME NEW k \in 1..(first - 1), text[k] \notin Whitespace
          PROVE  FALSE
      <3>1. k \in 1..N /\ k < first
        BY <1>1, <1>2, <1>4
      <3>2. k \in kept
        BY <1>1, <2>1, <3>1
      <3> HIDE DEF kept
      <3> QED
        BY <1>2, <1>4, <3>1, <3>2
    <2> QED
      BY <2>1
  <1>7. first \in 1..N
    BY <1>2, <1>4
  <1> QED
    BY <1>3, <1>5, <1>6, <1>7

\* What is left of it being digits, every digit stands behind what was taken.
LEMMA StrippedNumber ==
    ASSUME NEW text \in Seq(Nat), text # <<>>, text[Len(text)] \notin Whitespace,
           AllDigits(Strip(text, Whitespace))
    PROVE  /\ Strip(text, Whitespace) # <<>>
           /\ NumberOf(Strip(text, Whitespace)) = NumberOf(text)
           /\ \A k \in 1..Len(text) : text[k] \in Digits \cup Whitespace
           /\ \A k \in 1..Len(text) : text[k] \notin Digits =>
                 \A j \in 1..k : text[j] \notin Digits
  <1> DEFINE N == Len(text)
  <1>1. PICK a \in 1..N : /\ Strip(text, Whitespace) = SubSeq(text, a, N)
                          /\ \A k \in 1..(a - 1) : text[k] \in Whitespace
    BY StripIs
  <1> DEFINE part == SubSeq(text, a, N)
             M == N - a + 1
  <1>2. N \in Nat /\ a \in Nat /\ 1 <= a /\ a <= N
    OBVIOUS
  <1>3. part \in Seq(Nat) /\ Len(part) = M /\ M \in Nat /\ M >= 1
    OBVIOUS
  <1>4. \A j \in 1..M : part[j] = text[a - 1 + j]
    OBVIOUS
  <1> HIDE DEF part, N
  <1>5. \A k \in a..N : text[k] \in Digits
    <2>1. ASSUME NEW k \in a..N
          PROVE  text[k] \in Digits
      <3>1. k - (a - 1) \in 1..M /\ a - 1 + (k - (a - 1)) = k
        BY <1>2
      <3>2. part[k - (a - 1)] = text[k]
        BY <1>4, <3>1
      <3>3. k - (a - 1) \in DOMAIN part
        BY <1>3, <3>1
      <3> QED
        BY <1>1, <3>2, <3>3 DEF AllDigits, part
    <2> QED
      BY <2>1
  <1>6. \A x : x \in Whitespace => x \notin Digits /\ x \notin NonZero
    BY DEF Whitespace, Digits, NonZero
  <1>7. \A k \in 1..N : text[k] \notin Digits => k < a
    BY <1>2, <1>5
  <1>8. ASSUME NEW k \in 1..N, text[k] \notin Digits, NEW j \in 1..k
        PROVE  text[j] \notin Digits
    <2>1. j \in 1..(a - 1)
      BY <1>2, <1>7, <1>8
    <2> QED
      BY <1>1, <1>6, <2>1
  <1>9. \A k \in 1..N : text[k] \in Digits \cup Whitespace
    <2>1. \A k \in 1..N : k \in 1..(a - 1) \/ k \in a..N
      BY <1>2
    <2> QED
      BY <1>1, <1>5, <2>1
  <1>10. NumberOf(part) = NumberOf(text)
    <2>1. a \in 1..(N + 1) /\ \A k \in 1..(a - 1) : text[k] \notin NonZero
      BY <1>1, <1>2, <1>6
    <2> QED
      BY <2>1, NumberOfTail DEF part, N
  <1>11. part # <<>>
    BY <1>3
  <1> QED
    BY <1>1, <1>8, <1>9, <1>10, <1>11 DEF part, N

-----------------------------------------------------------------------------
(* A field with digits is decoded to what its columns spell.               *)

\* Digits and the point are no blanks, and neither digits nor blanks a sign.
LEMMA BytesApart ==
    \A x : /\ x \in Digits \cup {Point} => x \notin Whitespace
           /\ x \in Digits \cup Whitespace => x # Minus
  BY DEF Digits, Whitespace, Point, Minus

\* A text that ends in a digit is not empty, and does not end in a blank.
LEMMA EndsSolid ==
    ASSUME NEW text \in Seq(Nat), EndsInDigit(text)
    PROVE  /\ Len(text) \in Nat /\ Len(text) >= 1 /\ text # <<>>
           /\ text[Len(text)] \notin Whitespace
           /\ \E k \in 1..Len(text) :
                 /\ text[k] \in Digits
                 /\ \A m \in k..Len(text) : text[m] \in Digits \cup {Point}
  <1> DEFINE N == Len(text)
  <1>1. N \in Nat /\ DOMAIN text = 1..N
    OBVIOUS
  <1>2. PICK k \in 1..N : text[k] \in Digits /\ \A m \in (k + 1)..N : text[m] = Point
    BY <1>1 DEF EndsInDigit
  <1>3. \A m \in k..N : text[m] \in Digits \cup {Point}
    <2>1. \A m \in k..N : m = k \/ m \in (k + 1)..N
      BY <1>1
    <2> QED
      BY <1>2, <2>1
  <1>4. N >= 1 /\ N \in k..N
    BY <1>1
  <1>5. text[N] \notin Whitespace
    <2>1. text[N] \in Digits \cup {Point}
      BY <1>3, <1>4
    <2> HIDE DEF N
    <2> QED
      BY <2>1, BytesApart
  <1> QED
    BY <1>1, <1>2, <1>3, <1>4, <1>5

\* Without a byte for a sign.
LEMMA UnsignedIs ==
    ASSUME NEW fld, NEW text \in Seq(Nat), EndsInDigit(text), SignBytes(fld) # 1,
           AllDigits(Strip(DigitsOf(fld, text), Whitespace))
    PROVE  /\ Strip(DigitsOf(fld, text), Whitespace) # <<>>
           /\ NumberOf(Strip(DigitsOf(fld, text), Whitespace)) = Positional(text)
  <1>1. DigitsOf(fld, text) = text
    BY DEF DigitsOf, HasPoint
  <1>2. /\ Len(text) \in Nat /\ Len(text) >= 1 /\ text # <<>>
        /\ text[Len(text)] \notin Whitespace
    BY EndsSolid
  <1>3. /\ Strip(text, Whitespace) # <<>>
        /\ NumberOf(Strip(text, Whitespace)) = NumberOf(text)
        /\ \A k \in 1..Len(text) : text[k] \in Digits \cup Whitespace
        /\ \A k \in 1..Len(text) : text[k] \notin Digits =>
              \A j \in 1..k : text[j] \notin Digits
    BY <1>1, <1>2, StrippedNumber
  <1>4. InColumns(text)
    BY <1>3 DEF InColumns, NonZero, Digits
  <1>5. text[1] # Minus
    <2>1. 1 \in 1..Len(text)
      BY <1>2
    <2> QED
      <3>1. text[1] \in Digits \cup Whitespace
        BY <1>3, <2>1
      <3> QED
        BY <3>1, BytesApart
  <1> QED
    BY <1>1, <1>3, <1>4, <1>5, DigitsSumUp

\* With a point in the place of the sign.
LEMMA PointedIs ==
    ASSUME NEW fld, NEW text \in Seq(Nat), EndsInDigit(text), HasPoint(fld, text),
           fld.digits[1] \in Nat,
           AllDigits(Strip(DigitsOf(fld, text), Whitespace))
    PROVE  /\ Strip(DigitsOf(fld, text), Whitespace) # <<>>
           /\ NumberOf(Strip(DigitsOf(fld, text), Whitespace)) = Positional(text)
  <1> DEFINE N == Len(text)
             p == fld.digits[1] + 1
             rest == Without(text, p)
  <1>1. /\ N \in Nat /\ N >= 1 /\ p \in Nat /\ 1 <= p /\ p <= N /\ p \in 1..N
        /\ text[p] = Point
    <2>1. N \in Nat /\ N >= 1
      BY EndsSolid
    <2> QED
      BY <2>1 DEF HasPoint
  <1>2. DigitsOf(fld, text) = rest
    BY DEF DigitsOf
  <1> HIDE DEF p
  <1>3. text[p] \notin Digits
    BY <1>1 DEF Digits, Point
  <1>4. /\ rest \in Seq(Nat) /\ Len(rest) = N - 1
        /\ \A k \in 1..(p - 1) : rest[k] = text[k]
        /\ \A k \in p..(N - 1) : rest[k] = text[k + 1]
        /\ NumberOf(rest) = NumberOf(text)
    BY <1>1, <1>3, NumberOfWithout
  <1> HIDE DEF rest
  <1>5. PICK d \in 1..N : /\ text[d] \in Digits
                          /\ \A m \in d..N : text[m] \in Digits \cup {Point}
    BY EndsSolid
  <1> HIDE DEF N
  <1>6. d # p /\ N - 1 >= 1
    BY <1>1, <1>3, <1>5
  <1>7. rest # <<>> /\ rest[N - 1] \notin Whitespace
    <2>1. \E m \in d..N : rest[N - 1] = text[m]
      <3>1. CASE p = N
        <4>1. N - 1 \in 1..(p - 1) /\ N - 1 \in d..N
          BY <1>1, <1>5, <1>6, <3>1
        <4> QED
          BY <1>4, <4>1
      <3>2. CASE p # N
        <4>1. N - 1 \in p..(N - 1) /\ N - 1 + 1 = N /\ N \in d..N
          BY <1>1, <1>5, <3>2
        <4> QED
          BY <1>4, <4>1
      <3> QED
        BY <3>1, <3>2
    <2>2. rest[N - 1] \notin Whitespace
      <3>1. rest[N - 1] \in Digits \cup {Point}
        BY <1>5, <2>1
      <3> QED
        BY <3>1, BytesApart
    <2>3. rest # <<>>
      BY <1>4, <1>6
    <2> QED
      BY <2>2, <2>3
  <1>8. /\ Strip(rest, Whitespace) # <<>>
        /\ NumberOf(Strip(rest, Whitespace)) = NumberOf(rest)
        /\ \A k \in 1..(N - 1) : rest[k] \in Digits \cup Whitespace
        /\ \A k \in 1..(N - 1) : rest[k] \notin Digits =>
              \A j \in 1..k : rest[j] \notin Digits
    BY <1>2, <1>4, <1>7, StrippedNumber
  <1> DEFINE shifted(k) == IF k < p THEN k ELSE k - 1
  <1>9. ASSUME NEW k \in 1..N, k # p
        PROVE  shifted(k) \in 1..(N - 1) /\ rest[shifted(k)] = text[k]
    <2>1. CASE k < p
      <3>1. k \in 1..(p - 1) /\ k \in 1..(N - 1)
        BY <1>1, <2>1
      <3> QED
        BY <1>4, <2>1, <3>1
    <2>2. CASE ~(k < p)
      <3>1. k - 1 \in p..(N - 1) /\ k - 1 \in 1..(N - 1) /\ k - 1 + 1 = k
        BY <1>1, <1>9, <2>2
      <3> QED
        BY <1>4, <2>2, <3>1
    <2> QED
      BY <2>1, <2>2
  <1>10. \A k, j \in 1..N : k # p /\ j # p /\ j <= k => shifted(j) <= shifted(k)
    BY <1>1
  <1> HIDE DEF shifted
  <1>11. ASSUME NEW k \in 1..N, text[k] \notin Digits \cup {Point}, NEW j \in 1..k
         PROVE  text[j] \notin NonZero
    <2>1. k # p /\ j \in 1..N /\ j <= k
      BY <1>1, <1>11
    <2>2. CASE j = p
      BY <1>1, <2>2 DEF NonZero, Point
    <2>3. CASE j # p
      <3>1. /\ shifted(k) \in 1..(N - 1) /\ rest[shifted(k)] = text[k]
            /\ shifted(j) \in 1..(N - 1) /\ rest[shifted(j)] = text[j]
        BY <1>9, <2>1, <2>3
      <3>2. shifted(j) <= shifted(k)
        BY <1>10, <2>1, <2>3
      <3>3. shifted(j) \in 1..shifted(k)
        BY <1>1, <3>1, <3>2
      <3>4. text[j] \notin Digits
        BY <1>8, <1>11, <3>1, <3>3
      <3> QED
        BY <3>4 DEF NonZero, Digits
    <2> QED
      BY <2>2, <2>3
  <1>12. InColumns(text)
    BY <1>11 DEF InColumns, N
  <1>13. text[1] # Minus
    <2>1. CASE p = 1
      BY <1>1, <2>1 DEF Point, Minus
    <2>2. CASE p # 1
      <3>1. 1 \in 1..N
        BY <1>1
      <3>2. text[1] \in Digits \cup Whitespace
        BY <1>8, <1>9, <2>2, <3>1
      <3> QED
        BY <3>2, BytesApart
    <2> QED
      BY <2>1, <2>2
  <1> QED
    BY <1>2, <1>4, <1>8, <1>12, <1>13, DigitsSumUp

\* With a sign: nothing behind it, or digits up to the end.
LEMMA SignedIs ==
    ASSUME NEW fld, NEW text \in Seq(Nat), EndsInDigit(text), SignBytes(fld) = 1,
           ~HasPoint(fld, text), SignAccepted(fld, text),
           AllDigits(Strip(DigitsOf(fld, text), Whitespace))
    PROVE  LET digits == Strip(DigitsOf(fld, text), Whitespace)
           IN  /\ digits = <<>> => Len(text) = 1 /\ Positional(text) = 0
               /\ digits # <<>> => (IF text[1] = Minus THEN -NumberOf(digits)
                                    ELSE NumberOf(digits)) = Positional(text)
  <1> DEFINE N == Len(text)
             rest == Tail(text)
  <1>1. N \in Nat /\ N >= 1 /\ text[N] \notin Whitespace
    BY EndsSolid
  <1>2. text[1] \in {Blank, Plus, Zero, Minus}
    BY DEF SignAccepted
  <1>3. DigitsOf(fld, text) = rest
    BY DEF DigitsOf
  <1>4. text[1] \notin NonZero
    BY <1>2 DEF Blank, Plus, Zero, Minus, NonZero
  <1>5. /\ rest = SubSeq(text, 2, N) /\ rest \in Seq(Nat) /\ Len(rest) = N - 1
        /\ \A k \in 1..(N - 1) : rest[k] = text[k + 1]
    BY <1>1
  <1> HIDE DEF rest
  <1>6. CASE N = 1
    <2>1. rest = <<>> /\ Strip(rest, Whitespace) = <<>>
      <3>1. rest = <<>> /\ DOMAIN rest = {}
        BY <1>5, <1>6
      <3> QED
        BY <3>1 DEF Strip
    <2>2. text[1] \in Digits
      <3>1. \E k \in 1..N : text[k] \in Digits
        BY EndsSolid
      <3> QED
        BY <1>6, <3>1
    <2>3. text[1] # Minus
      BY <2>2 DEF Digits, Minus
    <2>4. InColumns(text)
      BY <1>6, <2>2 DEF InColumns
    <2>5. NumberOf(text) = 0
      <3>1. PICK v : IsReading(v, text) /\ NumberOf(text) = v[N]
        BY NumberIs
      <3>2. N \in 0..N /\ \A k \in 1..N : text[k] \notin NonZero
        BY <1>1, <1>4, <1>6
      <3> QED
        BY <3>1, <3>2, ReadsNothing
    <2> QED
      BY <1>3, <1>6, <2>1, <2>3, <2>4, <2>5, DigitsSumUp
  <1>7. CASE N # 1
    <2> HIDE DEF N
    <2>1. N - 1 >= 1 /\ N - 1 \in 1..(N - 1) /\ N - 1 + 1 = N
      BY <1>1, <1>7
    <2>2. rest # <<>> /\ rest[N - 1] \notin Whitespace
      <3>1. rest[N - 1] = text[N]
        BY <1>5, <2>1
      <3>2. rest # <<>>
        <4>1. Len(rest) # 0
          BY <1>5, <2>1
        <4> QED
          BY <4>1
      <3> QED
        BY <1>1, <3>1, <3>2
    <2> USE DEF N
    <2>3. /\ Strip(rest, Whitespace) # <<>>
          /\ NumberOf(Strip(rest, Whitespace)) = NumberOf(rest)
          /\ \A k \in 1..(N - 1) : rest[k] \notin Digits =>
                \A j \in 1..k : rest[j] \notin Digits
      BY <1>3, <1>5, <2>2, StrippedNumber
    <2>4. NumberOf(rest) = NumberOf(text)
      <3>1. 2 \in 1..(N + 1) /\ \A k \in 1..(2 - 1) : text[k] \notin NonZero
        BY <1>1, <1>4, <1>7
      <3> QED
        BY <1>5, <3>1, NumberOfTail
    <2>5. InColumns(text)
      <3>1. ASSUME NEW k \in 1..N, text[k] \notin Digits \cup {Point}, NEW j \in 1..k
            PROVE  text[j] \notin NonZero
        <4>1. CASE j = 1
          BY <1>4, <4>1
        <4>2. CASE j # 1
          <5>1. /\ k - 1 \in 1..(N - 1) /\ k - 1 + 1 = k
                /\ j - 1 \in 1..(k - 1) /\ j - 1 \in 1..(N - 1) /\ j - 1 + 1 = j
            BY <1>1, <4>2
          <5>2. rest[k - 1] = text[k] /\ rest[j - 1] = text[j]
            BY <1>5, <5>1
          <5>3. text[j] \notin Digits
            BY <2>3, <3>1, <5>1, <5>2
          <5> QED
            BY <5>3 DEF NonZero, Digits
        <4> QED
          BY <4>1, <4>2
      <3> QED
        BY <3>1 DEF InColumns
    <2> QED
      BY <1>3, <2>3, <2>4, <2>5, DigitsSumUp
  <1> QED
    BY <1>6, <1>7

\* A number that fills its field up to its right end is decoded to what its
\* columns spell, with the scale the schema gives it.
LEMMA DecodesColumns ==
    ASSUME NEW fld, Measures(fld), FieldAccepted(fld), fld.digits # <<>>,
           NEW text \in Seq(Nat), Len(text) = fld.length,
           DecodeNumeric(fld, text).status = "ok", EndsInDigit(text)
    PROVE  /\ DecodeNumeric(fld, text).value.number = Positional(text)
           /\ DecodeNumeric(fld, text).value.scale = fld.digits[2]
  <1> DEFINE digits == Strip(DigitsOf(fld, text), Whitespace)
             value == DecodeNumeric(fld, text).value
             number == IF IsNegative(fld, text) THEN -NumberOf(digits) ELSE NumberOf(digits)
  <1>1. Error.status # "ok" /\ Raises.status # "ok"
    BY DEF Error, Raises
  <1>2. SignAccepted(fld, text) /\ (digits # <<>> => AllDigits(digits))
    BY <1>1 DEF DecodeNumeric
  <1>3. AllDigits(digits)
    BY <1>2 DEF AllDigits
  <1>4. /\ digits = <<>> => value.number = 0 /\ value.scale = 0
        /\ digits # <<>> => value.number = number /\ value.scale = fld.digits[2]
    <2>1. DecodeNumeric(fld, text) = IF digits = <<>> THEN Ok(Decimal(0, 0))
                                     ELSE Ok(Decimal(number, fld.digits[2]))
      BY <1>1, <1>2 DEF DecodeNumeric, NumberPadded
    <2>2. \A n, scale : /\ Ok(Decimal(n, scale)).value.number = n
                        /\ Ok(Decimal(n, scale)).value.scale = scale
      BY DEF Ok, Decimal, Value
    <2> QED
      BY <2>1, <2>2
  <1> HIDE DEF value
  <1>5. fld.digits[1] \in Nat /\ fld.digits[2] \in Nat /\ fld.length \in Nat
    BY DEF Measures
  <1>6. SignBytes(fld) = fld.length - fld.digits[1] - fld.digits[2]
    BY DEF SignBytes
  <1> HIDE DEF digits, number
  <1>7. CASE SignBytes(fld) # 1
    <2>1. ~IsNegative(fld, text)
      BY <1>7 DEF IsNegative
    <2> QED
      BY <1>3, <1>4, <1>7, <2>1, UnsignedIs DEF digits, number, value
  <1>8. CASE HasPoint(fld, text)
    <2>1. ~IsNegative(fld, text)
      BY <1>8 DEF IsNegative
    <2> QED
      BY <1>3, <1>4, <1>5, <1>8, <2>1, PointedIs DEF digits, number, value
  <1>9. CASE SignBytes(fld) = 1 /\ ~HasPoint(fld, text)
    <2>1. IsNegative(fld, text) <=> text[1] = Minus
      BY <1>9 DEF IsNegative
    <2>2. /\ digits = <<>> => Len(text) = 1 /\ Positional(text) = 0
          /\ digits # <<>> => (IF text[1] = Minus THEN -NumberOf(digits)
                               ELSE NumberOf(digits)) = Positional(text)
      BY <1>2, <1>3, <1>9, SignedIs DEF digits
    <2>3. digits = <<>> => fld.digits[2] = 0
      <3>1. digits = <<>> => 1 = 1 - fld.digits[1] - fld.digits[2]
        BY <1>6, <1>9, <2>2
      <3> QED
        BY <1>5, <3>1
    <2> QED
      BY <1>4, <2>1, <2>2, <2>3 DEF number, value
  <1> QED
    BY <1>7, <1>8, <1>9

-----------------------------------------------------------------------------
(* What a record that was parsed holds.                                    *)

\* The fields of a slot, and where it stands.
LEMMA SlotIs ==
    ASSUME NEW t, Ordinary(t), Accepted(t), NEW s \in Slots(t)
    PROVE  /\ s.item \in DOMAIN t.layout /\ s.from \in Nat /\ s.to \in Nat
           /\ LET item == t.layout[s.item]
                  offset == Offsets(t.layout)[s.item]
              IN  \/ /\ item.kind = "field" /\ s.element = 0 /\ s.field = 0
                     /\ s = Slot(s.item, 0, 0, offset, item.length)
                  \/ /\ item.kind = "array" /\ s.element \in Nat \ {0} /\ s.field \in Nat \ {0}
                     /\ s.field \in DOMAIN item.fields
                     /\ s = Slot(s.item, s.element, s.field,
                                 offset + (s.element - 1) * ElementLength(item)
                                        + Starts(FieldLengths(item.fields))[s.field],
                                 item.fields[s.field].length)
  <1>1. PICK k \in DOMAIN t.layout : s \in ItemSlots(k, t.layout[k], Offsets(t.layout)[k])
    BY DEF Slots
  <1> DEFINE item == t.layout[k]
             offset == Offsets(t.layout)[k]
  <1>2. MeasuredText(t) /\ MeasuredItem(item)
    BY OrdinaryIsMeasured DEF MeasuredText
  <1>3. offset \in Nat
    <2>1. /\ DOMAIN t.layout = 1..Len(t.layout) /\ Len(t.layout) \in Nat
          /\ ItemLengths(t) \in Seq(Nat) /\ Len(ItemLengths(t)) = Len(t.layout)
          /\ Offsets(t.layout) = Starts(ItemLengths(t))
      BY <1>2, OffsetsAre
    <2>2. Starts(ItemLengths(t)) \in [1..(Len(t.layout) + 1) -> Nat]
      BY <2>1, StartsAre
    <2>3. k \in 1..(Len(t.layout) + 1)
      BY <2>1
    <2> QED
      BY <2>1, <2>2, <2>3
  <1>4. s.item = k /\ s.from \in Nat /\ s.to \in Nat
    <2> HIDE DEF item, offset
    <2> QED
      BY <1>1, <1>2, <1>3, ItemSlotsInside DEF item, offset
  <1>5. CASE item.kind = "field"
    <2>1. s = Slot(k, 0, 0, offset, item.length)
      BY <1>1, <1>5 DEF ItemSlots
    <2> QED
      BY <1>4, <1>5, <2>1 DEF Slot
  <1>6. CASE item.kind # "field"
    <2>1. item.kind = "array" /\ item.count \in Nat /\ DOMAIN item.fields = 1..Len(item.fields)
      BY <1>2, <1>6, FieldLengthsAre DEF MeasuredItem
    <2>2. PICK e \in 1..item.count, f \in DOMAIN item.fields :
             s = Slot(k, e, f,
                      offset + (e - 1) * ElementLength(item)
                             + Starts(FieldLengths(item.fields))[f],
                      item.fields[f].length)
      BY <1>1, <1>6 DEF ItemSlots
    <2>3. s.element = e /\ s.field = f
      BY <2>2 DEF Slot
    <2>4. e \in Nat \ {0} /\ f \in Nat \ {0}
      BY <2>1
    <2> QED
      BY <1>4, <2>1, <2>2, <2>3, <2>4
  <1> QED
    BY <1>5, <1>6

\* A slot's field has a length and digits as they should be.
LEMMA SlotMeasures ==
    ASSUME NEW t, Ordinary(t), Accepted(t), NEW s \in Slots(t)
    PROVE  Measures(FieldOf(t, s)) /\ FieldAccepted(FieldOf(t, s))
  <1> DEFINE item == t.layout[s.item]
  <1>1. /\ s.item \in DOMAIN t.layout
        /\ \/ item.kind = "field" /\ s.field = 0
           \/ item.kind = "array" /\ s.field \in Nat \ {0} /\ s.field \in DOMAIN item.fields
    BY SlotIs
  <1>2. ItemAccepted(item)
    BY <1>1 DEF Accepted
  <1>3. CASE item.kind = "field" /\ s.field = 0
    <2>1. FieldOf(t, s) = item
      BY <1>3 DEF FieldOf
    <2> QED
      BY <1>1, <1>2, <1>3, <2>1 DEF Ordinary, ItemAccepted
  <1>4. CASE item.kind = "array" /\ s.field \in Nat \ {0} /\ s.field \in DOMAIN item.fields
    <2>1. FieldOf(t, s) = item.fields[s.field]
      BY <1>4 DEF FieldOf
    <2> QED
      BY <1>1, <1>2, <1>4, <2>1 DEF Ordinary, ItemAccepted
  <1> QED
    BY <1>1, <1>3, <1>4

\* No two slots have their values at the same place.
LEMMA PlacesApart ==
    ASSUME NEW t, Ordinary(t), Accepted(t), NEW r \in Slots(t), NEW s \in Slots(t),
           Place(t, r) = Place(t, s)
    PROVE  r = s
  <1> DEFINE i == t.layout[r.item]
             j == t.layout[s.item]
  <1>1. /\ r.element = s.element
        /\ FieldOf(t, r).name = FieldOf(t, s).name
        /\ (IF r.field = 0 THEN "" ELSE i.name) = (IF s.field = 0 THEN "" ELSE j.name)
    BY DEF Place
  <1>2. /\ r.item \in DOMAIN t.layout
        /\ \/ /\ i.kind = "field" /\ r.element = 0 /\ r.field = 0
              /\ r = Slot(r.item, 0, 0, Offsets(t.layout)[r.item], i.length)
           \/ /\ i.kind = "array" /\ r.element \in Nat \ {0} /\ r.field \in Nat \ {0}
              /\ r.field \in DOMAIN i.fields
              /\ r = Slot(r.item, r.element, r.field,
                          Offsets(t.layout)[r.item] + (r.element - 1) * ElementLength(i)
                              + Starts(FieldLengths(i.fields))[r.field],
                          i.fields[r.field].length)
    BY SlotIs
  <1>3. /\ s.item \in DOMAIN t.layout
        /\ \/ /\ j.kind = "field" /\ s.element = 0 /\ s.field = 0
              /\ s = Slot(s.item, 0, 0, Offsets(t.layout)[s.item], j.length)
           \/ /\ j.kind = "array" /\ s.element \in Nat \ {0} /\ s.field \in Nat \ {0}
              /\ s.field \in DOMAIN j.fields
              /\ s = Slot(s.item, s.element, s.field,
                          Offsets(t.layout)[s.item] + (s.element - 1) * ElementLength(j)
                              + Starts(FieldLengths(j.fields))[s.field],
                          j.fields[s.field].length)
    BY SlotIs
  <1>4. ASSUME i.name = j.name, i.kind \in {"field", "array"}, j.kind \in {"field", "array"}
        PROVE  r.item = s.item
    BY <1>2, <1>3, <1>4 DEF Ordinary
  <1>5. CASE r.element = 0
    <2>1. /\ i.kind = "field" /\ r.field = 0 /\ j.kind = "field" /\ s.field = 0
          /\ r = Slot(r.item, 0, 0, Offsets(t.layout)[r.item], i.length)
          /\ s = Slot(s.item, 0, 0, Offsets(t.layout)[s.item], j.length)
      BY <1>1, <1>2, <1>3, <1>5
    <2>2. i.name = j.name
      BY <1>1, <2>1 DEF FieldOf
    <2>3. r.item = s.item
      BY <1>4, <2>1, <2>2
    <2> QED
      BY <2>1, <2>3
  <1>6. CASE r.element # 0
    <2>1. /\ i.kind = "array" /\ j.kind = "array" /\ r.field # 0 /\ s.field # 0
          /\ r.field \in DOMAIN i.fields /\ s.field \in DOMAIN j.fields
      BY <1>1, <1>2, <1>3, <1>6
    <2>2. r.item = s.item
      BY <1>1, <1>4, <2>1
    <2>3. i.fields[r.field].name = i.fields[s.field].name
      BY <1>1, <2>1, <2>2 DEF FieldOf
    <2>4. r.field = s.field
      BY <1>2, <2>1, <2>2, <2>3 DEF Ordinary
    <2> QED
      BY <1>1, <1>2, <1>3, <1>6, <2>2, <2>4
  <1> QED
    BY <1>5, <1>6

\* The value at a slot's place is what the slot decodes to.
LEMMA BodyHolds ==
    ASSUME NEW t, Ordinary(t), Accepted(t), NEW raw, NEW s \in Slots(t)
    PROVE  BodyOf(t, raw)[Place(t, s)] = DecodeSlot(t, raw, s).value
  <1> DEFINE q == CHOOSE q \in Slots(t) : Place(t, q) = Place(t, s)
  <1>1. q \in Slots(t) /\ Place(t, q) = Place(t, s)
    OBVIOUS
  <1>2. BodyOf(t, raw)[Place(t, s)] = DecodeSlot(t, raw, q).value
    BY DEF BodyOf
  <1> HIDE DEF q
  <1>3. q = s
    BY <1>1, PlacesApart
  <1> QED
    BY <1>2, <1>3

\* A record that is parsed has no slot that fails.
LEMMA ParsedDecodes ==
    ASSUME NEW t, NEW raw, ParseStatus(t, raw) = "parsed"
    PROVE  \A s \in Slots(t) : DecodeSlot(t, raw, s).status = "ok"
  <1> DEFINE bad == Failures(t, raw)
             first == CHOOSE s \in bad : \A r \in bad : r = s \/ Earlier(s, r)
  <1>1. \A x : DecodeSlot(t, raw, x).status \in {"ok", "error", "raises"}
    <2>1. \A v : Ok(v).status = "ok" /\ Error.status = "error" /\ Raises.status = "raises"
      BY DEF Ok, Error, Raises
    <2>2. \A fld, chunk : DecodeNumeric(fld, chunk).status \in {"ok", "error", "raises"}
      BY <2>1 DEF DecodeNumeric
    <2>3. \A chunk : DecodeLong(chunk).status \in {"ok", "error", "raises"}
      BY <2>1 DEF DecodeLong
    <2>4. \A chunk, encoding : DecodeString(chunk, encoding).status \in {"ok", "error", "raises"}
      BY <2>1 DEF DecodeString
    <2>5. \A fld, encoding, chunk :
             DecodeChunk(fld, encoding, chunk).status \in {"ok", "error", "raises"}
      BY <2>1, <2>2, <2>3, <2>4 DEF DecodeChunk
    <2> QED
      BY <2>5 DEF DecodeSlot
  <1>2. bad # {} => ParseStatus(t, raw) \in {"error", DecodeSlot(t, raw, first).status}
    BY DEF ParseStatus
  <1>3. bad = {}
    <2>1. DecodeSlot(t, raw, first).status # "parsed"
      BY <1>1
    <2> HIDE DEF first, bad
    <2> QED
      BY <1>2, <2>1
  <1> QED
    BY <1>3 DEF Failures

\* A number of a parsed record that fills its field up to its right end.
LEMMA ParsedColumns ==
    ASSUME NEW t, Ordinary(t), Accepted(t), NEW raw \in Seq(Nat),
           ParseStatus(t, raw) = "parsed", NEW s \in NumericSlots(t),
           EndsInDigit(Slice(raw, s.from, s.to))
    PROVE  LET chunk == Slice(raw, s.from, s.to)
               v == BodyOf(t, raw)[Place(t, s)]
           IN  v.number = Positional(chunk) /\ v.scale = FieldOf(t, s).digits[2]
  <1> DEFINE chunk == Slice(raw, s.from, s.to)
             fld == FieldOf(t, s)
  <1>1. s \in Slots(t) /\ fld.digits # <<>>
    BY DEF NumericSlots
  <1>2. s.from \in Nat /\ s.to \in Nat
    BY <1>1, SlotIs
  <1>3. Measures(fld) /\ FieldAccepted(fld)
    BY <1>1, SlotMeasures
  <1>4. chunk \in Seq(Nat)
    <2> DEFINE to == IF s.to <= Len(raw) THEN s.to ELSE Len(raw)
    <2>1. Len(raw) \in Nat /\ \A k \in 1..Len(raw) : raw[k] \in Nat
      OBVIOUS
    <2>2. to \in Nat /\ to <= Len(raw)
      BY <1>2, <2>1
    <2>3. chunk = SubSeq(raw, s.from + 1, to)
      BY DEF Slice
    <2> HIDE DEF to, chunk
    <2> QED
      BY <1>2, <2>1, <2>2, <2>3
  <1> HIDE DEF chunk, fld
  <1>5. DecodeSlot(t, raw, s) = DecodeChunk(fld, t.encoding, chunk)
    BY DEF DecodeSlot, fld, chunk
  <1>6. DecodeChunk(fld, t.encoding, chunk).status = "ok"
    BY <1>1, <1>5, ParsedDecodes
  <1>7. /\ Len(chunk) = fld.length
        /\ DecodeChunk(fld, t.encoding, chunk) = DecodeNumeric(fld, chunk)
    <2>1. Error.status # "ok"
      BY DEF Error
    <2> QED
      BY <1>1, <1>6, <2>1 DEF DecodeChunk
  <1>8. EndsInDigit(chunk)
    BY DEF chunk
  <1>9. /\ DecodeNumeric(fld, chunk).value.number = Positional(chunk)
        /\ DecodeNumeric(fld, chunk).value.scale = fld.digits[2]
    BY <1>1, <1>3, <1>4, <1>6, <1>7, <1>8, DecodesColumns
  <1>10. BodyOf(t, raw)[Place(t, s)] = DecodeNumeric(fld, chunk).value
    BY <1>1, <1>5, <1>7, BodyHolds
  <1> QED
    BY <1>9, <1>10 DEF chunk, fld

-----------------------------------------------------------------------------
(* The numeral of a number is read as that number.                         *)

\* Quotient and remainder.
LEMMA Quotients ==
    ASSUME NEW n \in Nat, NEW d \in Nat, d > 0
    PROVE  /\ n \div d \in Nat /\ n % d \in Nat /\ n % d < d
           /\ (n \div d) * d <= n /\ n < ((n \div d) + 1) * d
           /\ n = (n \div d) * d + (n % d)
  OBVIOUS

\* There is one quotient.
LEMMA OneQuotient ==
    ASSUME NEW n \in Nat, NEW d \in Nat, d > 0, NEW q \in Nat, q * d <= n, n < (q + 1) * d
    PROVE  n \div d = q
  <1>1. \A r \in Nat : r * d <= n /\ n < (r + 1) * d => q = r
    OBVIOUS
  <1> QED
    BY <1>1, Quotients

\* One digit more of a number.
LEMMA NextDigit ==
    ASSUME NEW n \in Nat, NEW d \in Nat, d > 0
    PROVE  /\ n \div d = 10 * (n \div (10 * d)) + ((n \div d) % 10)
           /\ (n \div d) % 10 \in 0..9
  <1> DEFINE q == n \div d
             a == q \div 10
             b == q % 10
  <1>1. q \in Nat /\ q * d <= n /\ n < (q + 1) * d
    BY Quotients
  <1> HIDE DEF q
  <1>2. a \in Nat /\ b \in 0..9 /\ q = 10 * a + b
    BY <1>1
  <1> HIDE DEF a, b
  <1>3. 10 * d \in Nat /\ 10 * d > 0
    OBVIOUS
  <1>4. a * (10 * d) <= n
    <2>1. a * (10 * d) = (10 * a) * d
      BY <1>2
    <2>2. (10 * a) * d <= q * d
      BY <1>1, <1>2
    <2>3. a * (10 * d) \in Nat /\ q * d \in Nat
      BY <1>1, <1>2
    <2> QED
      BY <1>1, <2>1, <2>2, <2>3
  <1>5. n < (a + 1) * (10 * d)
    <2>1. (a + 1) * (10 * d) = (10 * a + 10) * d
      BY <1>2
    <2>2. (q + 1) * d <= (10 * a + 10) * d
      BY <1>1, <1>2
    <2>3. (a + 1) * (10 * d) \in Nat /\ (q + 1) * d \in Nat
      BY <1>1, <1>2
    <2> QED
      BY <1>1, <2>1, <2>2, <2>3
  <1>6. n \div (10 * d) = a
    BY <1>2, <1>3, <1>4, <1>5, OneQuotient
  <1> QED
    BY <1>2, <1>6 DEF q, b

\* Powers of ten are not zero.
LEMMA TenToPositive == \A n \in Nat : TenTo(n) \in Nat /\ TenTo(n) > 0 /\ TenTo(n) > n
  <1> DEFINE S == {n \in Nat : TenTo(n) > n}
  <1>1. 0 \in S
    BY TenToIs
  <1>2. ASSUME NEW n \in Nat, n \in S
        PROVE  n + 1 \in S
    <2>1. TenTo(n) \in Nat /\ TenTo(n + 1) = 10 * TenTo(n) /\ TenTo(n) > n
      BY <1>2, TenToIs
    <2> QED
      BY <2>1
  <1>3. Nat \subseteq S
    <2> HIDE DEF S
    <2> QED
      BY <1>1, <1>2, SetInduction
  <1>4. \A n \in Nat : TenTo(n) \in Nat /\ TenTo(n) > n
    BY <1>3, TenToIs
  <1> QED
    BY <1>4

\* A numeral is made of digits.
LEMMA NumeralIs ==
    ASSUME NEW n \in Nat, NEW w \in Nat
    PROVE  /\ Numeral(n, w) \in Seq(Nat) /\ Len(Numeral(n, w)) = w
           /\ \A j \in 1..w : /\ Numeral(n, w)[j] = Zero + ((n \div TenTo(w - j)) % 10)
                              /\ Numeral(n, w)[j] \in Digits
                              /\ Numeral(n, w)[j] - Zero = (n \div TenTo(w - j)) % 10
  <1>1. ASSUME NEW j \in 1..w
        PROVE  (n \div TenTo(w - j)) % 10 \in 0..9
    <2>1. w - j \in Nat
      OBVIOUS
    <2>2. TenTo(w - j) \in Nat /\ TenTo(w - j) > 0
      BY <2>1, TenToPositive
    <2> QED
      BY <2>2, NextDigit
  <1>2. \A x : x \in 0..9 => Zero + x \in Digits /\ Zero + x \in Nat /\ (Zero + x) - Zero = x
    BY DEF Zero, Digits
  <1> DEFINE text == Numeral(n, w)
  <1>3. text = [j \in 1..w |-> Zero + ((n \div TenTo(w - j)) % 10)]
    BY DEF Numeral
  <1>4. \A j \in 1..w : text[j] = Zero + ((n \div TenTo(w - j)) % 10)
    BY <1>3
  <1>5. \A j \in 1..w : text[j] \in Nat
    BY <1>1, <1>2, <1>4
  <1>6. text \in [1..w -> Nat]
    BY <1>3, <1>5
  <1> HIDE DEF text
  <1>7. text \in Seq(Nat) /\ Len(text) = w
    BY <1>6
  <1> QED
    BY <1>1, <1>2, <1>4, <1>7 DEF text

\* The width of a number holds it.
LEMMA WidthIs ==
    ASSUME NEW n \in Nat
    PROVE  Width(n) \in Nat \ {0} /\ n < TenTo(Width(n))
  <1> DEFINE Wide == {w \in 1..(n + 1) : n < TenTo(w)}
  <1>1. n + 1 \in Wide
    <2>1. n + 1 \in Nat
      OBVIOUS
    <2>2. TenTo(n + 1) \in Nat /\ TenTo(n + 1) > n + 1
      BY <2>1, TenToPositive
    <2> QED
      BY <2>2
  <1>2. PICK w \in Wide : \A v \in Wide : w <= v
    <2>1. Wide \in SUBSET Nat
      OBVIOUS
    <2> HIDE DEF Wide
    <2> QED
      BY <1>1, <2>1, LeastNumber
  <1>3. w \in 1..(n + 1) /\ n < TenTo(w)
    OBVIOUS
  <1>4. \A v \in 1..(w - 1) : TenTo(v) <= n
    <2>1. ASSUME NEW v \in 1..(w - 1), ~(TenTo(v) <= n)
          PROVE  FALSE
      <3>1. v \in Nat /\ v \in 1..(n + 1) /\ v < w
        BY <1>3
      <3>2. TenTo(v) \in Nat
        BY <3>1, TenToPositive
      <3>3. n < TenTo(v)
        BY <2>1, <3>2
      <3>4. v \in Wide
        BY <3>1, <3>3
      <3> HIDE DEF Wide
      <3> QED
        BY <1>2, <1>3, <3>1, <3>4
    <2> QED
      BY <2>1
  <1>5. \E u \in 1..(n + 1) : n < TenTo(u) /\ \A v \in 1..(u - 1) : TenTo(v) <= n
    BY <1>3, <1>4
  <1>6. Width(n) \in 1..(n + 1) /\ n < TenTo(Width(n))
    BY <1>5 DEF Width
  <1> QED
    BY <1>6

\* Reading a numeral that stands behind other bytes shifts what they spell by
\* its width and adds its number.
LEMMA ReadsNumeral ==
    ASSUME NEW text \in Seq(Nat), NEW v, IsReading(v, text),
           NEW m \in Nat, NEW w \in Nat, m + w <= Len(text),
           NEW n \in Nat, n < TenTo(w),
           \A j \in 1..w : text[m + j] = Numeral(n, w)[j]
    PROVE  v[m + w] = v[m] * TenTo(w) + n
  <1> DEFINE N == Len(text)
             Rest(j) == n \div TenTo(w - j)
             f == [j \in 0..w |-> v[m + j]]
             g == [j \in 0..w |-> v[m] * TenTo(j) + Rest(j)]
  <1>1. N \in Nat /\ m + w <= N
    OBVIOUS
  <1>2. /\ v \in [0..N -> Nat]
        /\ \A k \in 1..N : v[k] = IF text[k] \in Digits
                                  THEN 10 * v[k - 1] + (text[k] - Zero) ELSE v[k - 1]
    BY DEF IsReading
  <1> HIDE DEF N
  <1>3. v[m] \in Nat
    <2>1. m \in 0..N
      BY <1>1
    <2> QED
      BY <1>2, <2>1
  <1>4. ASSUME NEW j \in 0..w
        PROVE  Rest(j) \in Nat
    <2>1. w - j \in Nat
      OBVIOUS
    <2>2. TenTo(w - j) \in Nat /\ TenTo(w - j) > 0
      BY <2>1, TenToPositive
    <2> QED
      BY <2>2, Quotients
  <1>5. Rest(0) = 0
    <2>1. TenTo(w) \in Nat /\ TenTo(w) > 0
      BY TenToPositive
    <2>2. 0 * TenTo(w) <= n /\ n < (0 + 1) * TenTo(w)
      BY <2>1
    <2>3. n \div TenTo(w) = 0
      BY <2>1, <2>2, OneQuotient
    <2> QED
      BY <2>3
  <1>6. Rest(w) = n
    <2>1. TenTo(w - w) = 1
      BY TenToIs
    <2> QED
      BY <2>1
  <1>7. ASSUME NEW j \in 1..w
        PROVE  /\ Rest(j) = 10 * Rest(j - 1) + (text[m + j] - Zero)
               /\ text[m + j] \in Digits
    <2>1. w - j \in Nat /\ w - (j - 1) = (w - j) + 1
      OBVIOUS
    <2>2. TenTo(w - j) \in Nat /\ TenTo(w - j) > 0 /\ TenTo(w - (j - 1)) = 10 * TenTo(w - j)
      BY <2>1, TenToIs, TenToPositive
    <2>3. Rest(j) = 10 * Rest(j - 1) + ((n \div TenTo(w - j)) % 10)
      BY <2>2, NextDigit
    <2>4. text[m + j] - Zero = (n \div TenTo(w - j)) % 10 /\ text[m + j] \in Digits
      <3>1. text[m + j] = Numeral(n, w)[j]
        OBVIOUS
      <3>2. /\ Numeral(n, w)[j] - Zero = (n \div TenTo(w - j)) % 10
            /\ Numeral(n, w)[j] \in Digits
        BY NumeralIs
      <3> QED
        BY <3>1, <3>2
    <2> HIDE DEF Rest
    <2> QED
      BY <2>3, <2>4
  <1> HIDE DEF Rest
  <1>8. f[0] = g[0]
    <2>1. f[0] = v[m]
      <3>1. 0 \in 0..w /\ m + 0 = m
        OBVIOUS
      <3> QED
        BY <3>1
    <2>2. g[0] = v[m] * 1 + 0
      <3>1. 0 \in 0..w
        OBVIOUS
      <3> QED
        BY <1>5, <3>1, TenToIs
    <2>3. v[m] * 1 + 0 = v[m]
      BY <1>3
    <2> HIDE DEF f, g
    <2> QED
      BY <2>1, <2>2, <2>3
  <1>9. ASSUME NEW j \in 1..w, f[j - 1] = g[j - 1]
        PROVE  f[j] = g[j]
    <2>1. j \in 0..w /\ j - 1 \in 0..w /\ j - 1 \in Nat /\ (j - 1) + 1 = j
      OBVIOUS
    <2>2. m + j \in 1..N /\ (m + j) - 1 = m + (j - 1)
      BY <1>1
    <2> DEFINE a == v[m]
               q == TenTo(j - 1)
               r == Rest(j - 1)
               d == text[m + j] - Zero
    <2>3. v[m + j] = 10 * v[m + (j - 1)] + d
      BY <1>2, <1>7, <2>2
    <2>4. v[m + (j - 1)] = a * q + r
      BY <1>9, <2>1
    <2>5. q \in Nat /\ TenTo(j) = 10 * q
      BY <2>1, TenToIs
    <2>6. Rest(j) = 10 * r + d
      BY <1>7
    <2>7. r \in Nat /\ d \in Int /\ a \in Nat
      <3>1. text[m + j] \in Digits
        BY <1>7
      <3>2. d \in Int
        BY <3>1 DEF Digits, Zero
      <3> QED
        BY <1>3, <1>4, <2>1, <3>2
    <2>8. f[j] = v[m + j] /\ g[j] = a * TenTo(j) + Rest(j)
      BY <2>1
    <2> HIDE DEF a, q, r, d, f, g
    <2>9. 10 * (a * q + r) + d = a * (10 * q) + (10 * r + d)
      BY <2>5, <2>7
    <2> QED
      BY Zenon, <2>3, <2>4, <2>5, <2>6, <2>8, <2>9
  <1>10. f[w] = v[m + w] /\ g[w] = v[m] * TenTo(w) + n
    BY <1>6
  <1> HIDE DEF f, g
  <1>11. Alike(f, g, w)
    <2>1. StepsAlike(f, g, w)
      BY <1>9 DEF StepsAlike
    <2> QED
      BY <1>8, <2>1, StepAlike
  <1>12. f[w] = g[w]
    BY <1>11 DEF Alike
  <1> QED
    BY <1>10, <1>12

\* Digits in two numerals, with a point between them if the second is not empty.
IsPointed(text, n, places, w) ==
    /\ text \in Seq(Nat)
    /\ Len(text) = IF places = 0 THEN w ELSE w + 1 + places
    /\ \A j \in 1..w : text[j] = Numeral(n \div TenTo(places), w)[j]
    /\ places # 0 =>
          /\ text[w + 1] = Point
          /\ \A j \in 1..places : text[w + 1 + j] = Numeral(n % TenTo(places), places)[j]

LEMMA WritesPointed ==
    ASSUME NEW n \in Nat, NEW places \in Nat
    PROVE  \E w \in Nat \ {0} : /\ IsPointed(Pointed(n, places), n, places, w)
                                /\ n \div TenTo(places) < TenTo(w)
  <1> DEFINE a == n \div TenTo(places)
             b == n % TenTo(places)
             w == Width(a)
             l == Numeral(a, w)
             r == <<Point>> \o Numeral(b, places)
  <1>1. a \in Nat /\ b \in Nat
    BY TenToPositive, Quotients
  <1>2. w \in Nat \ {0} /\ a < TenTo(w)
    BY <1>1, WidthIs
  <1>3. l \in Seq(Nat) /\ Len(l) = w
    BY <1>1, <1>2, NumeralIs
  <1>4. Pointed(n, places) = l \o (IF places = 0 THEN <<>> ELSE r)
    BY DEF Pointed
  <1>5. CASE places = 0
    <2>1. <<>> \in Seq(Nat) /\ Len(<<>>) = 0
      OBVIOUS
    <2> HIDE DEF l, w, a
    <2>2. Pointed(n, places) = l \o <<>>
      BY <1>4, <1>5
    <2>3. /\ Pointed(n, places) \in Seq(Nat) /\ Len(Pointed(n, places)) = w
          /\ \A j \in 1..w : Pointed(n, places)[j] = l[j]
      BY <1>2, <1>3, <2>1, <2>2, ConcatIs
    <2>4. IsPointed(Pointed(n, places), n, places, w)
      BY <1>5, <2>3 DEF IsPointed, l, a
    <2> QED
      BY <1>2, <2>4 DEF a
  <1>6. CASE places # 0
    <2> DEFINE d == Numeral(b, places)
    <2>1. d \in Seq(Nat) /\ Len(d) = places
      BY <1>1, NumeralIs
    <2>2. <<Point>> \in Seq(Nat) /\ Len(<<Point>>) = 1 /\ <<Point>>[1] = Point
      BY DEF Point
    <2> HIDE DEF d
    <2>3. /\ r \in Seq(Nat) /\ Len(r) = 1 + places
          /\ r[1] = Point /\ \A j \in 1..places : r[1 + j] = d[j]
      <3>1. /\ r \in Seq(Nat) /\ Len(r) = 1 + places
            /\ \A k \in 1..1 : r[k] = <<Point>>[k]
            /\ \A j \in 1..places : r[1 + j] = d[j]
        BY <2>1, <2>2, ConcatIs DEF d
      <3> HIDE DEF r
      <3> QED
        BY <2>2, <3>1
    <2> HIDE DEF l, w, a, r
    <2>4. Pointed(n, places) = l \o r
      BY <1>4, <1>6
    <2>5. /\ Pointed(n, places) \in Seq(Nat) /\ Len(Pointed(n, places)) = w + (1 + places)
          /\ \A j \in 1..w : Pointed(n, places)[j] = l[j]
          /\ \A k \in 1..(1 + places) : Pointed(n, places)[w + k] = r[k]
      <3>1. /\ l \o r \in Seq(Nat) /\ Len(l \o r) = Len(l) + Len(r)
            /\ \A j \in 1..Len(l) : (l \o r)[j] = l[j]
            /\ \A k \in 1..Len(r) : (l \o r)[Len(l) + k] = r[k]
        BY <1>3, <2>3, ConcatIs
      <3> QED
        BY <1>3, <2>3, <2>4, <3>1
    <2>6. Pointed(n, places)[w + 1] = Point
      <3>1. 1 \in 1..(1 + places)
        OBVIOUS
      <3> QED
        BY <2>3, <2>5, <3>1
    <2>7. ASSUME NEW j \in 1..places
          PROVE  Pointed(n, places)[w + 1 + j] = d[j]
      <3>1. 1 + j \in 1..(1 + places) /\ w + (1 + j) = w + 1 + j
        BY <1>2
      <3> QED
        BY <2>3, <2>5, <3>1
    <2>8. IsPointed(Pointed(n, places), n, places, w)
      <3>1. w + (1 + places) = w + 1 + places
        BY <1>2
      <3> QED
        BY <1>6, <2>5, <2>6, <2>7, <3>1 DEF IsPointed, l, a, d, b
    <2> QED
      BY <1>2, <2>8 DEF a
  <1> QED
    BY <1>5, <1>6

\* The bytes that str() writes for a number, the exponent's mark aside.
NumberBytes == Digits \cup {Point, Minus}

\* What Decimal() makes of such a text.
ReadAs(text, n, places, sign) ==
    /\ text \in Seq(Nat) /\ Len(text) \in Nat \ {0}
    /\ text[1] = Minus <=> sign = <<Minus>>
    /\ \A k \in 1..Len(text) : text[k] \in NumberBytes
    /\ text[Len(text)] \in Digits
    /\ NumberOf(text) = n
    /\ SpellsPointed(text)
    /\ FractionLength(text) = places

\* A text of at most one sign, digits and at most one point is read as what was
\* written.
LEMMA ReadsPointed ==
    ASSUME NEW n \in Nat, NEW places \in Nat, NEW sign \in {<<>>, <<Minus>>}
    PROVE  ReadAs(sign \o Pointed(n, places), n, places, sign)
  <1> DEFINE text == sign \o Pointed(n, places)
             s == Len(sign)
             a == n \div TenTo(places)
             b == n % TenTo(places)
             N == Len(text)
  <1>1. PICK w \in Nat \ {0} : /\ IsPointed(Pointed(n, places), n, places, w)
                               /\ a < TenTo(w)
    BY WritesPointed
  <1>2. /\ a \in Nat /\ b \in Nat /\ b < TenTo(places) /\ n = a * TenTo(places) + b
        /\ TenTo(places) \in Nat
    BY TenToPositive, Quotients
  <1>3. sign \in Seq(Nat) /\ s \in {0, 1} /\ (s = 1 <=> sign = <<Minus>>)
        /\ \A k \in 1..s : sign[k] = Minus
    <2>1. CASE sign = <<>>
      BY <2>1
    <2>2. CASE sign = <<Minus>>
      BY <2>2 DEF Minus
    <2> QED
      BY <2>1, <2>2
  <1>4. /\ text \in Seq(Nat)
        /\ N = IF places = 0 THEN s + w ELSE s + w + 1 + places
        /\ \A k \in 1..s : text[k] = Minus
        /\ \A j \in 1..w : text[s + j] = Numeral(a, w)[j]
        /\ places # 0 =>
              /\ text[s + w + 1] = Point
              /\ \A j \in 1..places : text[s + w + 1 + j] = Numeral(b, places)[j]
    <2> DEFINE p == Pointed(n, places)
    <2>1. /\ p \in Seq(Nat)
          /\ Len(p) = IF places = 0 THEN w ELSE w + 1 + places
          /\ \A j \in 1..w : p[j] = Numeral(a, w)[j]
          /\ places # 0 =>
                /\ p[w + 1] = Point
                /\ \A j \in 1..places : p[w + 1 + j] = Numeral(b, places)[j]
      BY <1>1 DEF IsPointed
    <2> HIDE DEF p, a, b
    <2>2. /\ text \in Seq(Nat) /\ N = s + Len(p)
          /\ \A k \in 1..s : text[k] = sign[k]
          /\ \A k \in 1..Len(p) : text[s + k] = p[k]
      BY <1>3, <2>1, ConcatIs DEF p
    <2> HIDE DEF text, s, N
    <2>3. N = IF places = 0 THEN s + w ELSE s + w + 1 + places
      BY <1>3, <2>1, <2>2
    <2>4. \A k \in 1..s : text[k] = Minus
      BY <1>3, <2>2
    <2>5. \A j \in 1..w : text[s + j] = Numeral(a, w)[j]
      <3>1. \A j \in 1..w : j \in 1..Len(p)
        BY <2>1
      <3> QED
        BY <2>1, <2>2, <3>1
    <2>6. ASSUME places # 0
          PROVE  /\ text[s + w + 1] = Point
                 /\ \A j \in 1..places : text[s + w + 1 + j] = Numeral(b, places)[j]
      <3>1. w + 1 \in 1..Len(p) /\ s + (w + 1) = s + w + 1
        BY <1>3, <2>1, <2>6
      <3>2. ASSUME NEW j \in 1..places
            PROVE  text[s + w + 1 + j] = Numeral(b, places)[j]
        <4>1. w + 1 + j \in 1..Len(p) /\ s + (w + 1 + j) = s + w + 1 + j
          <5>1. Len(p) = w + 1 + places
            BY <2>1, <2>6
          <5> QED
            BY <1>3, <5>1
        <4> QED
          BY <2>1, <2>2, <2>6, <4>1
      <3> QED
        BY <2>1, <2>2, <2>6, <3>1, <3>2
    <2> QED
      BY <2>2, <2>3, <2>4, <2>5, <2>6
  <1> HIDE DEF text, s, a, b, N
  <1>5. N \in Nat /\ s + w \in 1..N
    BY <1>3, <1>4
  <1>6. \A j \in 1..w : text[s + j] \in Digits
    <2>1. w \in Nat
      OBVIOUS
    <2>2. \A j \in 1..w : Numeral(a, w)[j] \in Digits
      BY <1>2, <2>1, NumeralIs
    <2> QED
      BY <1>4, <2>2
  <1>7. places # 0 => \A j \in 1..places : text[s + w + 1 + j] \in Digits
    <2>1. \A j \in 1..places : Numeral(b, places)[j] \in Digits
      BY <1>2, NumeralIs
    <2> QED
      BY <1>4, <2>1
  \* Which byte stands where.
  <1>8. ASSUME NEW k \in 1..N
        PROVE  \/ k <= s /\ text[k] = Minus
               \/ k > s /\ text[k] \in Digits
               \/ places # 0 /\ k = s + w + 1 /\ text[k] = Point
    <2>1. CASE k <= s
      <3>1. k \in 1..s
        BY <1>3, <2>1
      <3> QED
        BY <1>4, <2>1, <3>1
    <2>2. CASE s < k /\ k <= s + w
      <3>1. k - s \in 1..w /\ s + (k - s) = k
        BY <1>3, <2>2
      <3> QED
        BY <1>6, <2>2, <3>1
    <2>3. CASE s + w < k
      <3>1. places # 0 /\ N = s + w + 1 + places
        BY <1>3, <1>4, <2>3
      <3>2. CASE k = s + w + 1
        BY <1>4, <3>1, <3>2
      <3>3. CASE k # s + w + 1
        <4>1. k - (s + w + 1) \in 1..places /\ s + w + 1 + (k - (s + w + 1)) = k /\ k > s
          BY <1>3, <2>3, <3>1, <3>3
        <4> QED
          BY <1>7, <3>1, <4>1
      <3> QED
        BY <3>2, <3>3
    <2> QED
      BY <1>3, <2>1, <2>2, <2>3
  <1>9. Minus \notin Digits /\ Point \notin Digits /\ Minus # Point /\ Minus \notin NonZero
    BY DEF Minus, Point, Digits, NonZero
  <1>10. \A k \in 1..N : text[k] \in NumberBytes
    BY <1>8 DEF NumberBytes
  <1>11. text[N] \in Digits
    <2>1. N \in 1..N /\ N > s /\ (places # 0 => N # s + w + 1)
      BY <1>3, <1>4, <1>5
    <2>2. ~(N <= s)
      BY <1>3, <1>5, <2>1
    <2> QED
      BY <1>8, <2>1, <2>2
  <1>12. text[1] = Minus <=> s = 1
    <2>1. 1 \in 1..N
      BY <1>5
    <2>2. CASE s = 1
      BY <1>4, <2>2
    <2>3. CASE s = 0
      <3>1. text[0 + 1] \in Digits
        BY <1>6, <2>3
      <3> QED
        BY <1>9, <2>3, <3>1
    <2> QED
      BY <1>3, <2>2, <2>3
  <1>13. NumberOf(text) = n
    <2>1. PICK v : IsReading(v, text) /\ NumberOf(text) = v[N]
      BY <1>4, NumberIs DEF N
    <2>2. v[s] = 0
      <3>1. s \in 0..Len(text)
        BY <1>3, <1>5 DEF N
      <3>2. \A k \in 1..s : text[k] \notin NonZero
        BY <1>4, <1>9
      <3> QED
        BY <1>4, <2>1, <3>1, <3>2, ReadsNothing
    <2>3. v[s + w] = a
      <3>1. s \in Nat /\ w \in Nat /\ s + w <= Len(text)
        BY <1>3, <1>5 DEF N
      <3>2. v[s + w] = v[s] * TenTo(w) + a
        BY <1>1, <1>2, <1>4, <2>1, <3>1, ReadsNumeral
      <3>3. 0 * TenTo(w) + a = a
        BY <1>2, <3>1, TenToPositive
      <3> QED
        BY <2>2, <3>2, <3>3
    <2>4. CASE places = 0
      <3>1. N = s + w
        BY <1>4, <2>4
      <3>2. n = a
        BY <1>2, <2>4, TenToIs
      <3> QED
        BY <2>1, <2>3, <3>1, <3>2
    <2>5. CASE places # 0
      <3>1. N = s + w + 1 + places /\ s + w + 1 \in 1..N /\ (s + w + 1) - 1 = s + w
        BY <1>3, <1>4, <2>5
      <3>2. v[s + w + 1] = a
        <4>1. text[s + w + 1] \notin Digits
          BY <1>4, <1>9, <2>5
        <4>2. v[s + w + 1] = v[(s + w + 1) - 1]
          BY <2>1, <3>1, <4>1 DEF IsReading, N
        <4> QED
          BY <2>3, <3>1, <4>2
      <3>3. v[s + w + 1 + places] = v[s + w + 1] * TenTo(places) + b
        <4> DEFINE m == s + w + 1
        <4>1. m \in Nat /\ m + places <= Len(text)
          BY <1>3, <3>1 DEF N
        <4>2. \A j \in 1..places : text[m + j] = Numeral(b, places)[j]
          BY <1>4, <2>5
        <4> HIDE DEF m
        <4>3. v[m + places] = v[m] * TenTo(places) + b
          BY <1>2, <1>4, <2>1, <4>1, <4>2, ReadsNumeral
        <4> QED
          BY <4>3 DEF m
      <3> QED
        BY <1>2, <2>1, <3>1, <3>2, <3>3
    <2> QED
      BY <2>4, <2>5
  <1>14. Points(text) = IF places = 0 THEN {} ELSE {s + w + 1}
    <2>1. DOMAIN text = 1..N
      BY <1>4 DEF N
    <2>2. places # 0 => s + w + 1 \in 1..N
      <3>1. N = IF places = 0 THEN s + w ELSE s + w + 1 + places
        BY <1>4
      <3> QED
        BY <1>3, <3>1
    <2>3. \A k \in 1..N : text[k] = Point <=> places # 0 /\ k = s + w + 1
      BY <1>4, <1>8, <1>9
    <2> QED
      BY <2>1, <2>2, <2>3 DEF Points
  <1>15. FractionLength(text) = places
    <2>1. CASE places = 0
      BY <1>14, <2>1 DEF FractionLength
    <2>2. CASE places # 0
      <3>1. Points(text) = {s + w + 1}
        BY <1>14, <2>2
      <3>2. (CHOOSE k \in Points(text) : TRUE) = s + w + 1
        BY <3>1
      <3>3. N - (s + w + 1) = places
        BY <1>3, <1>4, <2>2
      <3> QED
        BY <3>1, <3>2, <3>3 DEF FractionLength, N
    <2> QED
      BY <2>1, <2>2
  <1>16. SpellsPointed(text)
    <2> DEFINE body == IF text # <<>> /\ text[1] \in {Plus, Minus} THEN Tail(text) ELSE text
    <2>1. text # <<>>
      BY <1>4, <1>5 DEF N
    <2>2. Plus \notin NumberBytes
      BY DEF Plus, NumberBytes, Digits, Point, Minus
    <2>3. text[1] \in {Plus, Minus} <=> s = 1
      <3>1. 1 \in 1..N
        BY <1>5
      <3>2. text[1] # Plus
        BY <1>10, <2>2, <3>1
      <3> QED
        BY <1>12, <3>2
    <2>4. /\ body \in Seq(Nat) /\ Len(body) = N - s
          /\ \A k \in 1..(N - s) : body[k] = text[s + k]
      <3>1. CASE s = 1
        <4>1. body = Tail(text)
          BY <2>1, <2>3, <3>1
        <4>2. /\ Tail(text) \in Seq(Nat) /\ Len(Tail(text)) = N - 1
              /\ \A k \in 1..(N - 1) : Tail(text)[k] = text[k + 1]
          BY <1>4, <2>1 DEF N
        <4>3. \A k \in 1..(N - 1) : k + 1 = 1 + k
          BY <1>5
        <4> QED
          BY <3>1, <4>1, <4>2, <4>3
      <3>2. CASE s = 0
        <4>1. body = text
          BY <2>3, <3>2
        <4>2. N - 0 = N /\ \A k \in 1..N : 0 + k = k
          BY <1>5
        <4> QED
          BY <1>4, <3>2, <4>1, <4>2 DEF N
      <3> QED
        BY <1>3, <3>1, <3>2
    <2> HIDE DEF body
    <2>5. DOMAIN body = 1..(N - s)
      BY <2>4
    <2>6. 1 \in DOMAIN body /\ body[1] \in Digits
      <3>1. 1 \in 1..(N - s) /\ 1 \in 1..w
        BY <1>3, <1>5
      <3> QED
        BY <1>6, <2>4, <2>5, <3>1
    <2>7. ASSUME NEW k \in DOMAIN body
          PROVE  /\ body[k] \in Digits \cup {Point}
                 /\ body[k] = Point => k = w + 1
      <3>1. k \in 1..(N - s) /\ s + k \in 1..N /\ s + k > s
        BY <1>3, <1>5, <2>5
      <3>2. s + k = s + w + 1 => k = w + 1
        BY <1>3, <3>1
      <3>3. ~(s + k <= s)
        BY <1>3, <3>1
      <3>4. \/ text[s + k] \in Digits
            \/ s + k = s + w + 1 /\ text[s + k] = Point
        BY <1>8, <3>1, <3>3
      <3>5. body[k] = text[s + k]
        BY <2>4, <3>1
      <3> QED
        BY <1>9, <3>2, <3>4, <3>5
    <2>8. Cardinality(Points(body)) <= 1
      <3>1. Points(body) \subseteq {w + 1}
        BY <2>7 DEF Points
      <3>2. Points(body) = {} \/ Points(body) = {w + 1}
        BY <3>1
      <3>3. Cardinality({}) = 0 /\ Cardinality({w + 1}) = 1
        BY FS_EmptySet, FS_Singleton
      <3>4. Cardinality(Points(body)) \in {0, 1}
        BY Zenon, <3>2, <3>3
      <3> HIDE DEF Points
      <3> QED
        BY <3>4
    <2> QED
      BY <2>6, <2>7, <2>8 DEF SpellsPointed, body
  <1>17. N \in Nat \ {0}
    BY <1>5
  <1>18. text[1] = Minus <=> sign = <<Minus>>
    BY <1>3, <1>12
  <1>19. ReadAs(text, n, places, sign)
    BY <1>4, <1>10, <1>11, <1>13, <1>15, <1>16, <1>17, <1>18 DEF ReadAs, N
  <1> QED
    BY <1>19 DEF text

\* A negative exponent is read as what was written.
LEMMA ReadsExponent ==
    ASSUME NEW e \in Nat \ {0}
    PROVE  LET power == <<Minus>> \o Numeral(e, Width(e))
           IN  /\ power \in Seq(Nat) /\ Len(power) \in Nat \ {0, 1}
               /\ power[1] = Minus
               /\ \A k \in 1..Len(power) : power[k] \in Digits \cup {Minus}
               /\ power[Len(power)] \in Digits
               /\ NumberOf(power) = e
               /\ SpellsInteger(power)
  <1> DEFINE w == Width(e)
             d == Numeral(e, w)
             power == <<Minus>> \o d
  <1>1. w \in Nat \ {0} /\ e < TenTo(w)
    BY WidthIs
  <1>2. d \in Seq(Nat) /\ Len(d) = w /\ \A j \in 1..w : d[j] \in Digits
    BY <1>1, NumeralIs
  <1>3. /\ power \in Seq(Nat) /\ Len(power) = 1 + w
        /\ power[1] = Minus
        /\ \A j \in 1..w : power[1 + j] = d[j]
    <2>1. <<Minus>> \in Seq(Nat) /\ Len(<<Minus>>) = 1 /\ <<Minus>>[1] = Minus
      BY DEF Minus
    <2> HIDE DEF d, w
    <2>2. /\ power \in Seq(Nat) /\ Len(power) = Len(<<Minus>>) + Len(d)
          /\ \A k \in 1..Len(<<Minus>>) : power[k] = <<Minus>>[k]
          /\ \A j \in 1..Len(d) : power[Len(<<Minus>>) + j] = d[j]
      BY <1>2, <2>1, ConcatIs
    <2> HIDE DEF power
    <2> QED
      BY <1>2, <2>1, <2>2
  <1>4. NumberOf(power) = e
    <2>1. PICK v : IsReading(v, power) /\ NumberOf(power) = v[Len(power)]
      BY <1>3, NumberIs
    <2> HIDE DEF w, d
    <2>2. v[1] = 0
      <3>1. 1 \in 0..Len(power) /\ \A k \in 1..1 : power[k] \notin NonZero
        BY <1>1, <1>3 DEF Minus, NonZero
      <3> HIDE DEF power
      <3> QED
        BY <1>3, <2>1, <3>1, ReadsNothing
    <2>3. \A j \in 1..w : power[1 + j] = Numeral(e, w)[j]
      BY <1>3 DEF d
    <2> HIDE DEF power
    <2>4. v[1 + w] = v[1] * TenTo(w) + e
      <3> DEFINE m == 1
      <3>1. m \in Nat /\ w \in Nat /\ m + w <= Len(power) /\ e \in Nat
        BY <1>1, <1>3
      <3>2. \A j \in 1..w : power[m + j] = Numeral(e, w)[j]
        BY <2>3
      <3> HIDE DEF m
      <3>3. power \in Seq(Nat) /\ IsReading(v, power) /\ e < TenTo(w)
        BY <1>1, <1>3, <2>1
      <3>4. v[m + w] = v[m] * TenTo(w) + e
        BY <3>1, <3>2, <3>3, ReadsNumeral
      <3> QED
        BY <3>4 DEF m
    <2>5. 0 * TenTo(w) + e = e
      BY <1>1, TenToPositive
    <2> QED
      BY <1>3, <2>1, <2>2, <2>4, <2>5
  <1> HIDE DEF w, d, power
  <1>5. \A k \in 1..Len(power) : power[k] \in Digits \cup {Minus}
    <2>1. ASSUME NEW k \in 1..Len(power), k # 1
          PROVE  power[k] \in Digits
      <3>1. k - 1 \in 1..w /\ 1 + (k - 1) = k
        BY <1>1, <1>3, <2>1
      <3> QED
        BY <1>2, <1>3, <3>1
    <2> QED
      BY <1>3, <2>1
  <1>6. power[Len(power)] \in Digits
    <2>1. w \in 1..w /\ 1 + w = Len(power)
      BY <1>1, <1>3
    <2> QED
      BY <1>2, <1>3, <2>1
  <1>7. SpellsInteger(power)
    <2>1. power # <<>> /\ power[1] \in {Plus, Minus}
      BY <1>1, <1>3
    <2>2. /\ Tail(power) \in Seq(Nat) /\ Len(Tail(power)) = w /\ DOMAIN Tail(power) = 1..w
          /\ \A k \in 1..w : Tail(power)[k] \in Digits
      <3>1. /\ Tail(power) \in Seq(Nat) /\ Len(Tail(power)) = w
            /\ \A k \in 1..w : Tail(power)[k] = power[k + 1]
        BY <1>1, <1>3, <2>1
      <3>2. \A k \in 1..w : k + 1 = 1 + k
        BY <1>1
      <3> QED
        BY <1>2, <1>3, <3>1, <3>2
    <2>3. Underscore \notin Digits
      BY DEF Underscore, Digits
    <2> DEFINE body == Tail(power)
    <2>4. body # <<>> /\ 1 \in 1..w /\ w \in 1..w
      <3>1. Len(body) # 0 /\ 1 \in 1..w /\ w \in 1..w
        BY <1>1, <2>2
      <3>2. Len(<<>>) = 0
        OBVIOUS
      <3> HIDE DEF body
      <3> QED
        BY <3>1, <3>2
    <2>5. \A k \in 1..(Len(body) - 1) : body[k] # Underscore
      BY <1>1, <2>2, <2>3
    <2> HIDE DEF body
    <2>6. SpellsInteger(power) <=>
            /\ body # <<>> /\ body[1] \in Digits /\ body[Len(body)] \in Digits
            /\ \A k \in DOMAIN body : body[k] \in Digits \cup {Underscore}
            /\ \A k \in 1..(Len(body) - 1) : ~(body[k] = Underscore /\ body[k + 1] = Underscore)
      BY <2>1 DEF SpellsInteger, body
    <2> QED
      BY <2>2, <2>4, <2>5, <2>6 DEF body
  <1>8. Len(power) \in Nat \ {0, 1}
    BY <1>1, <1>3
  <1> QED
    BY <1>3, <1>4, <1>5, <1>6, <1>7, <1>8 DEF power, d, w

\* A text that starts and ends in bytes of a number is left as it is.
LEMMA StripsNothing ==
    ASSUME NEW text \in Seq(Nat), Len(text) \in Nat \ {0},
           text[1] \notin Whitespace, text[Len(text)] \notin Whitespace
    PROVE  Strip(text, Whitespace) = text
  <1>1. PICK a \in 1..Len(text) :
            /\ Strip(text, Whitespace) = SubSeq(text, a, Len(text))
            /\ \A k \in 1..(a - 1) : text[k] \in Whitespace
    <2>1. text # <<>>
      OBVIOUS
    <2> QED
      BY <2>1, StripIs
  <1>2. a = 1
    <2>1. ASSUME a # 1
          PROVE  1 \in 1..(a - 1)
      BY <2>1
    <2> QED
      BY <1>1, <2>1
  <1>3. SubSeq(text, 1, Len(text)) = text
    OBVIOUS
  <1> QED
    BY <1>1, <1>2, <1>3

\* Where the exponent of a text starts.
LEMMA MarkIs ==
    ASSUME NEW text \in Seq(Nat), NEW m \in 1..(Len(text) + 1),
           m <= Len(text) => text[m] = ExponentMark,
           \A k \in 1..(m - 1) : text[k] # ExponentMark
    PROVE  MarkAt(text) = m
  <1>1. ASSUME NEW i \in 1..(Len(text) + 1),
               i <= Len(text) => text[i] = ExponentMark,
               \A k \in 1..(i - 1) : text[k] # ExponentMark
        PROVE  i = m
    <2>1. CASE i < m
      <3>1. i \in 1..(m - 1) /\ i <= Len(text)
        BY <2>1
      <3> QED
        BY <1>1, <3>1
    <2>2. CASE m < i
      <3>1. m \in 1..(i - 1) /\ m <= Len(text)
        BY <2>2
      <3> QED
        BY <1>1, <3>1
    <2> QED
      BY <2>1, <2>2
  <1>2. \E i \in 1..(Len(text) + 1) : /\ i <= Len(text) => text[i] = ExponentMark
                                      /\ \A k \in 1..(i - 1) : text[k] # ExponentMark
    OBVIOUS
  <1>3. /\ MarkAt(text) \in 1..(Len(text) + 1)
        /\ MarkAt(text) <= Len(text) => text[MarkAt(text)] = ExponentMark
        /\ \A k \in 1..(MarkAt(text) - 1) : text[k] # ExponentMark
    BY <1>2 DEF MarkAt
  <1> QED
    BY <1>1, <1>3

\* The text written for a decimal is read as that decimal.
LEMMA RereadsDecimal ==
    ASSUME NEW n \in Int, NEW scale \in Nat
    PROVE  ReadDecimal(DecimalText(Decimal(n, scale))) = Ok(Decimal(n, scale))
  <1> DEFINE a == IF n < 0 THEN -n ELSE n
             sign == IF n < 0 THEN <<Minus>> ELSE <<>>
             places == IF scale - Width(a) < 6 THEN scale ELSE Width(a) - 1
             e == scale - places
             number == sign \o Pointed(a, places)
             L == Len(number)
             text == DecimalText(Decimal(n, scale))
  <1>1. a \in Nat /\ n = IF n < 0 THEN -a ELSE a
    OBVIOUS
  <1>2. sign \in {<<>>, <<Minus>>} /\ (sign = <<Minus>> <=> n < 0)
    OBVIOUS
  <1>3. text = number \o Exponent(e)
    BY DEF DecimalText, Decimal, Value
  <1> HIDE DEF a, sign
  <1>4. places \in Nat /\ e \in Nat /\ places + e = scale
    <2>1. Width(a) \in Nat \ {0}
      BY <1>1, WidthIs
    <2> QED
      BY <2>1
  <1> HIDE DEF places, e, text
  <1>5. /\ number \in Seq(Nat) /\ L \in Nat \ {0}
        /\ number[1] = Minus <=> sign = <<Minus>>
        /\ \A k \in 1..L : number[k] \in NumberBytes
        /\ number[L] \in Digits
        /\ NumberOf(number) = a
        /\ SpellsPointed(number)
        /\ FractionLength(number) = places
    <2>1. ReadAs(number, a, places, sign)
      BY <1>1, <1>2, <1>4, ReadsPointed
    <2> HIDE DEF number
    <2> QED
      BY <2>1 DEF ReadAs
  <1> HIDE DEF number, L
  <1>6. \A x \in NumberBytes : x \notin Whitespace /\ x # ExponentMark
    BY DEF NumberBytes, Whitespace, ExponentMark, Digits, Point, Minus
  <1>7. Signed(number[1], a) = n
    BY <1>1, <1>2, <1>5 DEF Signed
  <1>8. CASE e = 0
    <2>1. text = number
      <3>1. Exponent(e) = <<>>
        BY <1>8 DEF Exponent
      <3> QED
        BY <1>3, <1>5, <3>1
    <2>2. Strip(number, Whitespace) = number
      <3>1. number[1] \in NumberBytes /\ number[L] \in NumberBytes
        BY <1>5
      <3> QED
        BY <1>5, <1>6, <3>1, StripsNothing DEF L
    <2>3. MarkAt(number) = L + 1
      <3> DEFINE m == L + 1
      <3>1. m \in 1..(Len(number) + 1) /\ ~(m <= Len(number)) /\ \A k \in 1..(m - 1) : k \in 1..L
        BY <1>5 DEF L
      <3>2. \A k \in 1..(m - 1) : number[k] # ExponentMark
        BY <1>5, <1>6, <3>1
      <3> HIDE DEF m
      <3>3. MarkAt(number) = m
        BY <1>5, <3>1, <3>2, MarkIs
      <3> QED
        BY <3>3 DEF m
    <2>4. /\ SubSeq(number, 1, (L + 1) - 1) = number
          /\ SubSeq(number, (L + 1) + 1, Len(number)) = <<>>
          /\ ~(L + 1 <= Len(number))
      BY <1>5 DEF L
    <2>5. ReadDecimal(text) = Ok(Decimal(Signed(number[1], NumberOf(number)),
                                         FractionLength(number) + 0))
      BY <1>5, <2>1, <2>2, <2>3, <2>4 DEF ReadDecimal
    <2>6. FractionLength(number) + 0 = scale
      BY <1>4, <1>5, <1>8
    <2> QED
      BY <1>5, <1>7, <2>5, <2>6 DEF text
  <1>9. CASE e # 0
    <2> DEFINE d == Numeral(e, Width(e))
               power == <<Minus>> \o d
               P == Len(power)
    <2>1. /\ power \in Seq(Nat) /\ P \in Nat \ {0, 1}
          /\ power[1] = Minus
          /\ power[P] \in Digits
          /\ NumberOf(power) = e
          /\ SpellsInteger(power)
      BY <1>4, <1>9, ReadsExponent
    <2>2. d \in Seq(Nat)
      BY <1>4, WidthIs, NumeralIs
    <2>3. Exponent(e) = <<ExponentMark>> \o power
      <3>1. Exponent(e) = <<ExponentMark, Minus>> \o d
        BY <1>9 DEF Exponent
      <3> HIDE DEF d
      <3>2. <<ExponentMark, Minus>> \o d = <<ExponentMark>> \o (<<Minus>> \o d)
        BY <2>2 DEF ExponentMark, Minus
      <3> QED
        BY <3>1, <3>2
    <2> HIDE DEF power, P
    <2>4. /\ Exponent(e) \in Seq(Nat) /\ Len(Exponent(e)) = 1 + P
          /\ Exponent(e)[1] = ExponentMark
          /\ \A k \in 1..P : Exponent(e)[1 + k] = power[k]
      <3>1. /\ <<ExponentMark>> \in Seq(Nat) /\ Len(<<ExponentMark>>) = 1
            /\ <<ExponentMark>>[1] = ExponentMark
        BY DEF ExponentMark
      <3> DEFINE x == <<ExponentMark>>
      <3> HIDE DEF x
      <3>2. /\ x \o power \in Seq(Nat) /\ Len(x \o power) = Len(x) + Len(power)
            /\ \A k \in 1..Len(x) : (x \o power)[k] = x[k]
            /\ \A k \in 1..Len(power) : (x \o power)[Len(x) + k] = power[k]
        BY <2>1, <3>1, ConcatIs DEF x
      <3>3. Exponent(e) = x \o power /\ Len(x) = 1 /\ x[1] = ExponentMark
        BY <2>3, <3>1 DEF x
      <3> QED
        BY <3>2, <3>3 DEF P
    <2>5. /\ text \in Seq(Nat) /\ Len(text) = L + 1 + P
          /\ \A k \in 1..L : text[k] = number[k]
          /\ text[L + 1] = ExponentMark
          /\ \A k \in 1..P : text[L + 1 + k] = power[k]
      <3> DEFINE x == Exponent(e)
      <3>1. x \in Seq(Nat) /\ Len(x) = 1 + P
        BY <2>4
      <3> HIDE DEF x
      <3>2. /\ text \in Seq(Nat) /\ Len(text) = L + Len(x)
            /\ \A k \in 1..L : text[k] = number[k]
            /\ \A k \in 1..Len(x) : text[L + k] = x[k]
        BY <1>3, <1>5, <3>1, ConcatIs DEF L, x
      <3>3. 1 \in 1..Len(x) /\ \A k \in 1..P : 1 + k \in 1..Len(x) /\ L + (1 + k) = L + 1 + k
        BY <1>5, <2>1, <3>1
      <3>4. L + (1 + P) = L + 1 + P
        BY <1>5, <2>1
      <3> QED
        BY <2>4, <3>1, <3>2, <3>3, <3>4 DEF x
    <2>6. Strip(text, Whitespace) = text
      <3>1. text[1] = number[1] /\ text[L + 1 + P] = power[P] /\ L + 1 + P \in Nat \ {0}
        BY <1>5, <2>1, <2>5
      <3>2. text[1] \in NumberBytes /\ text[Len(text)] \in NumberBytes
        BY <1>5, <2>1, <2>5, <3>1 DEF NumberBytes
      <3> QED
        BY <1>6, <2>5, <3>1, <3>2, StripsNothing
    <2>7. MarkAt(text) = L + 1
      <3> DEFINE m == L + 1
      <3>1. m \in 1..(Len(text) + 1) /\ text[m] = ExponentMark /\ m - 1 = L
        <4>1. L \in Nat /\ P \in Nat /\ Len(text) = L + 1 + P
          BY <1>5, <2>1, <2>5
        <4> QED
          BY <2>5, <4>1
      <3>2. \A k \in 1..(m - 1) : text[k] # ExponentMark
        BY <1>5, <1>6, <2>5, <3>1
      <3> HIDE DEF m
      <3>3. MarkAt(text) = m
        BY <2>5, <3>1, <3>2, MarkIs
      <3> QED
        BY <3>3 DEF m
    <2>size. L \in Nat /\ P \in Nat /\ Len(text) = L + 1 + P /\ text \in Seq(Nat)
      BY <1>5, <2>1, <2>5
    <2>8. SubSeq(text, 1, (L + 1) - 1) = number
      <3> DEFINE x == SubSeq(text, 1, L)
      <3>1. /\ x \in Seq(Nat) /\ Len(x) = L
            /\ \A k \in 1..L : x[k] = text[k]
        <4>1. L <= Len(text)
          BY <2>size
        <4> QED
          BY <2>size, <4>1
      <3> HIDE DEF x
      <3>2. x = number
        <4>1. \A k \in 1..L : x[k] = number[k]
          BY <2>5, <3>1
        <4>2. number \in Seq(Nat) /\ Len(number) = L
          BY <1>5 DEF L
        <4> QED
          BY <3>1, <4>1, <4>2
      <3> QED
        BY <1>5, <3>2 DEF x
    <2>9. SubSeq(text, (L + 1) + 1, Len(text)) = power
      <3> DEFINE x == SubSeq(text, (L + 1) + 1, Len(text))
      <3>1. /\ x \in Seq(Nat) /\ Len(x) = P
            /\ \A k \in 1..P : x[k] = text[(L + 1) + k]
        <4> DEFINE m == (L + 1) + 1
        <4>1. m \in Nat /\ 1 <= m /\ m <= Len(text) + 1 /\ Len(text) - m + 1 = P
          BY <2>size
        <4>2. \A k \in 1..P : m + k - 1 = (L + 1) + k /\ m + k - 1 \in 1..Len(text)
          BY <2>size
        <4> HIDE DEF m
        <4>3. /\ SubSeq(text, m, Len(text)) \in Seq(Nat)
              /\ Len(SubSeq(text, m, Len(text))) = Len(text) - m + 1
              /\ \A k \in 1..(Len(text) - m + 1) : SubSeq(text, m, Len(text))[k] = text[m + k - 1]
          BY <2>size, <4>1
        <4> QED
          BY <4>1, <4>2, <4>3 DEF m
      <3> HIDE DEF x
      <3>2. x = power
        <4>1. \A k \in 1..P : x[k] = power[k]
          BY <2>5, <3>1
        <4>2. power \in Seq(Nat) /\ Len(power) = P
          BY <2>1 DEF P
        <4> QED
          BY <3>1, <4>1, <4>2
      <3> QED
        BY <3>2 DEF x
    <2>10. power # <<>>
      BY <2>1 DEF P
    <2>11. ReadDecimal(text) = Ok(Decimal(Signed(number[1], NumberOf(number)),
                                          FractionLength(number)
                                            + (-Signed(power[1], NumberOf(power)))))
      BY <1>5, <2>1, <2>6, <2>7, <2>8, <2>9, <2>10 DEF ReadDecimal
    <2>12. FractionLength(number) + (-Signed(power[1], NumberOf(power))) = scale
      BY <1>4, <1>5, <2>1 DEF Signed
    <2> QED
      BY <1>5, <1>7, <2>11, <2>12 DEF text
  <1> QED
    BY <1>8, <1>9

-----------------------------------------------------------------------------
(* A body read back by the schema it was written by.                       *)

\* Stripping leaves a text a text.
LEMMA StripIn ==
    ASSUME NEW text \in Seq(Nat)
    PROVE  Strip(text, Whitespace) \in Seq(Nat)
  <1> DEFINE N == Len(text)
             kept == {k \in DOMAIN text : text[k] \notin Whitespace}
             first == CHOOSE k \in kept : \A m \in kept : k <= m
             last == CHOOSE k \in kept : \A m \in kept : m <= k
  <1>1. N \in Nat /\ DOMAIN text = 1..N
    OBVIOUS
  <1>2. kept \in SUBSET Nat /\ kept \subseteq 1..N
    BY <1>1
  <1>3. CASE kept = {}
    BY <1>3 DEF Strip
  <1>4. CASE kept # {}
    <2>1. Strip(text, Whitespace) = SubSeq(text, first, last)
      BY <1>4 DEF Strip
    <2> HIDE DEF kept
    <2>2. first \in kept
      <3>1. \E k \in kept : \A m \in kept : k <= m
        BY <1>2, <1>4, LeastNumber
      <3> QED
        BY <3>1
    <2>3. last \in kept
      <3> DEFINE above == {N - k : k \in kept}
      <3>1. above \in SUBSET Nat /\ above # {}
        <4>1. \A k \in kept : N - k \in Nat
          BY <1>1, <1>2
        <4>2. above # {}
          BY <1>4
        <4> QED
          BY <4>1, <4>2
      <3>2. PICK d \in above : \A x \in above : d <= x
        <4> HIDE DEF above
        <4> QED
          BY <3>1, LeastNumber
      <3>3. PICK k \in kept : d = N - k
        BY <3>2
      <3>4. ASSUME NEW m \in kept
            PROVE  m <= k
        <4>1. N - m \in above
          OBVIOUS
        <4>2. N - k <= N - m
          BY <3>2, <3>3, <4>1
        <4> QED
          BY <1>1, <1>2, <4>2
      <3>5. \E i \in kept : \A m \in kept : m <= i
        BY <3>4
      <3> QED
        BY <3>5
    <2> HIDE DEF first, last
    <2>4. first \in 1..N /\ last \in 1..N
      BY <1>2, <2>2, <2>3
    <2>5. SubSeq(text, first, last) \in Seq(Nat)
      <3>1. \A k \in 1..N : text[k] \in Nat
        BY <1>1
      <3> QED
        BY <1>1, <2>4, <3>1
    <2> QED
      BY <2>1, <2>5
  <1> QED
    BY <1>3, <1>4

\* A number with digits is decoded to a decimal, any other field to none.
LEMMA DecodesDecimals ==
    ASSUME NEW fld, Measures(fld), FieldAccepted(fld), NEW encoding,
           NEW chunk \in Seq(Nat), DecodeChunk(fld, encoding, chunk).status = "ok"
    PROVE  IF fld.digits # <<>>
           THEN \E n \in Int, scale \in Nat :
                    DecodeChunk(fld, encoding, chunk).value = Decimal(n, scale)
           ELSE DecodeChunk(fld, encoding, chunk).value.kind # "decimal"
  <1>1. Len(chunk) = fld.length /\ Error.status # "ok" /\ Raises.status # "ok"
    BY DEF DecodeChunk, Error, Raises
  <1>2. CASE fld.digits # <<>>
    <2>1. DecodeChunk(fld, encoding, chunk) = DecodeNumeric(fld, chunk)
      BY <1>1, <1>2 DEF DecodeChunk
    <2>2. fld.length \in Nat /\ fld.digits[1] \in Nat /\ fld.digits[2] \in Nat
      BY <1>2 DEF Measures
    <2>3. DigitsOf(fld, chunk) \in Seq(Nat)
      <3>1. CASE HasPoint(fld, chunk)
        <4> DEFINE p == fld.digits[1] + 1
        <4>1. p \in 1..Len(chunk) /\ chunk[p] = Point
          BY <2>2, <3>1 DEF HasPoint
        <4>2. chunk[p] \notin Digits
          BY <4>1 DEF Point, Digits
        <4>3. DigitsOf(fld, chunk) = Without(chunk, p)
          BY <3>1 DEF DigitsOf
        <4> HIDE DEF p
        <4> QED
          BY <4>1, <4>2, <4>3, NumberOfWithout
      <3>2. CASE ~HasPoint(fld, chunk) /\ SignBytes(fld) = 1
        <4>1. chunk # <<>>
          <5>1. fld.length - fld.digits[1] - fld.digits[2] = 1
            BY <1>2, <3>2 DEF SignBytes
          <5> QED
            BY <1>1, <2>2, <5>1
        <4> QED
          BY <3>2, <4>1 DEF DigitsOf
      <3>3. CASE ~HasPoint(fld, chunk) /\ SignBytes(fld) # 1
        BY <3>3 DEF DigitsOf
      <3> QED
        BY <3>1, <3>2, <3>3
    <2> DEFINE digits == Strip(DigitsOf(fld, chunk), Whitespace)
               x == NumberPadded(fld, digits)
    <2>4. x \in Nat
      <3>1. digits \in Seq(Nat)
        BY <2>3, StripIn
      <3> HIDE DEF digits
      <3>2. PICK v : IsReading(v, digits) /\ NumberOf(digits) = v[Len(digits)]
        BY <3>1, NumberIs
      <3>3. v[Len(digits)] \in Nat
        <4>1. v \in [0..Len(digits) -> Nat]
          BY <3>2 DEF IsReading
        <4>2. Len(digits) \in 0..Len(digits)
          BY <3>1
        <4> QED
          BY <4>1, <4>2
      <3> QED
        BY <3>2, <3>3 DEF NumberPadded
    <2>5. \/ DecodeNumeric(fld, chunk) = Ok(Decimal(0, 0))
          \/ DecodeNumeric(fld, chunk)
               = Ok(Decimal(IF IsNegative(fld, chunk) THEN -x ELSE x, fld.digits[2]))
      BY <1>1, <2>1 DEF DecodeNumeric
    <2> HIDE DEF x
    <2>6. (IF IsNegative(fld, chunk) THEN -x ELSE x) \in Int /\ 0 \in Int /\ 0 \in Nat
      BY <2>4
    <2>7. \A v : Ok(v).value = v
      BY DEF Ok
    <2> QED
      BY <1>2, <2>1, <2>2, <2>5, <2>6, <2>7
  <1>3. CASE fld.digits = <<>>
    <2>1. DecodeChunk(fld, encoding, chunk) # DecodeNumeric(fld, chunk)
      BY <1>1, <1>3 DEF DecodeNumeric
    <2>2. \/ DecodeChunk(fld, encoding, chunk) = DecodeLong(chunk)
          \/ DecodeChunk(fld, encoding, chunk) = DecodeString(chunk, encoding)
      BY <1>1, <1>3, <2>1 DEF DecodeChunk
    <2>3. /\ DecodeLong(chunk).value.kind # "decimal"
          /\ DecodeString(chunk, encoding).value.kind # "decimal"
      BY DEF DecodeLong, DecodeString, Ok, Error, Raises, NoValue, Integer, Str, Value
    <2> QED
      BY <1>3, <2>2, <2>3
  <1> QED
    BY <1>2, <1>3

\* What is read as a decimal is what was decoded as one.
LEMMA CoercedIs ==
    ASSUME NEW t, Ordinary(t), Accepted(t), NEW s \in Slots(t)
    PROVE  Coerced(t, Place(t, s)) <=> FieldOf(t, s).digits # <<>>
  <1> DEFINE j == t.layout[s.item]
             p == Place(t, s)
  <1>1. /\ s.item \in DOMAIN t.layout
        /\ \/ j.kind = "field" /\ s.element = 0 /\ s.field = 0
           \/ /\ j.kind = "array" /\ s.element \in Nat \ {0} /\ s.field \in Nat \ {0}
              /\ s.field \in DOMAIN j.fields
    BY SlotIs
  <1>2. /\ p.element = s.element
        /\ p.name = FieldOf(t, s).name
        /\ p.array = (IF s.field = 0 THEN "" ELSE j.name)
    BY DEF Place
  <1>3. ASSUME NEW k \in DOMAIN t.layout
        PROVE  t.layout[k].kind \in {"field", "array"}
    BY DEF Accepted, ItemAccepted
  <1>4. ASSUME NEW k \in DOMAIN t.layout, t.layout[k].name = j.name
        PROVE  k = s.item
    BY <1>1, <1>3, <1>4 DEF Ordinary
  <1> HIDE DEF p
  <1>5. CASE s.element = 0
    <2>1. FieldOf(t, s) = j /\ j.kind = "field" /\ p.element = 0 /\ p.name = j.name
      BY <1>1, <1>2, <1>5 DEF FieldOf
    <2>2. Coerced(t, p) <=> \E k \in DOMAIN t.layout : /\ t.layout[k].kind = "field"
                                                      /\ t.layout[k].name = j.name
                                                      /\ t.layout[k].digits # <<>>
      BY <2>1 DEF Coerced
    <2> QED
      BY <1>1, <1>4, <2>1, <2>2 DEF p
  <1>6. CASE s.element # 0
    <2>1. /\ j.kind = "array" /\ s.field \in DOMAIN j.fields /\ s.field # 0
          /\ FieldOf(t, s) = j.fields[s.field] /\ p.element # 0
          /\ p.name = j.fields[s.field].name /\ p.array = j.name
      BY <1>1, <1>2, <1>6 DEF FieldOf
    <2>2. ASSUME NEW f \in DOMAIN j.fields, j.fields[f].name = p.name
          PROVE  f = s.field
      BY <1>1, <2>1, <2>2 DEF Ordinary
    <2>3. Coerced(t, p) <=> \E k \in DOMAIN t.layout :
                                /\ t.layout[k].kind # "field" /\ p.array = t.layout[k].name
                                /\ \E f \in DOMAIN t.layout[k].fields :
                                      /\ t.layout[k].fields[f].name = p.name
                                      /\ t.layout[k].fields[f].digits # <<>>
      BY <2>1 DEF Coerced
    <2>4. Coerced(t, p) => j.fields[s.field].digits # <<>>
      BY <1>4, <2>1, <2>2, <2>3
    <2>5. j.fields[s.field].digits # <<>> => Coerced(t, p)
      BY <1>1, <2>1, <2>3
    <2> QED
      BY <2>1, <2>4, <2>5 DEF p
  <1> QED
    BY <1>5, <1>6

\* The JSON text of a record that was parsed is read back as the record, when it
\* is read by the schema that parsed it.
LEMMA ReadsBack ==
    ASSUME NEW t, Ordinary(t), Accepted(t), NEW raw \in Seq(Nat),
           ParseStatus(t, raw) = "parsed"
    PROVE  /\ BodyReadable(t, ToJson(BodyOf(t, raw)))
           /\ FromJson(t, ToJson(BodyOf(t, raw))) = BodyOf(t, raw)
  <1> DEFINE body == BodyOf(t, raw)
             places == {Place(t, s) : s \in Slots(t)}
             json == ToJson(body)
  <1>1. body = [p \in places |-> body[p]]
    BY DEF BodyOf
  <1>2. DOMAIN json = places /\ \A p \in places :
            json[p] = IF body[p].kind = "decimal" THEN Str(DecimalText(body[p])) ELSE body[p]
    BY <1>1 DEF ToJson
  <1>3. ASSUME NEW s \in Slots(t)
        PROVE  ReadValue(t, Place(t, s), json[Place(t, s)]) = Ok(body[Place(t, s)])
    <2> DEFINE fld == FieldOf(t, s)
               chunk == Slice(raw, s.from, s.to)
               p == Place(t, s)
    <2>1. Measures(fld) /\ FieldAccepted(fld)
      BY SlotMeasures
    <2>2. chunk \in Seq(Nat)
      <3> DEFINE to == IF s.to <= Len(raw) THEN s.to ELSE Len(raw)
      <3>1. Len(raw) \in Nat /\ \A k \in 1..Len(raw) : raw[k] \in Nat
        OBVIOUS
      <3>2. s.from \in Nat /\ s.to \in Nat
        BY SlotIs
      <3>3. to \in Nat /\ to <= Len(raw)
        BY <3>1, <3>2
      <3>4. chunk = SubSeq(raw, s.from + 1, to)
        BY DEF Slice
      <3> HIDE DEF to, chunk
      <3> QED
        BY <3>1, <3>2, <3>3, <3>4
    <2>3. /\ body[p] = DecodeChunk(fld, t.encoding, chunk).value
          /\ DecodeChunk(fld, t.encoding, chunk).status = "ok"
      BY BodyHolds, ParsedDecodes DEF DecodeSlot
    <2>4. json[p] = IF body[p].kind = "decimal" THEN Str(DecimalText(body[p])) ELSE body[p]
      BY <1>2
    <2>5. Coerced(t, p) <=> fld.digits # <<>>
      BY CoercedIs
    <2> HIDE DEF fld, chunk, p, json, body
    <2>6. CASE fld.digits # <<>>
      <3>1. PICK n \in Int, scale \in Nat : body[p] = Decimal(n, scale)
        BY <2>1, <2>2, <2>3, <2>6, DecodesDecimals
      <3>2. json[p] = Str(DecimalText(Decimal(n, scale)))
        BY <2>4, <3>1 DEF Decimal, Value
      <3>3. json[p].kind = "text" /\ json[p].text = DecimalText(Decimal(n, scale))
        BY <3>2 DEF Str, Value
      <3>4. ReadValue(t, p, json[p]) = ReadDecimal(DecimalText(Decimal(n, scale)))
        BY <2>5, <2>6, <3>3 DEF ReadValue
      <3> QED
        BY <3>1, <3>4, RereadsDecimal DEF p
    <2>7. CASE fld.digits = <<>>
      <3>1. body[p].kind # "decimal"
        BY <2>1, <2>2, <2>3, <2>7, DecodesDecimals
      <3>2. json[p] = body[p]
        BY <2>4, <3>1
      <3> QED
        BY <2>5, <2>7, <3>2 DEF ReadValue, p
    <2> QED
      BY <2>6, <2>7
  <1> HIDE DEF body, json
  <1>4. \A p \in places : ReadValue(t, p, json[p]) = Ok(body[p])
    BY <1>3
  <1>5. \A v : Ok(v).status = "ok" /\ Ok(v).value = v
    BY DEF Ok
  <1>6. BodyReadable(t, json)
    BY <1>2, <1>4, <1>5 DEF BodyReadable
  <1>7. FromJson(t, json) = [p \in places |-> body[p]]
    <2> HIDE DEF places
    <2>1. FromJson(t, json) = [p \in places |-> ReadValue(t, p, json[p]).value]
      BY <1>2 DEF FromJson
    <2> QED
      BY <1>4, <1>5, <2>1
  <1> QED
    BY <1>1, <1>6, <1>7 DEF json, body

-----------------------------------------------------------------------------
(* The inductive invariant of the page.                                    *)

\* What is stored as parsed was parsed by a schema that some registry held, and
\* is what that schema makes of the record.
StoredAsParsed ==
    page \in {"saved", "inspect", "unreadable"} =>
        \A c \in cuts : stored[c].status = "parsed" =>
            /\ \E reg \in Registries : stored[c].schema \in reg
            /\ ParseStatus(stored[c].schema, Record(c)) = "parsed"
            /\ stored[c].json = ToJson(BodyOf(stored[c].schema, Record(c)))

\* The loop's invariant, the type of the page, where the payload comes from, what
\* is stored and what is read of it.
PageIInv ==
    /\ SlicerIInv
    /\ PageTypeOK
    /\ PayloadRead
    /\ WholeRecords
    /\ ParsedAsCut
    /\ StoredAsParsed
    /\ ReadBack

\* A record cut off has the length registered for it.
LEMMA RecordLength ==
    ASSUME PageIInv, NEW c \in cuts
    PROVE  Record(c) \in Seq(Nat) /\ Len(Record(c)) = lengthAt[c]
  <1> DEFINE payload == PayloadOf(upload)
             end == c + lengthAt[c]
  <1>1. payload \in Seq(Nat) /\ Len(payload) = total /\ total \in Nat
    BY PayloadIs DEF PageIInv, PageTypeOK, PayloadRead
  <1>2. c \in Nat /\ lengthAt[c] \in Nat /\ RecordEnd(c) <= total
    BY DEF PageIInv, SlicerIInv, SlicerTypeOK, WholeRecords, Places
  <1>3. c <= end /\ end \in Nat /\ end <= Len(payload)
    BY <1>1, <1>2 DEF RecordEnd
  <1>4. Record(c) = SubSeq(payload, c + 1, end)
    BY <1>3 DEF Record, Slice
  <1> HIDE DEF payload
  <1>5. Len(SubSeq(payload, c + 1, end)) = end - (c + 1) + 1
    BY <1>1, <1>2, <1>3, PartLength
  <1>6. SubSeq(payload, c + 1, end) \in Seq(Nat)
    <2>1. \A k \in 1..Len(payload) : payload[k] \in Nat
      BY <1>1
    <2> HIDE DEF end
    <2> QED
      BY <1>1, <1>2, <1>3, <2>1
  <1>7. Record(c) \in Seq(Nat)
    BY <1>4, <1>6
  <1>8. Len(Record(c)) = lengthAt[c]
    BY <1>2, <1>3, <1>4, <1>5
  <1> QED
    BY <1>7, <1>8

\* A record parsed has the length of the schema of its code.
LEMMA ParsedLength ==
    ASSUME NEW reg, NEW raw, Parsed(reg, raw) = "parsed"
    PROVE  SchemaOf(reg, PeekCode(raw)).length = Len(raw)
  BY DEF Parsed, PeekStatus, ParseStatus, LengthMatches

\* The records the loop may cut off have lengths that are not negative.
LEMMA InitWholeRecords == PageInit => WholeRecords
  <1> SUFFICES ASSUME PageInit, NEW p \in Places, Known(p)
               PROVE  lengthAt[p] \in Nat
    BY DEF PageInit, WholeRecords
  <1> DEFINE window == Slice(PayloadOf(upload), p, p + PeekLength)
             code == PeekCode(window)
  <1>1. lengthAt[p] = LengthRead(cached, PayloadOf(upload), p)
    BY DEF PageInit, Places
  <1>2. lengthAt[p] # NoRecord
    BY SlicerAssumption DEF Known
  <1>3. Knows(cached, code) /\ lengthAt[p] = SchemaOf(cached, code).length
    BY <1>1, <1>2 DEF LengthRead
  <1>4. cached \in Registries
    BY DEF PageInit
  <1> QED
    BY <1>3, <1>4, SchemaIs

\* A record is cut off only if it ends within the payload.
LEMMA CutWholeRecords ==
    ASSUME PageIInv, [SlicerNext]_slicerVars
    PROVE  WholeRecords'
  <1>1. ASSUME UNCHANGED <<total, lengthAt, at, cuts>>
        PROVE  WholeRecords'
    BY <1>1 DEF PageIInv, WholeRecords, Places, Known, RecordEnd
  <1>2. ASSUME Cut
        PROVE  WholeRecords'
    <2>1. SlicerIInv /\ WholeRecords
      BY DEF PageIInv
    <2>2. at \in Nat /\ Here = at
      BY <2>1 DEF SlicerIInv, SlicerTypeOK, WholeRecords, Here
    <2>3. /\ at \in Places /\ Known(at) /\ cuts' = cuts \cup {at}
          /\ at' = at + lengthAt[at] /\ at' <= total
      BY <1>2, <2>1, <2>2, CutFacts
    <2>4. lengthAt[at] \in Nat
      BY <2>1, <2>3 DEF WholeRecords
    <2>5. at' >= 0 /\ RecordEnd(at) <= total
      BY <2>2, <2>3, <2>4 DEF RecordEnd
    <2>6. total' = total /\ lengthAt' = lengthAt
      BY <1>2 DEF Cut, payloadRead
    <2> QED
      BY <2>1, <2>3, <2>5, <2>6 DEF WholeRecords, Places, Known, RecordEnd
  <1> QED
    BY <1>1, <1>2 DEF SlicerNext, slicerVars, payloadRead, TailTooShort, UnknownCode,
                      TailIncomplete, Stop

\* The page starts in the invariant.
LEMMA InitPage == PageInit => PageIInv
  <1> SUFFICES ASSUME PageInit
               PROVE  PageIInv
    OBVIOUS
  <1>1. SlicerIInv
    BY InitIsSlicer, SlicerInitIInv
  <1>2. page \in {"input", "damaged", "log", "extract"}
    BY DEF PageInit, FirstPage
  <1>3. PageTypeOK
    BY <1>1, <1>2, UploadAssumption DEF PageInit, PageTypeOK, SlicerIInv
  <1> QED
    BY <1>1, <1>2, <1>3, InitWholeRecords
    DEF PageIInv, PageInit, PayloadRead, ParsedAsCut, StoredAsParsed, ReadBack

\* The loop goes on: nothing is stored yet.
LEMMA SliceKeeps ==
    ASSUME PageIInv, SliceStep
    PROVE  PageIInv'
  <1>1. SlicerIInv'
    BY SlicerStepIInv DEF PageIInv, SliceStep
  <1>2. total' = total
    BY DEF SliceStep, SlicerNext, Cut, TailTooShort, UnknownCode, TailIncomplete, Stop, payloadRead
  <1>3. WholeRecords'
    BY CutWholeRecords DEF SliceStep
  <1> QED
    BY <1>1, <1>2, <1>3 DEF PageIInv, SliceStep, PageTypeOK, SlicerIInv, PayloadRead,
                             ParsedAsCut, StoredAsParsed, ReadBack

\* The records are stored.
LEMMA SaveKeeps ==
    ASSUME PageIInv, Save
    PROVE  PageIInv'
  <1> USE DEF slicerVars, payloadRead
  <1>1. SlicerIInv' /\ WholeRecords'
    BY SlicerStepIInv, CutWholeRecords DEF PageIInv, Save
  <1>2. UNCHANGED <<total, lengthAt, at, cuts, upload, cached, registry, edits>>
    BY DEF Save
  <1>3. CASE page' = "saveFails"
    BY <1>1, <1>2, <1>3 DEF PageIInv, PageTypeOK, SlicerIInv, PayloadRead, ParsedAsCut,
           StoredAsParsed, ReadBack, Record
  <1>4. CASE page' = "saved" /\ stored' = [c \in cuts |-> Stored(registry, Record(c))]
    <2>1. ASSUME NEW c \in cuts
          PROVE  /\ stored'[c].status \in {"parsed", "error"}
                 /\ stored'[c].status = "parsed" =>
                       /\ stored'[c].schema.length = lengthAt[c]
                       /\ \E reg \in Registries : stored'[c].schema \in reg
                       /\ ParseStatus(stored'[c].schema, Record(c)) = "parsed"
                       /\ stored'[c].json = ToJson(BodyOf(stored'[c].schema, Record(c)))
      <3>1. stored'[c] = Stored(registry, Record(c))
        BY <1>4
      <3>2. CASE Parsed(registry, Record(c)) = "parsed"
        <4>1. /\ stored'[c].status = "parsed"
              /\ stored'[c].schema = SchemaOf(registry, PeekCode(Record(c)))
              /\ stored'[c].json = ToJson(BodyOf(stored'[c].schema, Record(c)))
          BY <3>1, <3>2 DEF Stored
        <4>2. stored'[c].schema.length = Len(Record(c))
          BY <3>2, <4>1, ParsedLength
        <4>3. /\ Knows(registry, PeekCode(Record(c)))
              /\ ParseStatus(SchemaOf(registry, PeekCode(Record(c))), Record(c)) = "parsed"
          BY <3>2 DEF Parsed, PeekStatus
        <4>4. registry \in Registries
          BY DEF PageIInv, PageTypeOK
        <4>5. SchemaOf(registry, PeekCode(Record(c))) \in registry
          BY <4>3, <4>4, SchemaIs
        <4> QED
          BY <4>1, <4>2, <4>3, <4>4, <4>5, RecordLength
      <3>3. CASE Parsed(registry, Record(c)) # "parsed"
        BY <3>1, <3>3 DEF Stored
      <3> QED
        BY <3>2, <3>3
    <2>2. DOMAIN stored' = cuts
      BY <1>4
    <2>3. PageTypeOK'
      BY <1>1, <1>2, <1>4, <2>1, <2>2 DEF PageIInv, PageTypeOK, SlicerIInv
    <2>4. ParsedAsCut'
      BY <1>2, <2>1 DEF ParsedAsCut
    <2>5. StoredAsParsed'
      <3>1. \A c \in cuts : Record(c)' = Record(c)
        BY <1>2 DEF Record
      <3> QED
        BY <1>2, <2>1, <3>1 DEF StoredAsParsed
    <2>6. ReadBack'
      BY <1>4 DEF ReadBack
    <2> QED
      BY <1>1, <1>2, <2>3, <2>4, <2>5, <2>6 DEF PageIInv, PayloadRead
  <1> QED
    BY <1>3, <1>4 DEF Save

\* A record is opened.
LEMMA InspectKeeps ==
    ASSUME PageIInv, NEW c \in cuts, Inspect(c)
    PROVE  PageIInv'
  <1> DEFINE schema == SchemaOf(registry, stored[c].schema.tr)
  <1> USE DEF slicerVars, payloadRead
  <1>1. /\ page = "saved" /\ page' \in {"inspect", "unreadable"}
        /\ stored[c].status = "parsed"
        /\ UNCHANGED <<total, lengthAt, at, cuts, slicing>>
        /\ UNCHANGED <<upload, cached, registry, stored, edits>>
    BY DEF Inspect
  <1>2. SlicerIInv' /\ WholeRecords'
    BY SlicerStepIInv, CutWholeRecords DEF PageIInv, Inspect
  <1>3. PageTypeOK' /\ PayloadRead' /\ ParsedAsCut'
    BY <1>1, <1>2 DEF PageIInv, PageTypeOK, SlicerIInv, PayloadRead, ParsedAsCut
  <1>4. \A d \in cuts : Record(d)' = Record(d)
    BY <1>1 DEF Record
  <1>5. StoredAsParsed'
    BY <1>1, <1>4 DEF PageIInv, StoredAsParsed
  <1>6. opened'.cut = c /\ Record(opened.cut)' = Record(c)
    <2>1. opened'.cut = c
      BY DEF Inspect
    <2> QED
      BY <1>1, <2>1 DEF Record
  <1>7. /\ \E reg \in Registries : stored[c].schema \in reg
        /\ ParseStatus(stored[c].schema, Record(c)) = "parsed"
        /\ stored[c].json = ToJson(BodyOf(stored[c].schema, Record(c)))
    BY <1>1 DEF PageIInv, StoredAsParsed
  <1>8. Ordinary(stored[c].schema) /\ Accepted(stored[c].schema)
    BY <1>7, RegistryHolds
  <1>9. stored[c].schema # NoUpload
    BY <1>7, UploadAssumption DEF Registries
  <1>10. /\ BodyReadable(stored[c].schema, stored[c].json)
         /\ FromJson(stored[c].schema, stored[c].json) = BodyOf(stored[c].schema, Record(c))
    <2>1. Record(c) \in Seq(Nat)
      BY RecordLength
    <2> QED
      BY <1>7, <1>8, <2>1, ReadsBack
  <1>11. ASSUME opened'.schema = stored[c].schema
         PROVE  page' = "inspect" /\ opened'.body = BodyOf(stored[c].schema, Record(c))
    <2>1. CASE ~Knows(registry, stored[c].schema.tr)
      <3>1. opened'.schema = NoUpload
        BY <2>1 DEF Inspect
      <3> QED
        BY <1>9, <1>11, <3>1
    <2>2. CASE Knows(registry, stored[c].schema.tr) /\ BodyReadable(schema, stored[c].json)
      <3>1. /\ opened'.schema = schema /\ page' = "inspect"
            /\ opened'.body = FromJson(schema, stored[c].json)
        BY <2>2 DEF Inspect
      <3> QED
        BY <1>10, <1>11, <3>1
    <2>3. CASE Knows(registry, stored[c].schema.tr) /\ ~BodyReadable(schema, stored[c].json)
      <3>1. opened'.schema = schema
        BY <2>3 DEF Inspect
      <3> QED
        BY <1>10, <1>11, <2>3, <3>1
    <2> QED
      BY <2>1, <2>2, <2>3
  <1>12. ReadBack'
    <2>1. ASSUME opened'.schema = stored'[opened'.cut].schema
          PROVE  page' = "inspect" /\ opened'.body = BodyOf(opened'.schema, Record(opened.cut)')
      BY <1>1, <1>6, <1>11, <2>1
    <2> QED
      BY <2>1 DEF ReadBack
  <1> QED
    BY <1>2, <1>3, <1>5, <1>12 DEF PageIInv

\* Every step of the page keeps the invariant.
LEMMA StepPage == PageIInv /\ [PageNext]_pageVars => PageIInv'
  <1> SUFFICES ASSUME PageIInv, [PageNext]_pageVars
               PROVE  PageIInv'
    OBVIOUS
  <1> USE DEF slicerVars, payloadRead
  <1>1. CASE SliceStep
    BY <1>1, SliceKeeps
  <1>2. CASE Save
    BY <1>2, SaveKeeps
  <1>3. CASE UNCHANGED slicerVars
    <2>1. SlicerIInv' /\ WholeRecords'
      BY <1>3, SlicerStepIInv, CutWholeRecords DEF PageIInv
    <2>2. UNCHANGED <<total, lengthAt, at, cuts>>
      BY <1>3
    <2>3. CASE ShowWarning
      BY <2>1, <2>2, <2>3 DEF ShowWarning, PageIInv, PageTypeOK, SlicerIInv, PayloadRead,
           ParsedAsCut, StoredAsParsed, ReadBack, Record
    <2>4. CASE ShowPreview
      BY <2>1, <2>2, <2>4 DEF ShowPreview, PageIInv, PageTypeOK, SlicerIInv, PayloadRead,
           ParsedAsCut, StoredAsParsed, ReadBack, Record
    <2>5. CASE EditSchema
      <3>1. edits' \in 0..MaxEdits
        BY <2>5, UploadAssumption DEF EditSchema, PageIInv, PageTypeOK
      <3> QED
        BY <2>1, <2>2, <2>5, <3>1
        DEF EditSchema, PageIInv, PageTypeOK, SlicerIInv, PayloadRead, ParsedAsCut,
           StoredAsParsed, ReadBack, Record
    <2>6. CASE \E c \in cuts : Inspect(c)
      BY <2>6, InspectKeeps
    <2>7. CASE UNCHANGED pageVars
      BY <2>1, <2>7 DEF pageVars, PageIInv, PageTypeOK, SlicerIInv, PayloadRead, ParsedAsCut,
           StoredAsParsed, ReadBack, Record
    <2> QED
      BY <1>1, <1>2, <2>3, <2>4, <2>5, <2>6, <2>7 DEF PageNext, Proceed, AtRest
  <1> QED
    BY <1>1, <1>2, <1>3 DEF PageNext, Proceed, ShowWarning, ShowPreview, EditSchema, Inspect,
                            AtRest, pageVars

\* The invariant of the page holds, whatever other sessions make of the
\* schemas.
THEOREM PageInductive == PageSpec => []PageIInv
  <1> QED
    BY InitPage, StepPage, PTL DEF PageSpec

\* The state of the page has its type.
THEOREM PageTypeCorrect == PageSpec => []PageTypeOK
  <1>1. PageIInv => PageTypeOK
    BY DEF PageIInv
  <1> QED
    BY <1>1, PageInductive, PTL

\* What is stored as parsed was cut with the length of the schema that decoded
\* it, however stale the parser that cut it.
THEOREM StoredAsCut == PageSpec => []ParsedAsCut
  <1>1. PageIInv => ParsedAsCut
    BY DEF PageIInv
  <1> QED
    BY <1>1, PageInductive, PTL

\* Every schema the registry holds lays its record out without a gap and
\* without an overlap, arrays included.
THEOREM LayoutsTile == PageSpec => []LayoutTiles
  <1>1. PageIInv => LayoutTiles
    BY RegistryTiles DEF PageIInv, PageTypeOK, LayoutTiles
  <1> QED
    BY <1>1, PageInductive, PTL

\* A number filled up to its right end is stored as the number its columns
\* spell, whether the field has a sign, a point or neither, and whether it is
\* filled with zeros or blanks on its left.
THEOREM NumbersAsSpelled == PageSpec => []PositionalValue
  <1>1. PageIInv => PositionalValue
    <2> SUFFICES ASSUME PageIInv, page \in {"saved", "inspect", "unreadable"},
                        NEW c \in cuts, stored[c].status = "parsed",
                        NEW s \in NumericSlots(stored[c].schema),
                        EndsInDigit(Slice(Record(c), s.from, s.to))
                 PROVE  LET t == stored[c].schema
                            chunk == Slice(Record(c), s.from, s.to)
                            v == BodyOf(t, Record(c))[Place(t, s)]
                        IN  v.number = Positional(chunk) /\ v.scale = FieldOf(t, s).digits[2]
      BY DEF PositionalValue
    <2>1. /\ \E reg \in Registries : stored[c].schema \in reg
          /\ ParseStatus(stored[c].schema, Record(c)) = "parsed"
      BY DEF PageIInv, StoredAsParsed
    <2>2. Ordinary(stored[c].schema) /\ Accepted(stored[c].schema)
      BY <2>1, RegistryHolds
    <2>3. Record(c) \in Seq(Nat)
      BY RecordLength
    <2> QED
      BY <2>1, <2>2, <2>3, ParsedColumns
  <1> QED
    BY <1>1, PageInductive, PTL

\* A record read by the schema it was stored with is the record that was parsed,
\* exact numbers included, and can always be read.
THEOREM RecordsReadBack == PageSpec => []ReadBack
  <1>1. PageIInv => ReadBack
    BY DEF PageIInv
  <1> QED
    BY <1>1, PageInductive, PTL
=============================================================================

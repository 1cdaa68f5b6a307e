------------------------- MODULE RecordLayoutProofs -------------------------
(***************************************************************************)
(* A schema text that build_schema accepts cuts its record into slots      *)
(* without a gap and without an overlap, whatever its fields, arrays and   *)
(* lengths are: proofs about RecordLayout.                                 *)
(***************************************************************************)
EXTENDS RecordLayout, NaturalsInduction, WellFoundedInduction, FiniteSetTheorems, TLAPS

-----------------------------------------------------------------------------
(* Numbers.                                                                *)

\* A set of numbers has a least one.
LEMMA LeastNumber ==
    ASSUME NEW T \in SUBSET Nat, T # {}
    PROVE  \E m \in T : \A n \in T : m <= n
  <1>1. IsWellFoundedOn(OpToRel(<, Nat), Nat)
    BY NatLessThanWellFounded
  <1>2. \E m \in T : \A n \in T : ~(<<n, m>> \in OpToRel(<, Nat))
    BY <1>1, WFMin
  <1>3. \E m \in T : \A n \in T : ~(n < m)
    BY <1>2 DEF OpToRel
  <1> QED
    BY <1>3

\* Induction, for a property given as a set.
LEMMA SetInduction ==
    ASSUME NEW S, 0 \in S, \A n \in Nat : n \in S => n + 1 \in S
    PROVE  Nat \subseteq S
  <1> SUFFICES ASSUME NEW k \in Nat, k \notin S
               PROVE  FALSE
    OBVIOUS
  <1>1. PICK m \in Nat \ S : \A n \in Nat \ S : m <= n
    BY LeastNumber
  <1>2. m - 1 \in Nat /\ m - 1 \in S
    BY <1>1
  <1> QED
    BY <1>1, <1>2

-----------------------------------------------------------------------------
(* The starts of a row of parts.                                           *)

\* Each part starts where the one before it ends.
LEMMA StartsAre ==
    ASSUME NEW lengths \in Seq(Nat)
    PROVE  /\ Starts(lengths) \in [1..(Len(lengths) + 1) -> Nat]
           /\ Starts(lengths)[1] = 0
           /\ \A k \in 1..Len(lengths) :
                 Starts(lengths)[k + 1] = Starts(lengths)[k] + lengths[k]
  <1> DEFINE N == Len(lengths)
             Rec(g, n) == g = [k \in 1..n |-> IF k = 1 THEN 0 ELSE g[k - 1] + lengths[k - 1]]
             Has(n) == n <= N => \E g \in [1..(n + 1) -> Nat] : Rec(g, n + 1)
             S == {n \in Nat : Has(n)}
  <1>1. N \in Nat /\ \A k \in 1..N : lengths[k] \in Nat
    OBVIOUS
  <1>2. Has(0)
    <2> DEFINE g == [k \in 1..1 |-> 0]
    <2>1. g \in [1..(0 + 1) -> Nat] /\ Rec(g, 0 + 1)
      OBVIOUS
    <2> QED
      BY <2>1
  <1>3. ASSUME NEW n \in Nat, Has(n)
        PROVE  Has(n + 1)
    <2> SUFFICES ASSUME n + 1 <= N
                 PROVE  \E g \in [1..((n + 1) + 1) -> Nat] : Rec(g, (n + 1) + 1)
      OBVIOUS
    <2>1. PICK g \in [1..(n + 1) -> Nat] : Rec(g, n + 1)
      BY <1>1, <1>3
    <2> DEFINE h == [k \in 1..((n + 1) + 1) |-> IF k = (n + 1) + 1 THEN g[n + 1] + lengths[n + 1] ELSE g[k]]
    <2>2. h \in [1..((n + 1) + 1) -> Nat]
      BY <1>1
    <2>3. ASSUME NEW k \in 1..((n + 1) + 1)
          PROVE  h[k] = IF k = 1 THEN 0 ELSE h[k - 1] + lengths[k - 1]
      <3>1. CASE k = (n + 1) + 1
        BY <3>1, <1>1
      <3>2. CASE k # (n + 1) + 1
        <4>1. k \in 1..(n + 1) /\ h[k] = g[k]
          BY <3>2
        <4>2. g[k] = IF k = 1 THEN 0 ELSE g[k - 1] + lengths[k - 1]
          BY <4>1, <2>1
        <4>3. k # 1 => h[k - 1] = g[k - 1]
          BY <4>1
        <4> QED
          BY <4>1, <4>2, <4>3
      <3> QED
        BY <3>1, <3>2
    <2>4. Rec(h, (n + 1) + 1)
      BY <2>3
    <2> QED
      BY <2>2, <2>4
  <1> HIDE DEF Has
  <1>4. Has(N)
    <2>1. 0 \in S /\ \A n \in Nat : n \in S => n + 1 \in S
      BY <1>2, <1>3
    <2> HIDE DEF S
    <2>2. N \in S
      BY <2>1, <1>1, SetInduction
    <2> QED
      BY <2>2 DEF S
  <1>5. PICK g \in [1..(N + 1) -> Nat] : Rec(g, N + 1)
    BY <1>1, <1>4 DEF Has
  <1>6. Rec(Starts(lengths), N + 1)
    BY <1>5, Zenon DEF Starts
  <1> DEFINE s == Starts(lengths)
             T == {n \in Nat : n <= N => s[n + 1] \in Nat}
  <1> HIDE DEF s
  <1>7. s = [k \in 1..(N + 1) |-> IF k = 1 THEN 0 ELSE s[k - 1] + lengths[k - 1]]
    BY <1>6 DEF s
  <1>8. s[1] = 0
    BY <1>1, <1>7
  <1>9. ASSUME NEW k \in 1..N
        PROVE  s[k + 1] = s[k] + lengths[k]
    BY <1>1, <1>7
  <1>10. 0 \in T
    BY <1>8
  <1>11. ASSUME NEW n \in Nat, n \in T
         PROVE  n + 1 \in T
    <2> SUFFICES ASSUME n + 1 <= N
                 PROVE  s[n + 2] \in Nat
      OBVIOUS
    <2>1. s[n + 1] \in Nat /\ n + 1 \in 1..N
      BY <1>1, <1>11
    <2> QED
      BY <2>1, <1>1, <1>9
  <1> HIDE DEF T
  <1>12. Nat \subseteq T
    BY <1>10, <1>11, SetInduction
  <1>13. ASSUME NEW k \in 1..(N + 1)
         PROVE  s[k] \in Nat
    <2>1. k - 1 \in Nat /\ k - 1 <= N /\ (k - 1) + 1 = k
      BY <1>1
    <2> QED
      BY <2>1, <1>12 DEF T
  <1>14. s \in [1..(N + 1) -> Nat]
    BY <1>7, <1>13
  <1> QED
    BY <1>8, <1>9, <1>14 DEF s

\* The starts do not decrease.
LEMMA StartsGrow ==
    ASSUME NEW lengths \in Seq(Nat),
           NEW i \in 1..(Len(lengths) + 1), NEW j \in 1..(Len(lengths) + 1), i <= j
    PROVE  Starts(lengths)[i] <= Starts(lengths)[j]
  <1> DEFINE s == Starts(lengths)
             N == Len(lengths)
             S == {n \in Nat : i + n <= N + 1 => s[i] <= s[i + n]}
  <1>1. N \in Nat /\ \A k \in 1..N : lengths[k] \in Nat
    OBVIOUS
  <1>2. s \in [1..(N + 1) -> Nat] /\ \A k \in 1..N : s[k + 1] = s[k] + lengths[k]
    BY StartsAre
  <1> HIDE DEF s, N
  <1>3. i \in 1..(N + 1) /\ j \in 1..(N + 1)
    BY DEF N
  <1>4. 0 \in S
    BY <1>1, <1>2, <1>3
  <1>5. ASSUME NEW n \in Nat, n \in S
        PROVE  n + 1 \in S
    <2> SUFFICES ASSUME i + (n + 1) <= N + 1
                 PROVE  s[i] <= s[i + (n + 1)]
      OBVIOUS
    <2>1. i + n \in 1..N /\ s[i] <= s[i + n] /\ i + (n + 1) = (i + n) + 1
      BY <1>1, <1>3, <1>5
    <2>2. s[i + n] \in Nat /\ lengths[i + n] \in Nat /\ s[i] \in Nat
      BY <2>1, <1>1, <1>2, <1>3
    <2>3. s[(i + n) + 1] = s[i + n] + lengths[i + n]
      BY <2>1, <1>2
    <2> QED
      BY <2>1, <2>2, <2>3
  <1> HIDE DEF S
  <1>6. j - i \in S
    <2>1. j - i \in Nat
      BY <1>1, <1>3
    <2> QED
      BY <2>1, <1>4, <1>5, SetInduction
  <1>7. i + (j - i) = j
    BY <1>1, <1>3
  <1> QED
    BY <1>1, <1>3, <1>6, <1>7 DEF S, s

\* Every place before the end lies in exactly one part.
LEMMA StartsSplit ==
    ASSUME NEW lengths \in Seq(Nat), NEW b \in Nat,
           b < Starts(lengths)[Len(lengths) + 1]
    PROVE  \E k \in 1..Len(lengths) :
              Starts(lengths)[k] <= b /\ b < Starts(lengths)[k + 1]
  <1> DEFINE s == Starts(lengths)
             N == Len(lengths)
             Past == {k \in 1..(N + 1) : b < s[k]}
  <1>1. s \in [1..(N + 1) -> Nat] /\ s[1] = 0 /\ N \in Nat
    BY StartsAre
  <1> HIDE DEF s, N
  <1>2. Past \in SUBSET Nat /\ Past # {}
    <2>1. N + 1 \in Past
      BY <1>1 DEF s, N
    <2> QED
      BY <2>1, <1>1
  <1> HIDE DEF Past
  <1>3. PICK m \in Past : \A n \in Past : m <= n
    BY <1>2, LeastNumber
  <1>4. m - 1 \in 1..N /\ (m - 1) + 1 = m /\ b < s[m]
    BY <1>1, <1>3 DEF Past
  <1>5. m - 1 \notin Past
    BY <1>2, <1>3, <1>4
  <1>6. s[m - 1] <= b
    BY <1>1, <1>4, <1>5 DEF Past
  <1> QED
    BY <1>3, <1>4, <1>6 DEF s, N

\* ... and in no other.
LEMMA StartsApart ==
    ASSUME NEW lengths \in Seq(Nat), NEW b \in Nat,
           NEW i \in 1..Len(lengths), NEW j \in 1..Len(lengths),
           Starts(lengths)[i] <= b, b < Starts(lengths)[i + 1],
           Starts(lengths)[j] <= b, b < Starts(lengths)[j + 1]
    PROVE  i = j
  <1> DEFINE s == Starts(lengths)
             N == Len(lengths)
  <1>1. s \in [1..(N + 1) -> Nat] /\ N \in Nat
    BY StartsAre
  <1>2. \A m, n \in 1..(N + 1) : m <= n => s[m] <= s[n]
    BY StartsGrow
  <1>3. s[i] <= b /\ b < s[i + 1] /\ s[j] <= b /\ b < s[j + 1]
    OBVIOUS
  <1> HIDE DEF s
  <1>4. i \in 1..N /\ j \in 1..N
    OBVIOUS
  <1> HIDE DEF N
  <1>5. s[i] \in Nat /\ s[j] \in Nat /\ s[i + 1] \in Nat /\ s[j + 1] \in Nat
    BY <1>1, <1>4
  <1>6. ~(i < j)
    <2> SUFFICES ASSUME i < j
                 PROVE  FALSE
      OBVIOUS
    <2>1. s[i + 1] <= s[j]
      BY <1>1, <1>2, <1>4
    <2> QED
      BY <2>1, <1>3, <1>5
  <1>7. ~(j < i)
    <2> SUFFICES ASSUME j < i
                 PROVE  FALSE
      OBVIOUS
    <2>1. s[j + 1] <= s[i]
      BY <1>1, <1>2, <1>4
    <2> QED
      BY <2>1, <1>3, <1>5
  <1> QED
    BY <1>1, <1>4, <1>6, <1>7

-----------------------------------------------------------------------------
(* The slots of an item.                                                   *)

\* An item whose lengths and counts are not negative.
MeasuredItem(item) ==
    \/ item.kind = "field" /\ item.length \in Nat
    \/ /\ item.kind = "array"
       /\ item.count \in Nat
       /\ item.fields \in Seq({item.fields[k] : k \in DOMAIN item.fields})
       /\ \A k \in DOMAIN item.fields : item.fields[k].length \in Nat

\* A multiple of a length grows with its factor.
LEMMA Multiples ==
    ASSUME NEW m \in Nat, NEW n \in Nat, NEW l \in Nat
    PROVE  /\ m * l \in Nat
           /\ m <= n => m * l <= n * l
           /\ (m + 1) * l = m * l + l
  OBVIOUS

\* The lengths of an array's fields.
LEMMA FieldLengthsAre ==
    ASSUME NEW item, item.kind # "field", MeasuredItem(item)
    PROVE  /\ FieldLengths(item.fields) \in Seq(Nat)
           /\ Len(FieldLengths(item.fields)) = Len(item.fields)
           /\ DOMAIN item.fields = 1..Len(item.fields)
           /\ Len(item.fields) \in Nat
           /\ \A f \in DOMAIN item.fields : /\ FieldLengths(item.fields)[f] = item.fields[f].length
                                            /\ item.fields[f].length \in Nat
           /\ ElementLength(item) \in Nat
  <1> DEFINE row == item.fields
             N == Len(row)
  <1>1. row \in Seq({row[k] : k \in DOMAIN row}) /\ \A k \in DOMAIN row : row[k].length \in Nat
    BY DEF MeasuredItem
  <1>2. DOMAIN row = 1..N /\ N \in Nat
    BY <1>1
  <1>3. FieldLengths(row) = [k \in 1..N |-> row[k].length]
    BY <1>2 DEF FieldLengths
  <1>4. \A k \in 1..N : row[k].length \in Nat
    BY <1>1, <1>2
  <1> HIDE DEF N
  <1>5. FieldLengths(row) \in Seq(Nat) /\ Len(FieldLengths(row)) = N
    BY <1>2, <1>3, <1>4
  <1>6. Starts(FieldLengths(row))[N + 1] \in Nat
    <2>1. Starts(FieldLengths(row)) \in [1..(N + 1) -> Nat]
      BY <1>5, StartsAre
    <2> QED
      BY <2>1, <1>2
  <1> QED
    BY <1>2, <1>3, <1>4, <1>5, <1>6 DEF N, ElementLength

\* The length of an item.
LEMMA ItemLengthIs ==
    ASSUME NEW item, MeasuredItem(item)
    PROVE  ItemLength(item) \in Nat
  <1>1. CASE item.kind = "field"
    BY <1>1 DEF MeasuredItem, ItemLength
  <1>2. CASE item.kind # "field"
    <2>1. ElementLength(item) \in Nat /\ item.count \in Nat
      BY <1>2, FieldLengthsAre DEF MeasuredItem
    <2>2. item.count * ElementLength(item) \in Nat
      BY <2>1, Multiples
    <2> QED
      BY <1>2, <2>2 DEF ItemLength
  <1> QED
    BY <1>1, <1>2

\* A slot of an array starts and ends in its element.
LEMMA ElementSlot ==
    ASSUME NEW item, MeasuredItem(item), item.kind # "field",
           NEW e \in 1..item.count, NEW f \in DOMAIN item.fields
    PROVE  /\ (e - 1) * ElementLength(item) \in Nat
           /\ e * ElementLength(item) = (e - 1) * ElementLength(item) + ElementLength(item)
           /\ e * ElementLength(item) <= item.count * ElementLength(item)
           /\ Starts(FieldLengths(item.fields))[f] \in Nat
           /\ Starts(FieldLengths(item.fields))[f + 1] =
                 Starts(FieldLengths(item.fields))[f] + item.fields[f].length
           /\ Starts(FieldLengths(item.fields))[f + 1] <= ElementLength(item)
  <1> DEFINE l == FieldLengths(item.fields)
             N == Len(item.fields)
  <1>1. /\ l \in Seq(Nat) /\ Len(l) = N /\ DOMAIN item.fields = 1..N /\ N \in Nat
        /\ l[f] = item.fields[f].length
        /\ ElementLength(item) \in Nat
    BY FieldLengthsAre
  <1>2. item.count \in Nat /\ e \in Nat /\ e - 1 \in Nat /\ e <= item.count /\ (e - 1) + 1 = e
    BY DEF MeasuredItem
  <1>3. ElementLength(item) = Starts(l)[N + 1]
    BY DEF ElementLength
  <1>4. f \in 1..N /\ f + 1 \in 1..(N + 1) /\ N + 1 \in 1..(N + 1) /\ f + 1 <= N + 1
    BY <1>1
  <1> HIDE DEF l, N
  <1>5. Starts(l)[f] \in Nat /\ Starts(l)[f + 1] = Starts(l)[f] + l[f]
    BY <1>1, <1>4, StartsAre
  <1>6. Starts(l)[f + 1] <= Starts(l)[N + 1]
    BY <1>1, <1>4, StartsGrow
  <1>7. /\ (e - 1) * ElementLength(item) \in Nat
        /\ ((e - 1) + 1) * ElementLength(item) = (e - 1) * ElementLength(item) + ElementLength(item)
        /\ e * ElementLength(item) <= item.count * ElementLength(item)
    BY <1>1, <1>2, Multiples
  <1> QED
    BY <1>1, <1>2, <1>3, <1>5, <1>6, <1>7 DEF l

\* The slots of an item lie in it.
LEMMA ItemSlotsInside ==
    ASSUME NEW item, MeasuredItem(item), NEW k, NEW offset \in Nat,
           NEW s \in ItemSlots(k, item, offset)
    PROVE  /\ s.item = k /\ s.from \in Nat /\ s.to \in Nat
           /\ offset <= s.from /\ s.from <= s.to /\ s.to <= offset + ItemLength(item)
  <1>1. CASE item.kind = "field"
    BY <1>1 DEF ItemSlots, Slot, MeasuredItem, ItemLength
  <1>2. CASE item.kind # "field"
    <2> DEFINE l == FieldLengths(item.fields)
               w == ElementLength(item)
    <2>1. PICK e \in 1..item.count, f \in DOMAIN item.fields :
              s = Slot(k, e, f, offset + (e - 1) * w + Starts(l)[f], item.fields[f].length)
      BY <1>2 DEF ItemSlots
    <2>2. /\ (e - 1) * w \in Nat
          /\ e * w = (e - 1) * w + w
          /\ e * w <= item.count * w
          /\ Starts(l)[f] \in Nat
          /\ Starts(l)[f + 1] = Starts(l)[f] + item.fields[f].length
          /\ Starts(l)[f + 1] <= w
      BY <1>2, ElementSlot
    <2>3. ItemLength(item) = item.count * w /\ w \in Nat /\ item.fields[f].length \in Nat
      BY <1>2, FieldLengthsAre DEF ItemLength
    <2>4. item.count * w \in Nat
      BY <2>3, <1>2, Multiples DEF MeasuredItem
    <2> HIDE DEF l, w
    <2>5. /\ s.item = k
          /\ s.from = offset + (e - 1) * w + Starts(l)[f]
          /\ s.to = offset + (e - 1) * w + Starts(l)[f] + item.fields[f].length
      BY <2>1 DEF Slot
    <2> DEFINE before == (e - 1) * w
               all == item.count * w
    <2>6. /\ before \in Nat /\ all \in Nat /\ before + w <= all
          /\ s.from = offset + before + Starts(l)[f]
          /\ s.to = offset + before + Starts(l)[f] + item.fields[f].length
          /\ ItemLength(item) = all
      BY <2>2, <2>3, <2>4, <2>5
    <2> HIDE DEF before, all
    <2> QED
      BY <2>2, <2>3, <2>5, <2>6
  <1> QED
    BY <1>1, <1>2

\* The slot covers a byte.
Covers(s, b) == s.from <= b /\ b < s.to

\* A byte of an array lies in one element.
LEMMA ElementOf ==
    ASSUME NEW n \in Nat, NEW w \in Nat, NEW d \in Nat, d < n * w
    PROVE  \E e \in 1..n : (e - 1) * w <= d /\ d < e * w
  <1> DEFINE Past == {e \in 0..n : d < e * w}
  <1>1. Past \in SUBSET Nat /\ Past # {}
    <2>1. n \in Past
      OBVIOUS
    <2> QED
      BY <2>1
  <1> HIDE DEF Past
  <1>2. PICK e \in Past : \A m \in Past : e <= m
    BY <1>1, LeastNumber
  <1>3. e \in 0..n /\ d < e * w
    BY <1>2 DEF Past
  <1>4. e # 0
    BY <1>3
  <1>5. e - 1 \in 0..n /\ e - 1 \notin Past
    BY <1>1, <1>2, <1>3, <1>4
  <1>6. ~(d < (e - 1) * w)
    BY <1>5 DEF Past
  <1>7. (e - 1) * w \in Nat
    BY <1>3, <1>4, Multiples
  <1>8. (e - 1) * w <= d
    BY <1>6, <1>7
  <1> QED
    BY <1>3, <1>4, <1>8

\* ... and in no other.
LEMMA ElementsApart ==
    ASSUME NEW w \in Nat, NEW d \in Nat, NEW i \in Nat \ {0}, NEW j \in Nat \ {0},
           (i - 1) * w <= d, d < i * w, (j - 1) * w <= d, d < j * w
    PROVE  i = j
  <1>1. ASSUME NEW m \in Nat \ {0}, NEW n \in Nat \ {0}, d < m * w, (n - 1) * w <= d
        PROVE  ~(m < n)
    <2> SUFFICES ASSUME m < n
                 PROVE  FALSE
      OBVIOUS
    <2>1. n - 1 \in Nat /\ m \in Nat /\ m <= n - 1
      OBVIOUS
    <2>2. m * w <= (n - 1) * w /\ m * w \in Nat /\ (n - 1) * w \in Nat
      BY <2>1, Multiples
    <2> DEFINE a == m * w
               c == (n - 1) * w
    <2>3. d < a /\ c <= d /\ a <= c /\ a \in Nat /\ c \in Nat
      BY <1>1, <2>2
    <2> HIDE DEF a, c
    <2> QED
      BY <2>3
  <1>2. ~(i < j) /\ ~(j < i)
    BY <1>1
  <1> QED
    BY <1>2

\* A byte of an item lies in one of its slots.
LEMMA ItemCovered ==
    ASSUME NEW item, MeasuredItem(item), NEW k, NEW offset \in Nat,
           NEW b \in Nat, offset <= b, b < offset + ItemLength(item)
    PROVE  \E s \in ItemSlots(k, item, offset) : Covers(s, b)
  <1>1. CASE item.kind = "field"
    BY <1>1 DEF ItemSlots, Slot, MeasuredItem, ItemLength, Covers
  <1>2. CASE item.kind # "field"
    <2> DEFINE l == FieldLengths(item.fields)
               w == ElementLength(item)
               N == Len(item.fields)
               d == b - offset
    <2>1. /\ l \in Seq(Nat) /\ Len(l) = N /\ DOMAIN item.fields = 1..N /\ N \in Nat
          /\ \A f \in 1..N : l[f] = item.fields[f].length /\ l[f] \in Nat
          /\ w \in Nat
      BY <1>2, FieldLengthsAre
    <2>2. item.count \in Nat /\ ItemLength(item) = item.count * w
      BY <1>2 DEF MeasuredItem, ItemLength
    <2>3. w = Starts(l)[N + 1]
      BY DEF ElementLength
    <2>4. item.count * w \in Nat
      BY <2>1, <2>2, Multiples
    <2>5. d \in Nat /\ d < item.count * w
      BY <2>2, <2>4
    <2> HIDE DEF w, l, N
    <2>6. PICK e \in 1..item.count : (e - 1) * w <= d /\ d < e * w
      BY <2>1, <2>2, <2>5, ElementOf
    <2> DEFINE before == (e - 1) * w
               r == d - before
    <2>7. before \in Nat /\ e * w = before + w
      <3>1. e - 1 \in Nat /\ (e - 1) + 1 = e
        BY <2>2
      <3>2. before \in Nat /\ ((e - 1) + 1) * w = before + w
        BY <3>1, <2>1, Multiples
      <3> QED
        BY <3>1, <3>2
    <2>8. before <= d /\ d < before + w
      BY <2>6, <2>7
    <2> HIDE DEF before
    <2>9. r \in Nat /\ r < Starts(l)[N + 1]
      BY <2>1, <2>3, <2>5, <2>7, <2>8
    <2>10. PICK f \in 1..N : Starts(l)[f] <= r /\ r < Starts(l)[f + 1]
      <3> HIDE DEF r
      <3> QED
        BY <2>1, <2>9, StartsSplit
    <2>11. /\ Starts(l)[f] \in Nat
           /\ Starts(l)[f + 1] = Starts(l)[f] + l[f]
      <3>1. Starts(l) \in [1..(N + 1) -> Nat] /\ \A m \in 1..N : Starts(l)[m + 1] = Starts(l)[m] + l[m]
        BY <2>1, StartsAre
      <3>2. f \in 1..(N + 1)
        BY <2>1
      <3> QED
        BY <3>1, <3>2
    <2> DEFINE s == Slot(k, e, f, offset + before + Starts(l)[f], l[f])
    <2>12. s \in ItemSlots(k, item, offset)
      <3>1. ItemSlots(k, item, offset) =
               {Slot(k, x, y, offset + (x - 1) * w + Starts(l)[y], item.fields[y].length) :
                  x \in 1..item.count, y \in DOMAIN item.fields}
        BY <1>2 DEF ItemSlots, w, l
      <3>2. f \in DOMAIN item.fields /\ l[f] = item.fields[f].length
        BY <2>1
      <3> HIDE DEF w, l
      <3> QED
        BY <3>1, <3>2 DEF before
    <2>13. s.from = offset + before + Starts(l)[f] /\ s.to = offset + before + Starts(l)[f] + l[f]
      BY DEF Slot
    <2>14. Covers(s, b)
      BY <2>1, <2>7, <2>10, <2>11, <2>13 DEF Covers
    <2> QED
      BY <2>12, <2>14
  <1> QED
    BY <1>1, <1>2

\* ... and in one only.
LEMMA ItemSlotsApart ==
    ASSUME NEW item, MeasuredItem(item), NEW k, NEW offset \in Nat, NEW b \in Nat,
           NEW s \in ItemSlots(k, item, offset), NEW t \in ItemSlots(k, item, offset),
           Covers(s, b), Covers(t, b)
    PROVE  s = t
  <1>1. CASE item.kind = "field"
    BY <1>1 DEF ItemSlots
  <1>2. CASE item.kind # "field"
    <2> DEFINE l == FieldLengths(item.fields)
               w == ElementLength(item)
               N == Len(item.fields)
               d == b - offset
               At(e, f) == offset + (e - 1) * w + Starts(l)[f]
    <2>1. /\ l \in Seq(Nat) /\ Len(l) = N /\ DOMAIN item.fields = 1..N /\ N \in Nat
          /\ \A f \in 1..N : l[f] = item.fields[f].length /\ l[f] \in Nat
          /\ w \in Nat
      BY <1>2, FieldLengthsAre
    <2>2. item.count \in Nat
      BY <1>2 DEF MeasuredItem
    <2>3. ASSUME NEW x \in ItemSlots(k, item, offset)
          PROVE  \E e \in 1..item.count, f \in 1..N : x = Slot(k, e, f, At(e, f), l[f])
      <3>1. PICK e \in 1..item.count, f \in DOMAIN item.fields :
                x = Slot(k, e, f, offset + (e - 1) * w + Starts(l)[f], item.fields[f].length)
        BY <1>2 DEF ItemSlots
      <3>2. f \in 1..N /\ l[f] = item.fields[f].length
        BY <2>1
      <3>3. x = Slot(k, e, f, At(e, f), l[f])
        BY <3>1, <3>2
      <3> QED
        BY <3>2, <3>3
    <2>4. b >= offset
      BY ItemSlotsInside DEF Covers
    <2>5. d \in Nat
      BY <2>4
    <2>6. ASSUME NEW e \in 1..item.count, NEW f \in 1..N,
                 Covers(Slot(k, e, f, At(e, f), l[f]), b)
          PROVE  /\ (e - 1) * w \in Nat /\ (e - 1) * w <= d /\ d < e * w
                 /\ Starts(l)[f] <= d - (e - 1) * w /\ d - (e - 1) * w < Starts(l)[f + 1]
      <3> DEFINE before == (e - 1) * w
      <3>1. /\ before \in Nat
            /\ e * w = before + w
            /\ Starts(l)[f] \in Nat
            /\ Starts(l)[f + 1] = Starts(l)[f] + l[f]
            /\ Starts(l)[f + 1] <= w
        <4>1. f \in DOMAIN item.fields /\ l[f] = item.fields[f].length
          BY <2>1
        <4>2. /\ (e - 1) * ElementLength(item) \in Nat
              /\ e * ElementLength(item) = (e - 1) * ElementLength(item) + ElementLength(item)
              /\ Starts(FieldLengths(item.fields))[f] \in Nat
              /\ Starts(FieldLengths(item.fields))[f + 1]
                    = Starts(FieldLengths(item.fields))[f] + item.fields[f].length
              /\ Starts(FieldLengths(item.fields))[f + 1] <= ElementLength(item)
          BY <1>2, <4>1, ElementSlot
        <4> QED
          BY <4>1, <4>2
      <3>2. offset + before + Starts(l)[f] <= b /\ b < offset + before + Starts(l)[f] + l[f]
        BY <2>6 DEF Covers, Slot
      <3>3. l[f] \in Nat /\ w \in Nat
        BY <2>1
      <3> HIDE DEF before, w, l, N, At
      <3>4. before <= d /\ d < before + w /\ Starts(l)[f] <= d - before /\ d - before < Starts(l)[f + 1]
        BY <3>1, <3>2, <3>3
      <3> QED
        BY <3>1, <3>4 DEF before
    <2>7. PICK e \in 1..item.count, f \in 1..N : s = Slot(k, e, f, At(e, f), l[f])
      BY <2>3
    <2>8. PICK g \in 1..item.count, h \in 1..N : t = Slot(k, g, h, At(g, h), l[h])
      BY <2>3
    <2>9. /\ (e - 1) * w \in Nat /\ (e - 1) * w <= d /\ d < e * w
          /\ Starts(l)[f] <= d - (e - 1) * w /\ d - (e - 1) * w < Starts(l)[f + 1]
      BY <2>6, <2>7
    <2>10. /\ (g - 1) * w <= d /\ d < g * w
           /\ Starts(l)[h] <= d - (g - 1) * w /\ d - (g - 1) * w < Starts(l)[h + 1]
      BY <2>6, <2>8
    <2> HIDE DEF w, l, N, d
    <2>11. e = g
      <3>1. e \in Nat \ {0} /\ g \in Nat \ {0}
        BY <2>2
      <3> QED
        BY <3>1, <2>1, <2>5, <2>9, <2>10, ElementsApart
    <2> DEFINE r == d - (e - 1) * w
    <2>12. r \in Nat
      BY <2>5, <2>9
    <2>13. Starts(l)[f] <= r /\ r < Starts(l)[f + 1] /\ Starts(l)[h] <= r /\ r < Starts(l)[h + 1]
      BY <2>9, <2>10, <2>11
    <2>14. f = h
      <3> HIDE DEF r
      <3> QED
        BY <2>1, <2>12, <2>13, StartsApart
    <2> QED
      BY <2>7, <2>8, <2>11, <2>14
  <1> QED
    BY <1>1, <1>2

-----------------------------------------------------------------------------
(* The slots of a record.                                                  *)

\* A layout whose lengths and counts are not negative; build_schema does not
\* look at that.
MeasuredText(text) ==
    /\ text.layout \in Seq({text.layout[k] : k \in DOMAIN text.layout})
    /\ \A k \in DOMAIN text.layout : MeasuredItem(text.layout[k])

ItemLengths(text) == [k \in DOMAIN text.layout |-> ItemLength(text.layout[k])]

\* Where the items of a layout start.
LEMMA OffsetsAre ==
    ASSUME NEW text, MeasuredText(text), Accepted(text)
    PROVE  /\ DOMAIN text.layout = 1..Len(text.layout) /\ Len(text.layout) \in Nat
           /\ ItemLengths(text) \in Seq(Nat) /\ Len(ItemLengths(text)) = Len(text.layout)
           /\ Offsets(text.layout) = Starts(ItemLengths(text))
           /\ text.length = Offsets(text.layout)[Len(text.layout) + 1]
           /\ text.length \in Nat
           /\ \A k \in 1..Len(text.layout) :
                 /\ MeasuredItem(text.layout[k])
                 /\ Offsets(text.layout)[k] \in Nat
                 /\ Offsets(text.layout)[k + 1] =
                       Offsets(text.layout)[k] + ItemLength(text.layout[k])
                 /\ Offsets(text.layout)[k + 1] <= text.length
  <1> DEFINE row == text.layout
             N == Len(row)
             l == ItemLengths(text)
             o == Offsets(row)
  <1>1. DOMAIN row = 1..N /\ N \in Nat
    BY DEF MeasuredText
  <1>2. \A k \in 1..N : MeasuredItem(row[k]) /\ ItemLength(row[k]) \in Nat
    BY <1>1, ItemLengthIs DEF MeasuredText
  <1>3. l = [k \in 1..N |-> ItemLength(row[k])] /\ o = Starts(l)
    BY <1>1 DEF ItemLengths, Offsets
  <1>4. o[N + 1] = text.length
    BY DEF Accepted
  <1> HIDE DEF o, l, row, N
  <1>5. l \in Seq(Nat) /\ Len(l) = N
    BY <1>1, <1>2, <1>3
  <1>6. o \in [1..(N + 1) -> Nat] /\ \A k \in 1..N : o[k + 1] = o[k] + l[k]
    BY <1>3, <1>5, StartsAre
  <1>7. \A k \in 1..N : o[k + 1] <= o[N + 1]
    <2> SUFFICES ASSUME NEW k \in 1..N
                 PROVE  o[k + 1] <= o[N + 1]
      OBVIOUS
    <2>1. k + 1 \in 1..(N + 1) /\ N + 1 \in 1..(N + 1) /\ k + 1 <= N + 1
      BY <1>1
    <2> QED
      BY <2>1, <1>3, <1>5, StartsGrow
  <1>8. text.length \in Nat /\ \A k \in 1..N : o[k] \in Nat /\ l[k] = ItemLength(row[k])
    BY <1>1, <1>3, <1>4, <1>6
  <1> QED
    BY <1>1, <1>2, <1>3, <1>4, <1>5, <1>6, <1>7, <1>8 DEF o, l, row, N

\* A text that build_schema accepts has its slots side by side: every byte of
\* the record belongs to one, and none leaves the record.
LEMMA AcceptedTiles ==
    ASSUME NEW text, MeasuredText(text), Accepted(text)
    PROVE  Tiled(text)
  <1> DEFINE N == Len(text.layout)
             o == Offsets(text.layout)
             l == ItemLengths(text)
             Of(k) == ItemSlots(k, text.layout[k], o[k])
  <1>1. /\ N \in Nat /\ o = Starts(l) /\ l \in Seq(Nat) /\ Len(l) = N
        /\ text.length = o[N + 1] /\ text.length \in Nat
        /\ \A k \in 1..N : /\ MeasuredItem(text.layout[k])
                           /\ o[k] \in Nat
                           /\ o[k + 1] = o[k] + ItemLength(text.layout[k])
                           /\ o[k + 1] <= text.length
    BY OffsetsAre
  <1>2. Slots(text) = UNION {Of(k) : k \in 1..N}
    BY OffsetsAre DEF Slots
  <1>3. \A s : s \in Slots(text) <=> \E k \in 1..N : s \in Of(k)
    BY <1>2
  <1>4. ASSUME NEW k \in 1..N, NEW s \in Of(k)
        PROVE  /\ s.from \in Nat /\ s.to \in Nat
               /\ o[k] <= s.from /\ s.from <= s.to /\ s.to <= o[k + 1]
    BY <1>1, ItemSlotsInside
  <1> HIDE DEF N, o, l
  <1>5. ASSUME NEW b \in 0..(text.length - 1)
        PROVE  Cardinality({s \in Slots(text) : s.from <= b /\ b < s.to}) = 1
    <2>1. b \in Nat /\ b < Starts(l)[Len(l) + 1]
      BY <1>1
    <2>2. PICK k \in 1..N : o[k] <= b /\ b < o[k + 1]
      BY <1>1, <2>1, StartsSplit
    <2>3. PICK s \in Of(k) : Covers(s, b)
      <3>1. /\ MeasuredItem(text.layout[k]) /\ o[k] \in Nat
            /\ o[k] <= b /\ b < o[k] + ItemLength(text.layout[k])
        BY <1>1, <2>2
      <3> HIDE DEF o
      <3> QED
        BY <2>1, <3>1, ItemCovered
    <2>4. ASSUME NEW t \in Slots(text), Covers(t, b)
          PROVE  t = s
      <3>1. PICK j \in 1..N : t \in Of(j)
        BY <1>3
      <3> HIDE DEF Of
      <3>2. o[j] <= b /\ b < o[j + 1]
        <4>1. /\ t.from \in Nat /\ t.to \in Nat /\ t.from <= b /\ b < t.to
              /\ o[j] <= t.from /\ t.to <= o[j + 1]
          BY <1>4, <2>4, <3>1 DEF Covers
        <4>2. o[j] \in Nat /\ o[j + 1] \in Nat
          <5>1. MeasuredItem(text.layout[j]) /\ o[j] \in Nat
                /\ o[j + 1] = o[j] + ItemLength(text.layout[j])
            BY <1>1
          <5>2. ItemLength(text.layout[j]) \in Nat
            BY <5>1, ItemLengthIs
          <5> QED
            BY <5>1, <5>2
        <4> QED
          BY <4>1, <4>2, <2>1
      <3>3. j = k
        BY <1>1, <2>1, <2>2, <3>2, StartsApart
      <3> QED
        BY <1>1, <2>1, <2>3, <2>4, <3>1, <3>3, ItemSlotsApart DEF Of
    <2>5. s \in Slots(text)
      BY <1>3
    <2>6. {t \in Slots(text) : t.from <= b /\ b < t.to} = {s}
      BY <2>3, <2>4, <2>5 DEF Covers
    <2> QED
      BY <2>6, FS_Singleton
  <1>6. ASSUME NEW s \in Slots(text)
        PROVE  0 <= s.from /\ s.from <= s.to /\ s.to <= text.length
    <2>1. PICK k \in 1..N : s \in Of(k)
      BY <1>3
    <2>2. /\ s.from \in Nat /\ s.to \in Nat
          /\ o[k] <= s.from /\ s.from <= s.to /\ s.to <= o[k + 1]
      BY <1>4, <2>1
    <2>3. ItemLength(text.layout[k]) \in Nat
      BY <1>1, ItemLengthIs
    <2>4. o[k] \in Nat /\ o[k + 1] = o[k] + ItemLength(text.layout[k]) /\ o[k + 1] <= text.length
      BY <1>1
    <2> HIDE DEF Of
    <2> QED
      BY <1>1, <2>2, <2>3, <2>4
  <1> QED
    BY <1>5, <1>6 DEF Tiled
=============================================================================

------------------------- MODULE RecordSlicerProofs -------------------------
(***************************************************************************)
(* iter_records cuts every payload correctly, for every registry, payload  *)
(* and record length: proofs about RecordSlicer.                           *)
(***************************************************************************)
EXTENDS RecordSlicer, TLAPS

\* Lengths are numbers.
LEMMA RecordEndInt ==
    ASSUME NEW p \in Int, Known(p)
    PROVE  lengthAt[p] \in Int /\ RecordEnd(p) \in Int
  <1>1. lengthAt[p] \in Int
    BY SlicerAssumption DEF Known
  <1> QED
    BY <1>1 DEF RecordEnd

\* While the loop goes onward, the cursor is where the next record is read.
LEMMA OnwardHere ==
    ASSUME SlicerIInv, Onward
    PROVE  at \in Nat /\ Here = at
  BY DEF SlicerIInv, SlicerTypeOK, Here

\* The start of the loop: the cursor is at the first byte.
LEMMA SlicerInitIInv == SlicerInit => SlicerIInv
  <1> SUFFICES ASSUME SlicerInit
               PROVE  SlicerIInv
    OBVIOUS
  <1>1. SlicerTypeOK
    BY SlicerAssumption DEF SlicerInit, SlicerTypeOK
  <1>2. RecordsTile
    BY DEF SlicerInit, RecordsTile, CutsUpTo
  <1>3. Follows
    <2> SUFFICES ASSUME NEW C \in SUBSET Starting, CutsUpTo(C, total)
                 PROVE  at \in C \cup {total} /\ cuts = {p \in C : p < at}
      BY DEF Follows
    <2>1. \A p \in C : ~(p < 0)
      BY SlicerAssumption DEF Starting, Places
    <2> QED
      BY <2>1 DEF SlicerInit, CutsUpTo
  <1> QED
    BY <1>1, <1>2, <1>3 DEF SlicerInit, SlicerIInv, StopsAtTail

\* What a record that is cut off leaves.
LEMMA CutFacts ==
    ASSUME SlicerIInv, Cut
    PROVE  /\ Here \in Places /\ Known(Here) /\ at \in Int /\ total \in Nat
           /\ cuts' = cuts \cup {Here}
           /\ at' = at + lengthAt[Here] /\ at' \in Int /\ at' <= total
           /\ \A p : Known(p)' <=> Known(p)
           /\ \A p : RecordEnd(p)' = RecordEnd(p)
           /\ Onward' => Onward
  <1>1. at \in Int /\ total \in Nat
    BY SlicerAssumption DEF SlicerIInv, SlicerTypeOK
  <1>2. Here \in Places
    BY <1>1, SlicerAssumption DEF Cut, PeekFits, ReadsCode, Here, Places
  <1>3. Known(Here) /\ lengthAt[Here] \in Int
    BY <1>2, RecordEndInt DEF Cut, ReadsCode, Places
  <1>4. cuts' = cuts \cup {Here} /\ at' = at + lengthAt[Here] /\ at' <= total
    BY DEF Cut, NextAt, RecordFits
  <1>5. \A p : (Known(p)' <=> Known(p)) /\ RecordEnd(p)' = RecordEnd(p)
    BY DEF Cut, payloadRead, Known, RecordEnd
  <1>6. Onward' => Onward
    BY <1>4, <1>5 DEF Onward
  <1> QED
    BY <1>1, <1>2, <1>3, <1>4, <1>5, <1>6

\* A record is cut off: the cutting grows by one adjacent record.
LEMMA CutTiles ==
    ASSUME SlicerIInv, Cut
    PROVE  RecordsTile'
  <1> SUFFICES ASSUME Onward'
               PROVE  CutsUpTo(cuts, at)'
    BY DEF RecordsTile, CutsUpTo
  <1>0. Onward /\ Here = at /\ at \in Nat
    BY CutFacts, OnwardHere
  <1>1. Known(at) /\ cuts' = cuts \cup {at} /\ at' = RecordEnd(at)
    BY <1>0, CutFacts DEF RecordEnd
  <1>3. \A p : Known(p)' <=> Known(p)
    BY CutFacts
  <1>4. \A p : RecordEnd(p)' = RecordEnd(p)
    BY CutFacts
  <1>2. at < RecordEnd(at) /\ RecordEnd(at) \in Nat
    <2>1. at < RecordEnd(at)
      BY <1>1, <1>4 DEF Onward
    <2> QED
      BY <1>0, <1>1, <2>1, RecordEndInt
  <1>5. \A p \in cuts : /\ p \in Nat /\ Known(p) /\ p < at
                       /\ p < RecordEnd(p) /\ RecordEnd(p) \in cuts \cup {at}
    BY <1>0 DEF SlicerIInv, SlicerTypeOK, RecordsTile, CutsUpTo, Places
  <1>6. \A p \in cuts : RecordEnd(p) \in Nat /\ RecordEnd(p) <= at
    BY <1>0, <1>5, RecordEndInt DEF SlicerIInv, RecordsTile, CutsUpTo
  <1>7. at' = 0 \/ 0 \in cuts'
    BY <1>0, <1>1 DEF SlicerIInv, RecordsTile, CutsUpTo
  <1>8. \A p \in cuts' : /\ Known(p)' /\ p < RecordEnd(p)'
                        /\ RecordEnd(p)' \in cuts' \cup {at'}
    BY <1>1, <1>2, <1>3, <1>4, <1>5
  <1>9. ASSUME NEW p \in cuts', NEW q \in cuts', p < q
        PROVE  RecordEnd(p)' <= q
    <2>1. RecordEnd(p)' = RecordEnd(p)
      BY <1>4
    <2>2. CASE p \in cuts /\ q \in cuts
      BY <2>1, <2>2, <1>0, <1>9 DEF SlicerIInv, RecordsTile, CutsUpTo
    <2>3. CASE p \in cuts /\ q = at
      BY <2>1, <2>3, <1>6
    <2>4. CASE p = at /\ q \in cuts
      BY <2>4, <1>0, <1>5, <1>9
    <2> QED
      BY <1>0, <1>1, <1>9, <2>2, <2>3, <2>4
  <1>10. \A p \in cuts' : RecordEnd(p)' <= at'
    BY <1>0, <1>1, <1>2, <1>4, <1>6
  <1> QED
    BY <1>7, <1>8, <1>9, <1>10 DEF CutsUpTo

\* Where a whole cutting exists, its next record is the one cut off.
LEMMA CutFollows ==
    ASSUME SlicerIInv, Cut
    PROVE  Follows'
  <1>1. total \in Nat /\ total' = total /\ Starting' = Starting
    BY CutFacts DEF Cut, payloadRead, Starting, Places, Known
  <1>2. ASSUME NEW C \in SUBSET Starting, CutsUpTo(C, total)'
        PROVE  (at \in C \cup {total} /\ cuts = {p \in C : p < at})'
    <2>1. CutsUpTo(C, total)
      BY <1>1, <1>2 DEF Cut, payloadRead, CutsUpTo, Known, RecordEnd
    <2>2. at \in C \cup {total} /\ cuts = {p \in C : p < at}
      BY <2>1 DEF SlicerIInv, Follows
    <2>3. \A p \in C : p \in Nat /\ p < total
      BY <1>1 DEF Starting, Places
    <2>4. Here = at /\ at \in Nat
      BY <1>1, <2>2, <2>3 DEF Here
    <2>5. at \in C
      <3>1. at < total
        BY <1>1, <2>4, CutFacts DEF Places
      <3> QED
        BY <1>1, <2>2, <3>1
    <2>6. at < RecordEnd(at) /\ RecordEnd(at) \in C \cup {total}
      BY <2>1, <2>5 DEF CutsUpTo
    <2>7. \A p \in C : p < RecordEnd(at) <=> p < at \/ p = at
      <3>1. RecordEnd(at) \in Nat
        BY <1>1, <2>3, <2>6
      <3>2. \A p \in C : at < p => RecordEnd(at) <= p
        BY <2>1, <2>5 DEF CutsUpTo
      <3> QED
        BY <2>3, <2>4, <2>6, <3>1, <3>2
    <2>8. cuts' = cuts \cup {at} /\ at' = RecordEnd(at)
      BY <2>4, CutFacts DEF RecordEnd
    <2> QED
      BY <1>1, <2>2, <2>5, <2>6, <2>7, <2>8
  <1> QED
    BY <1>1, <1>2 DEF Follows

\* The loop cuts one record off.
LEMMA CutIInv ==
    ASSUME SlicerIInv, Cut
    PROVE  SlicerIInv'
  <1>1. SlicerTypeOK'
    <2>1. Here \in Places /\ cuts' = cuts \cup {Here} /\ at' \in Int /\ at' <= total
      BY CutFacts
    <2> QED
      BY <2>1 DEF SlicerIInv, SlicerTypeOK, Cut, payloadRead, Places
  <1>2. ASSUME Onward'
        PROVE  at' >= 0 /\ \A p \in cuts' : p < at'
    <2>1. Onward /\ at \in Nat /\ Here = at
      BY <1>2, CutFacts, OnwardHere
    <2>2. cuts' = cuts \cup {at} /\ at' = RecordEnd(at) /\ at' \in Int /\ at < RecordEnd(at)
      BY <1>2, <2>1, CutFacts DEF Onward, RecordEnd
    <2>3. \A p \in cuts : p \in Nat /\ p < at
      BY <2>1 DEF SlicerIInv, SlicerTypeOK, Places
    <2> QED
      BY <2>1, <2>2, <2>3
  <1>3. StopsAtTail'
    BY DEF Cut, StopsAtTail
  <1> QED
    BY <1>1, <1>2, <1>3, CutTiles, CutFollows DEF SlicerIInv

\* The loop ends, where no whole record starts.
LEMMA StopIInv ==
    ASSUME SlicerIInv, Stop, ~(PeekFits(at) /\ ReadsCode /\ RecordFits)
    PROVE  SlicerIInv'
  <1> USE DEF Stop, payloadRead
  <1>1. SlicerTypeOK'
    BY DEF SlicerIInv, SlicerTypeOK, Places
  <1>2. RecordsTile' /\ Follows'
    BY DEF SlicerIInv, RecordsTile, Follows, CutsUpTo, Starting, Places, Known, RecordEnd,
           Onward
  <1>3. StopsAtTail'
    BY DEF StopsAtTail, PeekFits, ReadsCode, Known, RecordFits, NextAt, Here
  <1> QED
    BY <1>1, <1>2, <1>3 DEF SlicerIInv, Onward, RecordEnd

\* Every step of the loop keeps the invariant.
LEMMA SlicerStepIInv == SlicerIInv /\ [SlicerNext]_slicerVars => SlicerIInv'
  <1> SUFFICES ASSUME SlicerIInv, [SlicerNext]_slicerVars
               PROVE  SlicerIInv'
    OBVIOUS
  <1>1. CASE Cut
    BY <1>1, CutIInv
  <1>2. CASE TailTooShort
    BY <1>2, StopIInv DEF TailTooShort
  <1>3. CASE UnknownCode
    BY <1>3, StopIInv DEF UnknownCode
  <1>4. CASE TailIncomplete
    BY <1>4, StopIInv DEF TailIncomplete
  <1>5. CASE UNCHANGED slicerVars
    BY <1>5 DEF slicerVars, payloadRead, SlicerIInv, SlicerTypeOK, RecordsTile, Follows,
                CutsUpTo, StopsAtTail, Starting, Places, Known, RecordEnd, PeekFits,
                Onward, ReadsCode, NextAt, Here
  <1> QED
    BY <1>1, <1>2, <1>3, <1>4, <1>5 DEF SlicerNext

\* At the end, a payload that can be cut whole has been cut so.
LEMMA InvCutsWhole == SlicerIInv => WholeStreamCut
  <1> SUFFICES ASSUME SlicerIInv, slicing = "sliced",
                      NEW C \in SUBSET Starting, CutsUpTo(C, total),
                      \A p \in C : PeekLength <= lengthAt[p]
               PROVE  cuts = C /\ at = total
    BY DEF WholeStreamCut
  <1>1. at \in C \cup {total} /\ cuts = {p \in C : p < at}
    BY DEF SlicerIInv, Follows
  <1>2. total \in Nat /\ at \in Nat /\ Here = at
    BY <1>1, SlicerAssumption DEF SlicerIInv, SlicerTypeOK, Starting, Places, Here
  <1>3. at \notin C
    <2> SUFFICES ASSUME at \in C
                 PROVE  FALSE
      OBVIOUS
    <2>1. Known(at) /\ RecordEnd(at) <= total /\ PeekLength <= lengthAt[at]
      BY DEF CutsUpTo
    <2>2. lengthAt[at] \in Int
      BY <1>2, <2>1, RecordEndInt
    <2>3. PeekFits(at) /\ ReadsCode /\ NextAt <= total
      BY <1>2, <2>1, <2>2, SlicerAssumption DEF PeekFits, ReadsCode, NextAt, RecordEnd
    <2> QED
      BY <2>3 DEF SlicerIInv, StopsAtTail
  <1>4. \A p \in C : p < total
    BY <1>2 DEF Starting, Places
  <1> QED
    BY <1>1, <1>3, <1>4

\* The invariant of the loop holds.
THEOREM SlicerInductive == SlicerSpec => []SlicerIInv
  <1> QED
    BY SlicerInitIInv, SlicerStepIInv, PTL DEF SlicerSpec

\* The records cut off are adjacent, from the first byte on, and each has the
\* length registered for its code.
THEOREM SlicerTiles == SlicerSpec => []RecordsTile
  <1>1. SlicerIInv => RecordsTile
    BY DEF SlicerIInv
  <1> QED
    BY <1>1, SlicerInductive, PTL

\* A payload of whole records is cut into them, and nothing of it is dropped.
THEOREM SlicerCutsWhole == SlicerSpec => []WholeStreamCut
  <1> QED
    BY InvCutsWhole, SlicerInductive, PTL
=============================================================================

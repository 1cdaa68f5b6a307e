------------------------- MODULE FrameScannerProofs -------------------------
(***************************************************************************)
(* The scan of iter_frames is correct for every log, every length a header *)
(* declares and every header size: proofs about FrameScanner.              *)
(***************************************************************************)
EXTENDS FrameScanner, TLAPS

\* Where a frame ends: anywhere, but behind its start while the scan advances.
LEMMA EndInt ==
    ASSUME NEW p \in Nat, Header(p) \in Headers
    PROVE  End(p) \in Int
  <1>1. Header(p).length \in Int
    BY ScannerAssumption DEF Headers
  <1> QED
    BY <1>1, ScannerAssumption DEF End

\* The frames yielded, while the scan advances.
LEMMA FoundBehind ==
    ASSUME IInv, Advancing, NEW f \in found
    PROVE  f \in Nat /\ End(f) \in Int /\ f < End(f) /\ End(f) <= i
  BY EndInt DEF IInv, TypeOK, NoneMissed, WellFormed, Advancing, Positions

\* find starts at the cursor, unless that is negative.
LEMMA IndexNat ==
    ASSUME NEW k \in Int, k >= 0
    PROVE  Index(k) = k
  BY DEF Index

\* No frame starts between the cursor and the marker that find returns.
LEMMA NothingBetween ==
    ASSUME TypeOK, NEW p, At(p), NEW q \in Positions, WellFormed(q), i <= q, i >= 0
    PROVE  p <= q
  <1>1. log[q] # Text
    BY ScannerAssumption DEF WellFormed, Header
  <1> QED
    BY <1>1, IndexNat DEF At, Markers, TypeOK

\* The start of the scan.
LEMMA InitIInv == Init => IInv
  <1> SUFFICES ASSUME Init
               PROVE  IInv
    OBVIOUS
  <1>1. TypeOK
    BY ScannerAssumption DEF Init, TypeOK
  <1>2. \A p \in Positions : ~(p < 0)
    BY ScannerAssumption DEF Init, Positions
  <1> QED
    BY <1>1, <1>2 DEF Init, IInv, FramesDisjoint, NoneMissed, MissedOnlyBehindOverrun, Advancing

\* Steps that leave the log, the cursor and the frames alone.
LEMMA UnmovedIInv ==
    ASSUME IInv, UNCHANGED <<input, i, found>>, pc' \in {"scan", "done", "raised"},
           MissedOnlyBehindOverrun'
    PROVE  IInv'
  <1> USE DEF input
  <1>1. TypeOK'
    BY DEF IInv, TypeOK, Positions
  <1>2. FramesDisjoint' /\ NoneMissed'
    BY DEF IInv, FramesDisjoint, NoneMissed, Positions, WellFormed, Covered, Header, End,
           DataMatches, DataLength, Index, Advancing
  <1>3. (Advancing => i >= 0 /\ \A f \in found : End(f) <= i)'
    BY DEF IInv, End, Header, Advancing
  <1> QED
    BY <1>1, <1>2, <1>3 DEF IInv

\* A step that moves the cursor and goes on, or raises.
LEMMA MovedIInv ==
    ASSUME TypeOK', FramesDisjoint', NoneMissed', pc' # "done",
           (Advancing => i >= 0 /\ \A f \in found : End(f) <= i)'
    PROVE  IInv'
  BY DEF IInv, MissedOnlyBehindOverrun

\* The last marker has been passed: nothing is left behind the cursor.
LEMMA NoneLeftIInv ==
    ASSUME IInv, NoneLeft
    PROVE  IInv'
  <1> USE DEF input
  <1>1. ASSUME NEW p \in Positions, WellFormed(p), Advancing
        PROVE  p < i
    <2> SUFFICES ASSUME i <= p
                 PROVE  FALSE
      BY <1>1 DEF IInv, TypeOK, Positions
    <2>1. p \in Markers
      BY <1>1, ScannerAssumption DEF WellFormed, Markers, Header
    <2>2. p \in Nat /\ size \in Nat /\ i \in Nat
      BY <1>1 DEF IInv, TypeOK, Positions
    <2>3. p + HeaderLength <= size
      BY <1>1 DEF WellFormed
    <2>4. Index(i) = i
      BY <2>2, IndexNat
    <2> QED
      BY <2>1, <2>2, <2>3, <2>4, ScannerAssumption DEF NoneLeft
  <1>2. MissedOnlyBehindOverrun'
    BY <1>1 DEF IInv, NoneMissed, MissedOnlyBehindOverrun, NoneLeft, Positions, WellFormed,
                Covered, Header, End, DataMatches, DataLength, Index, Advancing
  <1> QED
    BY <1>2, UnmovedIInv DEF NoneLeft

\* DATA that runs past the end of the log: everything missed is behind it.
LEMMA OverrunIInv ==
    ASSUME IInv, NEW p \in Markers, Overrun(p)
    PROVE  IInv'
  <1> USE DEF input
  <1>0. p \in Nat /\ size \in Nat /\ End(p) \in Int
    BY EndInt DEF Overrun, IInv, TypeOK, Markers, Positions
  <1>1. ASSUME Advancing
        PROVE  Overruns(p)
    <2>1. i \in Int /\ i >= 0
      BY <1>1 DEF IInv, TypeOK
    <2> QED
      BY <1>0, <2>1, IndexNat DEF Overrun, Overruns, At, Fits
  <1>2. ASSUME NEW q \in Positions, WellFormed(q), ~Covered(q), Advancing
        PROVE  p < q
    <2>1. i <= q /\ i >= 0
      BY <1>2 DEF IInv, NoneMissed, TypeOK, Positions
    <2>2. p <= q
      BY <1>2, <2>1, NothingBetween DEF Overrun, IInv
    <2>3. p # q
      BY <1>2 DEF Overrun, WellFormed, Fits
    <2> QED
      BY <2>2, <2>3 DEF Markers, Positions
  <1>3. MissedOnlyBehindOverrun'
    BY <1>1, <1>2 DEF MissedOnlyBehindOverrun, Overrun, Positions, WellFormed, Covered,
                      Header, End, DataMatches, DataLength, Index, Markers, Overruns, Advancing
  <1> QED
    BY <1>3, UnmovedIInv DEF Overrun

\* A candidate that is no frame: the cursor passes it and nothing else.
LEMMA InvalidIInv ==
    ASSUME IInv, NEW p \in Markers, At(p), Invalid(p), ~WellFormed(p)
    PROVE  IInv'
  <1> USE DEF input
  <1>0. p \in Nat /\ i \in Int /\ i <= size /\ size \in Nat /\ p < size
    BY DEF IInv, TypeOK, Markers, Positions
  <1>1. i' \in Int /\ i' <= size
    BY <1>0 DEF Invalid
  <1>2. TypeOK'
    BY <1>1 DEF Invalid, IInv, TypeOK, At, Positions
  <1>3. FramesDisjoint'
    BY DEF Invalid, IInv, FramesDisjoint, End, Header, Advancing
  <1>4. ASSUME Advancing
        PROVE  i >= 0 /\ i <= p /\ i' \in i..(p + 1)
    <2>1. i >= 0
      BY <1>4 DEF IInv
    <2>2. i <= p
      BY <1>0, <2>1, IndexNat DEF At
    <2> QED
      BY <1>0, <2>1, <2>2 DEF Invalid
  <1>5. (Advancing => i >= 0 /\ \A f \in found : End(f) <= i)'
    <2> SUFFICES ASSUME Advancing
                 PROVE  i' >= 0 /\ \A f \in found : End(f) <= i'
      BY DEF Invalid, End, Header, Advancing
    <2> QED
      BY <1>0, <1>4, FoundBehind
  <1>6. ASSUME Advancing, NEW q \in Positions, q < i', WellFormed(q)
        PROVE  Covered(q)
    <2>1. q < p + 1 /\ q # p
      BY <1>0, <1>4, <1>6 DEF Positions
    <2>2. q < i
      BY <1>0, <1>4, <1>6, <2>1, NothingBetween DEF IInv, Positions
    <2> QED
      BY <1>6, <2>2 DEF IInv, NoneMissed
  <1>7. NoneMissed'
    BY <1>6 DEF Invalid, IInv, NoneMissed, Positions, WellFormed, Covered, Header, End,
                DataMatches, DataLength, Index, Advancing
  <1>8. pc' # "done"
    BY DEF Invalid, At
  <1> QED
    BY <1>2, <1>3, <1>5, <1>7, <1>8, MovedIInv

\* A frame: the cursor passes it whole, or goes back with a scan that no longer
\* advances.
LEMMA YieldIInv ==
    ASSUME IInv, NEW p \in Markers, Yield(p)
    PROVE  IInv'
  <1> USE DEF input
  <1>0. p \in Nat /\ i \in Int /\ i <= size /\ size \in Nat /\ p \in Positions
    BY DEF IInv, TypeOK, Markers, Positions
  <1>1. End(p) \in Int /\ End(p) <= size
    BY <1>0, EndInt DEF Yield, Fits
  <1>2. WellFormed(p)
    BY DEF Yield, At, WellFormed, Fits
  <1>3. TypeOK'
    BY <1>0, <1>1 DEF Yield, IInv, TypeOK, At, Positions
  <1>4. ASSUME Advancing'
        PROVE  Advancing /\ p < End(p)
    BY <1>4 DEF Yield, Advancing, End, Header
  <1>5. ASSUME Advancing'
        PROVE  i >= 0 /\ i <= p
    <2>1. i >= 0
      BY <1>4, <1>5 DEF IInv
    <2> QED
      BY <1>0, <2>1, IndexNat DEF Yield, At
  <1>6. FramesDisjoint'
    <2> SUFFICES ASSUME Advancing',
                        NEW f \in found \cup {p}, NEW g \in found \cup {p}, f < g
                 PROVE  End(f) <= g
      BY DEF Yield, FramesDisjoint, End, Header
    <2>1. CASE f \in found /\ g \in found
      BY <1>4, <2>1 DEF IInv, FramesDisjoint
    <2>2. CASE f \in found /\ g = p
      BY <1>0, <1>4, <1>5, <2>2, FoundBehind
    <2>3. CASE f = p /\ g \in found
      BY <1>0, <1>4, <1>5, <2>3, FoundBehind
    <2>4. CASE f = p /\ g = p
      BY <1>0, <2>4
    <2> QED
      BY <2>1, <2>2, <2>3, <2>4
  <1>7. (Advancing => i >= 0 /\ \A f \in found : End(f) <= i)'
    <2> SUFFICES ASSUME Advancing'
                 PROVE  End(p) >= 0 /\ \A f \in found \cup {p} : End(f) <= End(p)
      BY DEF Yield, End, Header
    <2> QED
      BY <1>0, <1>1, <1>4, <1>5, FoundBehind
  <1>8. ASSUME Advancing', NEW q \in Positions, q < End(p), WellFormed(q)
        PROVE  \E f \in found \cup {p} : f <= q /\ q < End(f)
    <2>1. CASE q < i
      BY <1>4, <1>8, <2>1 DEF IInv, NoneMissed, Covered
    <2>2. CASE i <= q
      BY <1>5, <1>8, <2>2, NothingBetween DEF IInv, Yield
    <2> QED
      BY <1>0, <2>1, <2>2 DEF Positions
  <1>9. NoneMissed'
    <2>1. (\A f \in found : WellFormed(f))'
      BY <1>2 DEF Yield, IInv, NoneMissed, WellFormed, Header, End, DataMatches, DataLength,
                  Index
    <2>2. (Advancing => \A q \in Positions : q < i /\ WellFormed(q) => Covered(q))'
      BY <1>8 DEF Yield, Positions, WellFormed, Covered, Header, End, DataMatches, DataLength,
                  Index
    <2> QED
      BY <2>1, <2>2 DEF NoneMissed
  <1>10. pc' # "done"
    BY DEF Yield, At
  <1> QED
    BY <1>3, <1>6, <1>7, <1>9, <1>10, MovedIInv

\* Every step preserves the invariant.
LEMMA StepIInv ==
    ASSUME IInv, [Next]_vars
    PROVE  IInv'
  <1>1. CASE UNCHANGED vars
    <2>1. MissedOnlyBehindOverrun'
      BY <1>1 DEF vars, input, IInv, MissedOnlyBehindOverrun, Positions, WellFormed, Covered,
                  Header, End, DataMatches, DataLength, Index, Markers, Overruns, Advancing
    <2> QED
      BY <1>1, <2>1, UnmovedIInv DEF vars, IInv, TypeOK
  <1>2. CASE NoneLeft
    BY <1>2, NoneLeftIInv
  <1>3. CASE \E p \in Markers : BadHeader(p)
    <2>1. PICK p \in Markers : BadHeader(p)
      BY <1>3
    <2>2. ~WellFormed(p)
      BY <2>1, ScannerAssumption DEF BadHeader, WellFormed
    <2> QED
      BY <2>1, <2>2, InvalidIInv DEF BadHeader
  <1>4. CASE \E p \in Markers : Overrun(p)
    BY <1>4, OverrunIInv
  <1>5. CASE \E p \in Markers : Reject(p)
    <2>1. PICK p \in Markers : Reject(p)
      BY <1>5
    <2>2. ~WellFormed(p)
      BY <2>1 DEF Reject, WellFormed
    <2> QED
      BY <2>1, <2>2, InvalidIInv DEF Reject
  <1>6. CASE \E p \in Markers : Yield(p)
    BY <1>6, YieldIInv
  <1>7. CASE Exhausted
    BY <1>1, <1>7 DEF Exhausted
  <1> QED
    BY <1>1, <1>2, <1>3, <1>4, <1>5, <1>6, <1>7 DEF Next

\* The invariant of the scan holds.
THEOREM ScanInductive == Spec => []IInv
  <1>1. Init => IInv
    BY InitIInv
  <1>2. IInv /\ [Next]_vars => IInv'
    BY StepIInv
  <1> QED
    BY <1>1, <1>2, PTL DEF Spec

\* The cursor never passes the end of the log, for every log.
THEOREM ScanTypeCorrect == Spec => []TypeOK
  <1>1. IInv => TypeOK
    BY DEF IInv
  <1> QED
    BY <1>1, ScanInductive, PTL

\* The frames iter_frames yields do not overlap.
THEOREM ScanDisjoint == Spec => []FramesDisjoint
  <1>1. IInv => FramesDisjoint
    BY DEF IInv
  <1> QED
    BY <1>1, ScanInductive, PTL

\* They are well-formed, and none that starts before the cursor is missed.
THEOREM ScanMissesNone == Spec => []NoneMissed
  <1>1. IInv => NoneMissed
    BY DEF IInv
  <1> QED
    BY <1>1, ScanInductive, PTL

\* At the end only what is behind an overrunning header was missed.
THEOREM ScanComplete == Spec => []MissedOnlyBehindOverrun
  <1>1. IInv => MissedOnlyBehindOverrun
    BY DEF IInv
  <1> QED
    BY <1>1, ScanInductive, PTL
=============================================================================

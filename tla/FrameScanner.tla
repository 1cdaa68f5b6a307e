---------------------------- MODULE FrameScanner ----------------------------
(***************************************************************************)
(* iter_frames of krx_parser/frame.py: the scan of a log for KMAPv2        *)
(* frames, from the cursor i.  A log is a sequence of cells; most hold log *)
(* text or DATA, some hold a marker, and with it what the code reads of    *)
(* the bytes behind it: whether a header parses there, the length of DATA  *)
(* it declares, and whether DATA starts with a sequence number and the     *)
(* header's own TR code.  Markers stand wherever they like, also inside    *)
(* what another one declares to be its header or DATA.                     *)
(***************************************************************************)
EXTENDS Integers

CONSTANTS
    HeaderLength,  \* cells of a header, marker included
    MinBody,       \* DATA shorter than this (22 bytes) is not looked at
    Lengths,       \* the lengths headers declare
    Text,          \* a cell without a marker
    Malformed,     \* a marker behind which no header parses
    MaxSize        \* bound: cells in a log

Headers == [length: Lengths, agrees: BOOLEAN]

Cells == Headers \cup {Text, Malformed}

\* int() accepts a sign: a length may be negative, and take back the header.
ASSUME ScannerAssumption ==
    /\ HeaderLength \in Nat \ {0}
    /\ MinBody \in Nat /\ MaxSize \in Nat
    /\ Lengths \subseteq Int
    /\ Text # Malformed /\ {Text, Malformed} \cap Headers = {}

VARIABLES
    size, log,               \* n and buf
    skipInvalid, validate,   \* skip_invalid and validate_data
    i,                       \* the cursor, negative behind a length that is
    found,                   \* where the frames yielded so far start
    pc                       \* "scan", then "done" or "raised"

input == <<size, log, skipInvalid, validate>>
vars == <<input, i, found, pc>>

Positions == 0..(size - 1)

Markers == {p \in Positions : log[p] # Text}

Header(p) == log[p]

End(p) == p + HeaderLength + Header(p).length

Fits(p) == End(p) <= size

\* Where Python starts or stops in the log: it counts a negative index from the end.
Index(k) == IF k >= 0 THEN k ELSE IF size + k >= 0 THEN size + k ELSE 0

DataLength(p) == Index(End(p)) - (p + HeaderLength)

\* _data_matches_header, where validate_data asks for it.
DataMatches(p) == validate => DataLength(p) < MinBody \/ Header(p).agrees

Init ==
    /\ size \in 0..MaxSize
    /\ log \in [Positions -> Cells]
    /\ skipInvalid \in BOOLEAN /\ validate \in BOOLEAN
    /\ i = 0 /\ found = {} /\ pc = "scan"

\* buf.find(MARKER, i) = p, and a header fits behind p.
At(p) ==
    /\ pc = "scan"
    /\ i <= size - HeaderLength
    /\ p \in Markers /\ Index(i) <= p
    /\ \A q \in Markers : Index(i) <= q => p <= q
    /\ p + HeaderLength <= size

\* The while condition fails, there is no marker, or no room for its header.
NoneLeft ==
    /\ pc = "scan"
    /\ \/ i > size - HeaderLength
       \/ \A p \in Markers : Index(i) <= p => p + HeaderLength > size
    /\ pc' = "done"
    /\ UNCHANGED <<input, i, found>>

\* Mutant: go on at the same marker.
InvalidInPlace(p) ==
    /\ IF skipInvalid THEN i' = p /\ pc' = pc ELSE i' = i /\ pc' = "raised"
    /\ UNCHANGED <<input, found>>

\* A candidate that is no frame: go on one byte further, or raise.
Invalid(p) ==
    /\ IF skipInvalid THEN i' = p + 1 /\ pc' = pc ELSE i' = i /\ pc' = "raised"
    /\ UNCHANGED <<input, found>>

\* Mutant: break in the place of continue.
BadHeaderStops(p) ==
    /\ At(p) /\ Header(p) = Malformed
    /\ pc' = "done"
    /\ UNCHANGED <<input, i, found>>

BadHeader(p) == At(p) /\ Header(p) = Malformed /\ Invalid(p)

\* DATA runs past the end of the log: the scan is over.
Overrun(p) ==
    /\ At(p) /\ Header(p) \in Headers
    /\ ~Fits(p)
    /\ pc' = "done"
    /\ UNCHANGED <<input, i, found>>

\* Mutant: the cursor advances past the DATA of a rejected candidate.
RejectData(p) ==
    /\ At(p) /\ Header(p) \in Headers
    /\ Fits(p) /\ ~DataMatches(p)
    /\ i' = End(p)
    /\ UNCHANGED <<input, found, pc>>

Reject(p) ==
    /\ At(p) /\ Header(p) \in Headers
    /\ Fits(p) /\ ~DataMatches(p)
    /\ Invalid(p)

\* Mutant: the cursor advances by one byte whatever was found.
YieldOneByte(p) ==
    /\ At(p) /\ Header(p) \in Headers
    /\ Fits(p) /\ DataMatches(p)
    /\ found' = found \cup {p}
    /\ i' = p + 1
    /\ UNCHANGED <<input, pc>>

Yield(p) ==
    /\ At(p) /\ Header(p) \in Headers
    /\ Fits(p) /\ DataMatches(p)
    /\ found' = found \cup {p}
    /\ i' = End(p)
    /\ UNCHANGED <<input, pc>>

\* The generator is exhausted.
Exhausted == pc # "scan" /\ UNCHANGED vars

Next ==
    \/ NoneLeft
    \/ \E p \in Markers : BadHeader(p) \/ Overrun(p) \/ Reject(p) \/ Yield(p)
    \/ Exhausted

Spec == Init /\ [][Next]_vars

\* extract makes a list of the generator: the scan goes on until it ends.
FairSpec == Spec /\ WF_vars(Next)

-----------------------------------------------------------------------------
(* Properties.                                                             *)

\* The type invariant: the cursor never passes the end of the log.
TypeOK ==
    /\ size \in 0..MaxSize
    /\ log \in [Positions -> Cells]
    /\ skipInvalid \in BOOLEAN /\ validate \in BOOLEAN
    /\ i \in Int /\ i <= size
    /\ found \subseteq Positions
    /\ pc \in {"scan", "done", "raised"}

\* A well-formed frame: a parseable header with its DATA, whole and matching.
WellFormed(p) ==
    /\ Header(p) \in Headers /\ p + HeaderLength <= size
    /\ End(p) <= size /\ DataMatches(p)

\* p starts a frame that was yielded, or lies inside one.
Covered(p) == \E f \in found : f <= p /\ p < End(f)

\* No frame yielded so far declared a length that takes back its whole header.
Advancing == \A f \in found : f < End(f)

\* While the scan advances: of two frames yielded, one ends before the other
\* starts, so that no byte is parsed as part of two records.  ("The scan is
\* non-overlapping for valid frames")
FramesDisjoint == Advancing => \A f, g \in found : f < g => End(f) <= g

\* What is yielded is a well-formed frame; and while the scan advances, none
\* that starts before the cursor is missed, unless it starts inside one that
\* was yielded: rejecting a log line's copy of a header does not jump over the
\* real frame behind it.
NoneMissed ==
    /\ \A f \in found : WellFormed(f)
    /\ Advancing => \A p \in Positions : p < i /\ WellFormed(p) => Covered(p)

\* A header, not yet passed, whose DATA runs past the end of the log.
Overruns(q) == i <= q /\ Header(q) \in Headers /\ End(q) > size

\* When a scan that always advanced is over, a well-formed frame was missed only
\* behind a header whose DATA runs past the end of the log.  ("Scan a byte stream
\* and yield every well-formed KMAPv2 frame")
MissedOnlyBehindOverrun ==
    pc = "done" /\ Advancing =>
        \A p \in Positions : WellFormed(p) =>
            Covered(p) \/ \E q \in Markers : q < p /\ Overruns(q)

\* The scan ends, unless a frame it yielded took back its own header: nothing
\* else, whatever is rejected or overruns, keeps it going for ever.
ScanEnds == <>(pc # "scan" \/ ~Advancing)

-----------------------------------------------------------------------------
(* The inductive invariant.                                                *)

\* What makes the properties hold: while the scan advances, the cursor has
\* passed every frame yielded.
IInv ==
    /\ TypeOK
    /\ FramesDisjoint
    /\ NoneMissed
    /\ MissedOnlyBehindOverrun
    /\ Advancing => i >= 0 /\ \A f \in found : End(f) <= i
=============================================================================

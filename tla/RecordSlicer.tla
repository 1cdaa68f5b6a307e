---------------------------- MODULE RecordSlicer ----------------------------
(***************************************************************************)
(* iter_records of app/helpers.py: how the Upload page cuts a payload that *)
(* is no log into records.  Of the payload the loop looks at nothing but   *)
(* the TR code behind the cursor; lengthAt says, for every position, which *)
(* record length the parser's registry has for the code read there.        *)
(***************************************************************************)
EXTENDS Integers

CONSTANTS
    PeekLength,     \* bytes read to find a code: 22
    RecordLengths,  \* the record lengths of schemas
    NoRecord,       \* no code, or none the registry knows
    MaxPayload      \* bound: bytes in a payload

\* build_schema accepts any length that its layout sums up to, 0 and negative
\* ones included.
ASSUME SlicerAssumption ==
    /\ PeekLength \in Nat \ {0} /\ MaxPayload \in Nat
    /\ RecordLengths \subseteq Int
    /\ NoRecord \in Int \ RecordLengths

VARIABLES
    total, lengthAt,  \* n, and what the payload holds
    at,               \* the cursor i, negative behind a length that is
    cuts,             \* where the records yielded start
    slicing           \* "slice", then "sliced"

payloadRead == <<total, lengthAt>>
slicerVars == <<payloadRead, at, cuts, slicing>>

Places == 0..(total - 1)

Known(p) == lengthAt[p] \in RecordLengths

RecordEnd(p) == p + lengthAt[p]

\* The byte payload[i] of the cursor: a negative index counts from the end.
Here == IF at >= 0 THEN at ELSE total + at

\* The while condition.
PeekFits(p) == p + PeekLength <= total

\* payload[i : i + 22] is whole, and its code is registered.
ReadsCode ==
    /\ at >= 0 \/ (at + PeekLength < 0 /\ total + at >= 0)
    /\ Known(Here)

\* Where the cursor goes behind the record it is at.
NextAt == at + lengthAt[Here]

\* Mutant: a record that ends with the payload does not fit.
RecordFitsShort == NextAt < total

\* Mutant: the end of the payload is not looked at.
RecordFitsAlways == TRUE

RecordFits == NextAt <= total

SlicerInit ==
    /\ total \in 0..MaxPayload
    /\ lengthAt \in [Places -> RecordLengths \cup {NoRecord}]
    /\ at = 0 /\ cuts = {} /\ slicing = "slice"

\* Mutant: the cursor advances by the bytes peeked at.
CutPeeked ==
    /\ slicing = "slice" /\ PeekFits(at) /\ ReadsCode /\ RecordFits
    /\ cuts' = cuts \cup {Here}
    /\ at' = at + PeekLength
    /\ UNCHANGED <<payloadRead, slicing>>

Cut ==
    /\ slicing = "slice" /\ PeekFits(at) /\ ReadsCode /\ RecordFits
    /\ cuts' = cuts \cup {Here}
    /\ at' = NextAt
    /\ UNCHANGED <<payloadRead, slicing>>

Stop ==
    /\ slicing = "slice"
    /\ slicing' = "sliced"
    /\ UNCHANGED <<payloadRead, at, cuts>>

\* The while condition fails.
TailTooShort == ~PeekFits(at) /\ Stop

\* The peek raises, or its code is not registered: break.
UnknownCode == PeekFits(at) /\ ~ReadsCode /\ Stop

\* Mutant: a record that runs past the payload is waited for.
WaitForTail ==
    /\ slicing = "slice" /\ PeekFits(at) /\ ReadsCode /\ ~RecordFits
    /\ UNCHANGED slicerVars

\* The record runs past the end of the payload: break.
TailIncomplete == PeekFits(at) /\ ReadsCode /\ ~RecordFits /\ Stop

SlicerNext == Cut \/ TailTooShort \/ UnknownCode \/ TailIncomplete

SlicerSpec == SlicerInit /\ [][SlicerNext]_slicerVars

-----------------------------------------------------------------------------
(* Properties.                                                             *)

\* The type of the loop's state: the cursor never passes the end of the payload.
SlicerTypeOK ==
    /\ total \in 0..MaxPayload
    /\ lengthAt \in [Places -> RecordLengths \cup {NoRecord}]
    /\ at \in Int /\ at <= total
    /\ cuts \subseteq Places
    /\ slicing \in {"slice", "sliced"}

\* No record cut so far was empty or shorter than that.
Onward == \A p \in cuts : p < RecordEnd(p)

\* A set of starts that cuts the payload, up to "end", into adjacent records
\* of registered lengths, none of them empty.
CutsUpTo(C, end) ==
    /\ end = 0 \/ 0 \in C
    /\ \A p \in C : Known(p) /\ p < RecordEnd(p) /\ RecordEnd(p) \in C \cup {end}
    /\ \A p, q \in C : p < q => RecordEnd(p) <= q
    /\ \A p \in C : RecordEnd(p) <= end

\* While the loop goes onward, the records yielded are adjacent from the first
\* byte on, and each has the length registered for the code it holds: no byte
\* is skipped between two records, none is used twice.
RecordsTile == Onward => CutsUpTo(cuts, at)

Starting == {p \in Places : Known(p)}

\* A payload that can be cut into whole records, none shorter than the peek,
\* is cut so: nothing of it is dropped.  ("mixed TR codes in one stream are
\* handled.  Trailing bytes shorter than a full record are dropped.")
WholeStreamCut ==
    slicing = "sliced" =>
        \A C \in SUBSET Starting :
            (CutsUpTo(C, total) /\ \A p \in C : PeekLength <= lengthAt[p])
                => cuts = C /\ at = total

-----------------------------------------------------------------------------
(* The inductive invariant.                                                *)

\* Where a whole cutting exists, the loop has followed it so far, and it stops
\* only where no whole record starts.
Follows ==
    \A C \in SUBSET Starting :
        CutsUpTo(C, total) => /\ at \in C \cup {total}
                              /\ cuts = {p \in C : p < at}

StopsAtTail == slicing = "sliced" => ~(PeekFits(at) /\ ReadsCode /\ NextAt <= total)

SlicerIInv ==
    /\ SlicerTypeOK
    /\ RecordsTile
    /\ Follows
    /\ StopsAtTail
    /\ Onward => at >= 0 /\ \A p \in cuts : p < at
=============================================================================

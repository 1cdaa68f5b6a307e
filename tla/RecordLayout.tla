---------------------------- MODULE RecordLayout ----------------------------
(***************************************************************************)
(* krx_parser/schema.py: what build_schema makes of a schema text, and the *)
(* byte slots the decoders read by it.  A text is                          *)
(*   [tr, encoding, length, layout],                                       *)
(* its layout a sequence of                                                *)
(*   [kind |-> "field", name, type, length, digits]  and                   *)
(*   [kind |-> "array", name, count, fields];                              *)
(* digits is <<int_digits, frac_digits>>, or <<>> where one is missing.    *)
(* Any other kind stands for an item that lacks a key or is of no kind the *)
(* code knows.                                                             *)
(***************************************************************************)
EXTENDS Integers, Sequences, FiniteSets

\* Where each of a row of parts starts, and, behind the last, where it ends.
Starts(lengths) ==
    LET start[k \in 1..(Len(lengths) + 1)] ==
            IF k = 1 THEN 0 ELSE start[k - 1] + lengths[k - 1]
    IN  start

FieldLengths(fields) == [k \in DOMAIN fields |-> fields[k].length]

\* The bytes of one element of an array.
ElementLength(arr) == Starts(FieldLengths(arr.fields))[Len(arr.fields) + 1]

ItemLength(item) ==
    IF item.kind = "field" THEN item.length ELSE item.count * ElementLength(item)

\* Bytes beyond the digits: none, or one for a sign or a point.
SignBytes(fld) ==
    IF fld.digits = <<>> THEN 0 ELSE fld.length - fld.digits[1] - fld.digits[2]

FieldAccepted(fld) == SignBytes(fld) \in {0, 1}

ItemAccepted(item) ==
    \/ item.kind = "field" /\ FieldAccepted(item)
    \/ item.kind = "array" /\ \A k \in DOMAIN item.fields : FieldAccepted(item.fields[k])

\* Mutant: an array counts as one element.
OffsetsOfElements(layout) ==
    Starts([k \in DOMAIN layout |-> IF layout[k].kind = "field" THEN layout[k].length
                                                        ELSE ElementLength(layout[k])])

\* The offset of each item, and the sum of their lengths behind the last.
Offsets(layout) == Starts([k \in DOMAIN layout |-> ItemLength(layout[k])])

\* build_schema returns a Schema; it raises a SchemaValidationError otherwise.
Accepted(text) ==
    /\ \A k \in DOMAIN text.layout : ItemAccepted(text.layout[k])
    /\ Offsets(text.layout)[Len(text.layout) + 1] = text.length

\* A field's place in the record: the item, the element if it is an array,
\* the field, and the bytes from "from" up to "to", exclusive.
Slot(k, e, f, from, length) ==
    [item |-> k, element |-> e, field |-> f, from |-> from, to |-> from + length]

\* The slots of one item that starts at offset: _decode_field, _decode_array.
ItemSlots(k, item, offset) ==
    IF item.kind = "field" THEN {Slot(k, 0, 0, offset, item.length)}
    ELSE {Slot(k, e, f,
               offset + (e - 1) * ElementLength(item) + Starts(FieldLengths(item.fields))[f],
               item.fields[f].length) : e \in 1..item.count, f \in DOMAIN item.fields}

Slots(text) ==
    UNION {ItemSlots(k, text.layout[k], Offsets(text.layout)[k]) : k \in DOMAIN text.layout}

\* Every byte of a record belongs to exactly one slot, and no slot leaves it.
Tiled(text) ==
    /\ \A b \in 0..(text.length - 1) :
          Cardinality({s \in Slots(text) : s.from <= b /\ b < s.to}) = 1
    /\ \A s \in Slots(text) : 0 <= s.from /\ s.from <= s.to /\ s.to <= text.length
=============================================================================

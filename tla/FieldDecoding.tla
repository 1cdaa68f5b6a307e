--------------------------- MODULE FieldDecoding ---------------------------
(***************************************************************************)
(* krx_parser/parser.py and krx_parser/db/serialize.py: how the bytes of a *)
(* record become values, values the JSON text of parsed_messages.body, and *)
(* the text values again.                                                  *)
(*                                                                         *)
(* A byte is its number, a text a sequence of them.  A result is           *)
(* [status, value]: "ok" with a value, "error" for a KrxParserError,       *)
(* "raises" for any other exception.                                       *)
(***************************************************************************)
EXTENDS RecordLayout

CONSTANTS
    CodeOffset, CodeLength,  \* where the TR code stands: bytes 11..22
    Required                 \* the fields every ParsedMessage must have

ASSUME DecodingAssumption == CodeOffset \in Nat /\ CodeLength \in Nat \ {0}

Blank == 32
Plus == 43
Minus == 45
Point == 46
Zero == 48
ExponentMark == 69
Underscore == 95

Digits == 48..57

\* What str.strip() takes off ASCII text.
Whitespace == 9..13 \cup 28..32

IsAscii(text) == \A k \in DOMAIN text : text[k] < 128

\* str.strip: the text from the first byte that stays to the last.
Strip(text, removed) ==
    LET kept == {k \in DOMAIN text : text[k] \notin removed}
    IN  IF kept = {} THEN <<>>
        ELSE SubSeq(text, CHOOSE k \in kept : \A m \in kept : k <= m,
                          CHOOSE k \in kept : \A m \in kept : m <= k)

\* text.rstrip(" ").
StripRight(text) ==
    LET kept == {k \in DOMAIN text : text[k] # Blank}
    IN  IF kept = {} THEN <<>>
        ELSE SubSeq(text, 1, CHOOSE k \in kept : \A m \in kept : m <= k)

AllDigits(text) == \A k \in DOMAIN text : text[k] \in Digits

\* The number that digits spell; other bytes are passed over.
NumberOf(text) ==
    LET value[k \in 0..Len(text)] ==
            IF k = 0 THEN 0
            ELSE IF text[k] \in Digits THEN 10 * value[k - 1] + text[k] - Zero
            ELSE value[k - 1]
    IN  value[Len(text)]

-----------------------------------------------------------------------------
(* Values and results.  A decimal is number / 10^scale.                    *)

Value(kind, number, scale, text) ==
    [kind |-> kind, number |-> number, scale |-> scale, text |-> text]

Integer(n) == Value("int", n, 0, <<>>)
Decimal(n, scale) == Value("decimal", n, scale, <<>>)
Str(text) == Value("text", 0, 0, text)

NoValue == Value("none", 0, 0, <<>>)

Ok(value) == [status |-> "ok", value |-> value]
Error == [status |-> "error", value |-> NoValue]
Raises == [status |-> "raises", value |-> NoValue]

-----------------------------------------------------------------------------
(* The field decoders.                                                     *)

\* int() takes digits with one sign before and single underscores between.
SpellsInteger(text) ==
    LET body == IF text # <<>> /\ text[1] \in {Plus, Minus} THEN Tail(text) ELSE text
    IN  /\ body # <<>> /\ body[1] \in Digits /\ body[Len(body)] \in Digits
        /\ \A k \in DOMAIN body : body[k] \in Digits \cup {Underscore}
        /\ \A k \in 1..(Len(body) - 1) : ~(body[k] = Underscore /\ body[k + 1] = Underscore)

Signed(first, n) == IF first = Minus THEN -n ELSE n

DecodeLong(chunk) ==
    LET text == Strip(chunk, Whitespace)
    IN  IF ~IsAscii(chunk) THEN Raises
        ELSE IF text = <<>> THEN Ok(Integer(0))
        ELSE IF SpellsInteger(text) THEN Ok(Integer(Signed(text[1], NumberOf(text))))
        ELSE Error

\* EUC-KR: a byte from 128 up leads a pair of such bytes.
SpellsEucKr(text) ==
    LET fits[k \in 1..(Len(text) + 2)] ==
            IF k > Len(text) THEN k = Len(text) + 1
            ELSE IF text[k] < 128 THEN fits[k + 1]
            ELSE k < Len(text) /\ text[k + 1] >= 128 /\ fits[k + 2]
    IN  fits[1]

\* Encodings Python knows, in which a byte below 128 is the ASCII character.
\* Any other text stands for one it does not know.
KnownEncodings == {"euc-kr", "ascii", "latin-1"}

\* The bytes are a text in the encoding.
Spells(chunk, encoding) ==
    \/ encoding = "euc-kr" /\ SpellsEucKr(chunk)
    \/ encoding = "ascii" /\ IsAscii(chunk)
    \/ encoding = "latin-1"

\* An encoding Python does not know is a LookupError, which is not caught.
DecodeString(chunk, encoding) ==
    IF encoding \notin KnownEncodings THEN Raises
    ELSE IF Spells(chunk, encoding) THEN Ok(Str(StripRight(chunk)))
    ELSE Error

Without(text, k) == SubSeq(text, 1, k - 1) \o SubSeq(text, k + 1, Len(text))

\* The sign byte's field has a point between its two halves instead.
HasPoint(fld, text) ==
    SignBytes(fld) = 1 /\ fld.digits[1] < Len(text) /\ text[fld.digits[1] + 1] = Point

\* The bytes that have to be digits.
DigitsOf(fld, text) ==
    IF HasPoint(fld, text) THEN Without(text, fld.digits[1] + 1)
    ELSE IF SignBytes(fld) = 1 THEN Tail(text)
    ELSE text

SignAccepted(fld, text) ==
    SignBytes(fld) = 1 /\ ~HasPoint(fld, text) => text[1] \in {Blank, Plus, Zero, Minus}

IsNegative(fld, text) == SignBytes(fld) = 1 /\ ~HasPoint(fld, text) /\ text[1] = Minus

\* Mutant: the digits are padded on the right.
NumberPaddedRight(fld, digits) ==
    NumberOf(digits \o [k \in 1..(fld.digits[1] + fld.digits[2] - Len(digits)) |-> Zero])

\* strip() and rjust: the digits are read as if they stood at the right.
NumberPadded(fld, digits) == NumberOf(digits)

DecodeNumeric(fld, chunk) ==
    IF fld.digits = <<>> \/ ~IsAscii(chunk) THEN Raises
    ELSE IF ~SignAccepted(fld, chunk) THEN Error
    ELSE LET digits == Strip(DigitsOf(fld, chunk), Whitespace)
             n == NumberPadded(fld, digits)
         IN  IF digits = <<>> THEN Ok(Decimal(0, 0))
             ELSE IF ~AllDigits(digits) THEN Error
             ELSE Ok(Decimal(IF IsNegative(fld, chunk) THEN -n ELSE n, fld.digits[2]))

\* _decode_field_slice.
DecodeChunk(fld, encoding, chunk) ==
    IF Len(chunk) # fld.length THEN Error
    ELSE IF fld.digits # <<>> \/ fld.type = "Float" THEN DecodeNumeric(fld, chunk)
    ELSE IF fld.type = "Long" THEN DecodeLong(chunk)
    ELSE IF fld.type = "String" THEN DecodeString(chunk, encoding)
    ELSE Error

-----------------------------------------------------------------------------
(* Parser.                                                                 *)

\* raw[from:to], which ends where raw does.
Slice(raw, from, to) == SubSeq(raw, from + 1, IF to <= Len(raw) THEN to ELSE Len(raw))

CodeBytes(raw) == Slice(raw, CodeOffset, CodeOffset + CodeLength)

\* peek_transaction_code: which exception it raises, if any, and the code.
PeekStatus(raw) ==
    IF Len(raw) < CodeOffset + CodeLength THEN "error"
    ELSE IF IsAscii(CodeBytes(raw)) THEN "ok" ELSE "raises"

PeekCode(raw) == Strip(CodeBytes(raw), Whitespace)

\* The field of a slot, and where its value goes: fields[name], or
\* arrays[array][element][name].
FieldOf(text, s) ==
    IF s.field = 0 THEN text.layout[s.item] ELSE text.layout[s.item].fields[s.field]

Place(text, s) ==
    [array |-> IF s.field = 0 THEN "" ELSE text.layout[s.item].name,
     element |-> s.element,
     name |-> FieldOf(text, s).name]

DecodeSlot(text, raw, s) ==
    DecodeChunk(FieldOf(text, s), text.encoding, Slice(raw, s.from, s.to))

\* The slots are decoded in the order of the layout.
Earlier(r, s) ==
    \/ r.item < s.item
    \/ r.item = s.item /\ r.element < s.element
    \/ r.item = s.item /\ r.element = s.element /\ r.field < s.field

\* Mutant: the message's length is not compared with the schema's.
LengthIgnored(text, raw) == TRUE

LengthMatches(text, raw) == Len(raw) = text.length

Failures(text, raw) == {s \in Slots(text) : DecodeSlot(text, raw, s).status # "ok"}

HasRequired(text) ==
    \A name \in Required : \E k \in DOMAIN text.layout :
        text.layout[k].kind = "field" /\ text.layout[k].name = name

\* Parser.parse by the schema of the code.  The first slot that fails decides
\* how it fails; a required field the schema lacks is a KeyError.
ParseStatus(text, raw) ==
    IF ~LengthMatches(text, raw) THEN "error"
    ELSE LET failures == Failures(text, raw)
         IN  IF failures # {}
             THEN DecodeSlot(text, raw, CHOOSE s \in failures :
                                 \A r \in failures : r = s \/ Earlier(s, r)).status
             ELSE IF HasRequired(text) THEN "parsed" ELSE "raises"

\* The fields and arrays of a ParsedMessage.
BodyOf(text, raw) ==
    [p \in {Place(text, s) : s \in Slots(text)} |->
        DecodeSlot(text, raw, CHOOSE s \in Slots(text) : Place(text, s) = p).value]

-----------------------------------------------------------------------------
(* body_to_json and body_from_json.                                        *)

\* The power of ten.
TenTo(n) ==
    LET power[k \in 0..n] == IF k = 0 THEN 1 ELSE 10 * power[k - 1]
    IN  power[n]

Numeral(n, width) == [k \in 1..width |-> Zero + ((n \div TenTo(width - k)) % 10)]

\* The least width, from 1 up, of a numeral of n.
Width(n) ==
    CHOOSE w \in 1..(n + 1) : n < TenTo(w) /\ \A v \in 1..(w - 1) : TenTo(v) <= n

\* A number with so many of its digits behind the point, without leading zeros.
Pointed(n, places) ==
    Numeral(n \div TenTo(places), Width(n \div TenTo(places)))
    \o (IF places = 0 THEN <<>> ELSE <<Point>> \o Numeral(n % TenTo(places), places))

Exponent(e) == IF e = 0 THEN <<>> ELSE <<ExponentMark, Minus>> \o Numeral(e, Width(e))

\* str() of a Decimal: when its first digit would stand behind the sixth place,
\* as in 0E-8 or 1.5E-7, that digit is written before the point, with an exponent.
DecimalText(v) ==
    LET n == IF v.number < 0 THEN -v.number ELSE v.number
        places == IF v.scale - Width(n) < 6 THEN v.scale ELSE Width(n) - 1
    IN  (IF v.number < 0 THEN <<Minus>> ELSE <<>>)
        \o Pointed(n, places) \o Exponent(v.scale - places)

\* _default: Decimals become strings; numbers and strings are JSON as they are.
ToJson(body) ==
    [p \in DOMAIN body |-> IF body[p].kind = "decimal" THEN Str(DecimalText(body[p]))
                           ELSE body[p]]

Points(text) == {k \in DOMAIN text : text[k] = Point}

\* A number without an exponent: digits with at most one sign and one point.
SpellsPointed(text) ==
    LET body == IF text # <<>> /\ text[1] \in {Plus, Minus} THEN Tail(text) ELSE text
    IN  /\ \E k \in DOMAIN body : body[k] \in Digits
        /\ \A k \in DOMAIN body : body[k] \in Digits \cup {Point}
        /\ Cardinality(Points(body)) <= 1

FractionLength(text) ==
    IF Points(text) = {} THEN 0 ELSE Len(text) - CHOOSE k \in Points(text) : TRUE

\* Where the exponent starts, or the text has ended.
MarkAt(text) ==
    CHOOSE m \in 1..(Len(text) + 1) :
        /\ m <= Len(text) => text[m] = ExponentMark
        /\ \A k \in 1..(m - 1) : text[k] # ExponentMark

\* Decimal(text), or an InvalidOperation, which nobody catches.
ReadDecimal(text) ==
    LET stripped == Strip(text, Whitespace)
        m == MarkAt(stripped)
        number == SubSeq(stripped, 1, m - 1)
        power == SubSeq(stripped, m + 1, Len(stripped))
        down == IF power = <<>> THEN 0 ELSE -Signed(power[1], NumberOf(power))
    IN  IF SpellsPointed(number) /\ (m <= Len(stripped) => SpellsInteger(power))
        THEN Ok(Decimal(Signed(number[1], NumberOf(number)), FractionLength(number) + down))
        ELSE Raises

\* Mutant: the fields of arrays are not coerced.
CoercedFlat(text, p) ==
    p.element = 0 /\ \E k \in DOMAIN text.layout :
        /\ text.layout[k].kind = "field"
        /\ text.layout[k].name = p.name /\ text.layout[k].digits # <<>>

\* The places that the schema has a number with digits for.
Coerced(text, p) == \E k \in DOMAIN text.layout :
    LET item == text.layout[k]
    IN  IF item.kind = "field"
        THEN p.element = 0 /\ item.name = p.name /\ item.digits # <<>>
        ELSE p.element # 0 /\ p.array = item.name /\ \E f \in DOMAIN item.fields :
                 item.fields[f].name = p.name /\ item.fields[f].digits # <<>>

\* _coerce of one value of the JSON text.
ReadValue(text, p, v) ==
    IF Coerced(text, p) /\ v.kind = "text" THEN ReadDecimal(v.text) ELSE Ok(v)

\* body_from_json by a schema: the body, unless a value cannot be coerced.
BodyReadable(text, json) == \A p \in DOMAIN json : ReadValue(text, p, json[p]).status = "ok"

FromJson(text, json) == [p \in DOMAIN json |-> ReadValue(text, p, json[p]).value]
=============================================================================

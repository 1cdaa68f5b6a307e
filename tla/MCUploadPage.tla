---------------------------- MODULE MCUploadPage ----------------------------
(* Small schemas and payloads for UploadPage.  A record starts with its    *)
(* number, its code, its date and its mark, a byte each.                   *)
EXTENDS UploadPage

A == 65
B == 66
K == 75      \* the marker
High == 200  \* a byte of a Korean character
Tab == 9
One == 49
Five == 53

F(name, type, length, digits) ==
    [kind |-> "field", name |-> name, type |-> type, length |-> length, digits |-> digits]

Arr(name, count, fields) ==
    [kind |-> "array", name |-> name, count |-> count, fields |-> fields]

Common == <<F("seq", "Long", 1, <<>>), F("code", "String", 1, <<>>),
            F("date", "String", 1, <<>>), F("mark", "String", 1, <<>>)>>

Text(code, length, items) ==
    [tr |-> <<code>>, encoding |-> "euc-kr", length |-> length, layout |-> Common \o items]

\* One field behind the common ones: signed, unsigned, without a fraction, an
\* integer, a text, and a number whose digits are not declared.
SignedA == Text(A, 7, <<F("value", "Float", 3, <<1, 1>>)>>)
UnsignedA == Text(A, 7, <<F("value", "Float", 3, <<2, 1>>)>>)
WholeA == Text(A, 7, <<F("value", "Float", 3, <<2, 0>>)>>)
LongA == Text(A, 7, <<F("value", "Long", 3, <<>>)>>)
StringA == Text(A, 7, <<F("value", "String", 3, <<>>)>>)
FloatA == Text(A, 7, <<F("value", "Float", 3, <<>>)>>)
ShortA == Text(A, 6, <<F("value", "Long", 2, <<>>)>>)
ArrayA == Text(A, 9, <<Arr("issues", 2, <<F("value", "Float", 2, <<1, 0>>)>>),
                       F("filler", "String", 1, <<>>)>>)
PairsA == Text(A, 10, <<Arr("issues", 2, <<F("q", "Long", 1, <<>>),
                                           F("value", "Float", 2, <<1, 1>>)>>)>>)
TinyA == Text(A, 13, <<F("value", "Float", 9, <<0, 8>>)>>)
FourB == Text(B, 4, <<>>)
EmptyA == [Text(A, 0, <<>>) EXCEPT !.layout = <<>>]
AsciiA == [StringA EXCEPT !.encoding = "ascii"]
NoSuchEncodingA == [StringA EXCEPT !.encoding = "euc_kr2"]
NoMarkB == [Text(B, 3, <<>>) EXCEPT !.layout = SubSeq(Common, 1, 3)]

\* Texts build_schema rejects.
WrongSumA == [SignedA EXCEPT !.length = 8]
ArrayOnceA == [ArrayA EXCEPT !.length = 7]
TwoSignsA == Text(A, 7, <<F("value", "Float", 3, <<1, 0>>)>>)
OtherKindA == [SignedA EXCEPT !.layout = @ \o <<[kind |-> "group", name |-> "g"]>>]

MCFolders ==
    {{t, FourB} : t \in {SignedA, UnsignedA, WholeA, LongA, StringA, FloatA, ShortA, ArrayA, PairsA,
                         TinyA, EmptyA, AsciiA, NoSuchEncodingA, WrongSumA, ArrayOnceA, TwoSignsA, OtherKindA}}
    \cup {{FourB}, {SignedA, LongA}, {SignedA, NoMarkB}}

\* Any three bytes, of which the last may be a tab.
Values == {v \in [1..3 -> {One, Five, Blank, Tab, Minus, Point, High}] :
              v[1] # Tab /\ v[2] # Tab}

HeadA == <<One, A, One, 89>>
HeadB == <<One, B, One, 89>>

\* Two records: one of B, and one of A with one of these values.
Pairs == {HeadB \o HeadA \o v : v \in Values}

\* Records of A and B in a row, and tails no record starts in.
Chains ==
    {HeadA \o <<One, Five, One>> \o HeadB \o tail :
        tail \in {<<>>, <<One>>, <<One, A>>, HeadA, HeadB, <<One, Marker>>,
                  <<One, High>>, HeadA \o <<One, One, One>>}}
    \cup {HeadB \o HeadA \o <<One, Point, Minus, Five, One>>,
          HeadB \o HeadA \o <<One, One, Five, One, Blank, Five>>}

\* Records whose own number, code or date cannot be decoded.
Odd == {HeadB \o <<n, c, d, 89, One, One, Five>> :
           n \in {One, Blank, High, Minus, A}, c \in {A, Blank}, d \in {One, High}}

\* Numbers below a millionth, and zero.
Tiny == {HeadB \o HeadA \o <<sign, Zero, Zero, Zero, Zero, Zero, Zero, d, e>> :
            sign \in {Zero, Minus}, d \in {Zero, One}, e \in {Zero, Five}}

Given(way, bytes) == [way |-> way, bytes |-> bytes]

MCUploads ==
    {Given("file", bytes) : bytes \in Pairs \cup Chains \cup Odd \cup Tiny}
    \cup {Given("paste", <<Return, LineFeed>> \o HeadB \o <<LineFeed>> \o HeadB),
          Given("paste", HeadB \o <<Return, LineFeed>> \o HeadB \o <<Return>>),
          Given("paste", <<Blank, LineFeed>>),
          Given("file", <<>>), Given("file", HeadB),
          Given("gzip", HeadB \o HeadB), Given("damaged", HeadB)}
=============================================================================

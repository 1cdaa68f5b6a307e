--------------------------- MODULE MCSchemaEditor ---------------------------
(* Small instances of SchemaEditor for TLC. *)
EXTENDS SchemaEditor

CONSTANTS
    s1, s2,         \* browser sessions
    short, long     \* two schema texts

MCTexts == {short, long}
MCSize == [t \in Texts |-> IF t = short THEN 1 ELSE 2]
MCOne == {s1}
MCTwo == {s1, s2}
MCOneCode == {1}
MCTwoCodes == {1, 2}
MCAnyCode == [s \in Sessions |-> Codes]
MCOwnCode == [s \in Sessions |-> IF s = s1 THEN {1} ELSE {2}]
=============================================================================

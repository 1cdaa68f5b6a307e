---------------------------- MODULE SchemaFolder ----------------------------
(***************************************************************************)
(* What the file-level functions of krx_parser/registry.py promise: the    *)
(* schema directory is a map from TR codes to valid schema texts, and a    *)
(* save or a delete changes one entry of it at once.                       *)
(***************************************************************************)
CONSTANTS
    Codes,   \* TR codes; a schema file is named after its code
    Texts,   \* schema texts that pass validation
    Absent   \* there is no file

VARIABLE schemas

Init == schemas \in [Codes -> Texts \cup {Absent}]

Put(c, text) == schemas' = [schemas EXCEPT ![c] = text]

Remove(c) == schemas' = [schemas EXCEPT ![c] = Absent]

Next == \E c \in Codes : Remove(c) \/ \E text \in Texts : Put(c, text)

Spec == Init /\ [][Next]_schemas
=============================================================================

--------------------------- MODULE MCLookupPages ---------------------------
(* A small instance of LookupPages for TLC. *)
EXTENDS LookupPages

CONSTANTS
    s1, v1,      \* browser sessions
    A, B,        \* TR codes
    a, b, e      \* a good record of A, a good one of B, one of B that fails to parse

MCOne == {s1}
MCViewers == {v1}
MCCodes == {A, B}
MCTrOf == [p \in Payloads |-> IF p = a THEN A ELSE B]
MCForm == [p \in Payloads |-> IF p = e THEN "error" ELSE "parsed"]
MCRegistries == {{A, B}}
MCAbe == {a, b, e}
=============================================================================

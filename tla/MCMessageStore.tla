--------------------------- MODULE MCMessageStore ---------------------------
(* Small instances of MessageStore for TLC. *)
EXTENDS MessageStore

CONSTANTS
    s1, s2,      \* browser sessions
    A, B,        \* TR codes
    a, b, e, x   \* a good record of A, a good one of B, one of B that fails to
                 \* parse, one of B whose parse raises another exception

MCTwo == {s1, s2}
MCOne == {s1}
MCNone == {}
MCCodes == {A, B}
MCTrOf == [p \in Payloads |-> IF p = a THEN A ELSE B]
MCForm == [p \in Payloads |->
              IF p = e THEN "error" ELSE IF p = x THEN "raises" ELSE "parsed"]
MCRegistries == {{A, B}, {A}}
MCAbx == {a, b, x}
MCAbex == {a, b, e, x}
MCAb == {a, b}
=============================================================================

--------------------------- MODULE MCFrameScanner ---------------------------
(* A small instance of FrameScanner for TLC. *)
EXTENDS FrameScanner

MCLengths == {-3, -2, -1, 2}
=============================================================================

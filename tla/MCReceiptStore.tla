--------------------------- MODULE MCReceiptStore ---------------------------
(* Small instances of ReceiptStore for TLC. *)
EXTENDS ReceiptStore

CONSTANTS r1, r2, w1, w2

MCIDs     == {r1, r2}
MCWriters == {w1, w2}
=============================================================================

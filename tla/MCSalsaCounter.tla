---------------------------- MODULE MCSalsaCounter ---------------------------
(***************************************************************************)
(* Words of four values, so sixteen counters; blocks of three bytes;       *)
(* lengths and offsets to both sides of every border, and beyond all.      *)
(***************************************************************************)
EXTENDS SalsaCounter

MCLengths == (0 .. 7) \cup {12, 45, 46, 48, 49, 51}
MCOffsets == -1 .. 17
=============================================================================

-------------------------- MODULE MCMetadataProfile -------------------------
(***************************************************************************)
(* Bytes are bits, so that a name of one to three of them has its size in  *)
(* two bytes; a scheme and a key are one byte each, and pairs with all     *)
(* sizes of names together show all of a file that has a short name.       *)
(***************************************************************************)
EXTENDS MetadataProfile, TLC

MCXor(a, b) == (a + b) % 2

CONSTANTS near, far     \* Groups.

(* The streams differ where it matters for a file with a name of one byte, *)
(* other than in its size.                                                 *)
MCStream ==
    near :> [i \in Index |-> IF i \in {1, 4} THEN 1 ELSE 0]
      @@ far :> [i \in Index |-> IF i \in {1, 3, 5} THEN 1 ELSE 0]

MCPacked ==
    {[i \in 0 .. 0 |-> 1], [i \in 0 .. 1 |-> i], [i \in 0 .. 2 |-> 0], [i \in 0 .. 2 |-> i % 2]}

(* Two of the names have two compressed forms. *)
MCUnpack == [n \in MCPacked |-> IF Size(n) = 3 THEN "a" ELSE "b"]

Bits(n) == [0 .. n - 1 -> 0 .. 1]
MCSchemes == Bits(1)
MCValid == {[i \in 0 .. 0 |-> 0]}
MCDamaged == {[i \in Index |-> 0], [i \in Index |-> 1], [i \in Index |-> i % 2]}
=============================================================================

--------------------------- MODULE MCDecryptFile ---------------------------
(***************************************************************************)
(* DecryptFile for TLC.  No caller is told from another: they may be       *)
(* permuted, as only safety is checked.                                    *)
(***************************************************************************)
EXTENDS DecryptFile, TLC

CallerSymmetry == Permutations(Callers)
=============================================================================

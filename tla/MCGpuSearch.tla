---------------------------- MODULE MCGpuSearch -----------------------------
(***************************************************************************)
(* GpuSearch for two command lines.                                        *)
(***************************************************************************)
EXTENDS GpuSearch

MCRequests ==
    {[start |-> 5, count |-> 9, batch |-> 4], [start |-> 0, count |-> 3, batch |-> 5]}
=============================================================================

---------------------------- MODULE MCGpuSystem -----------------------------
(***************************************************************************)
(* GpuSystem with three searches: of two shards of two candidates, of less *)
(* than that, and of one candidate whose number is its worker's last.      *)
(***************************************************************************)
EXTENDS GpuSystem, TLC

CONSTANTS p1, wide, narrow, exact

MCTotal == [c \in Configs |-> (wide :> 4 @@ narrow :> 2 @@ exact :> 1)[c]]
MCHits == [c \in Configs |-> (wide :> {1, 2, 3} @@ narrow :> {0} @@ exact :> {0})[c]]
MCBase == [c \in Configs |-> (wide :> 0 @@ narrow :> 0 @@ exact :> 1)[c]]
MCHitLists == {<<>>, <<0>>, <<1>>, <<0, 1>>}
=============================================================================

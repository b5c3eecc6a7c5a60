--------------------------- MODULE MCSearchRunner ---------------------------
(***************************************************************************)
(* SearchRunner on instances that TLC can exhaust: shards of three         *)
(* candidates instead of 2 ** 40, so that a search of two shards, one of   *)
(* less than a shard and one of a single candidate are all present.        *)
(***************************************************************************)
EXTENDS SearchRunner, TLC

CONSTANTS p1, p2, wide, narrow, exact

(* wide: six unknown bytes, two shards; narrow: one to five; exact: none,  *)
(* with a first byte that is not zero, so that delta is negative.          *)
MCTotal == [c \in Configs |-> (wide :> 6 @@ narrow :> 3 @@ exact :> 1)[c]]

(* Hits on both sides of the shard boundary, adjacent ones in one batch,   *)
(* and candidate 3 of wide is its worker's number 0.                       *)
MCHits == [c \in Configs |-> (wide :> {1, 2, 3} @@ narrow :> {0, 2} @@ exact :> {0})[c]]

MCBase == [c \in Configs |-> (wide :> 0 @@ narrow :> 0 @@ exact :> 2)[c]]

(* Every list of distinct numbers a worker could report here, and one with *)
(* a number repeated and one out of order, which the runner must refuse.   *)
MCHitLists ==
    {<<>>, <<0>>, <<1>>, <<2>>, <<0, 2>>, <<1, 2>>, <<0, 1>>, <<0, 1, 2>>,
     <<2, 1>>, <<1, 1, 2>>}

Symmetry == Permutations({p1, p2})
=============================================================================

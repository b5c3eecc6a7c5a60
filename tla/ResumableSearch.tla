--------------------------- MODULE ResumableSearch --------------------------
(***************************************************************************)
(* What run_search promises its caller (its docstring: "without losing     *)
(* hits"; the checkpoint advances only after the generator is resumed past *)
(* the last hit of a batch), told without workers, records or locks.       *)
(*                                                                         *)
(* A claim is a checkpoint document: "every candidate of cfg below pos has *)
(* been dealt with".  claims is the set of documents that a later session  *)
(* may find, the documents a power loss may bring back included.           *)
(***************************************************************************)
EXTENDS Integers

CONSTANTS
    Configs,    \* Searches: a state, a tuple of offsets and a target.
    Hits,       \* Hits[c]: the candidates of c that match its target.
    Foreign     \* What the path may hold that is no document of a search.

VARIABLES
    claims,     \* The documents a later session may start from.
    handled     \* handled[c]: the hits the caller has taken and got past.

vars == <<claims, handled>>

Init ==
    /\ claims \in {{f} : f \in Foreign}
    /\ handled = [c \in Configs |-> {}]

(* The caller comes back for more after the hit h of c. *)
Handle(c, h) ==
    /\ h \in Hits[c]
    /\ handled' = [handled EXCEPT ![c] = @ \cup {h}]
    /\ UNCHANGED claims

(* A search starts at 0 where no document of another search can return.    *)
Start(c) ==
    /\ claims \subseteq Foreign
    /\ claims' = claims \cup {[cfg |-> c, pos |-> 0]}
    /\ UNCHANGED handled

(* A search claims more than before, all of it handled. *)
Advance(old, new) ==
    /\ new.cfg = old.cfg
    /\ new.pos > old.pos
    /\ \A h \in Hits[old.cfg] : h \in old.pos .. new.pos - 1 => h \in handled[old.cfg]
    /\ claims' = claims \cup {new}
    /\ UNCHANGED handled

(* Older documents stop being able to return, or one of them does return.  *)
Settle ==
    /\ claims' \subseteq claims
    /\ claims' # {}
    /\ UNCHANGED handled

Next ==
    \/ \E c \in Configs : Start(c) \/ \E h \in Hits[c] : Handle(c, h)
    \/ \E old \in claims \ Foreign, new \in claims' \ Foreign : Advance(old, new)
    \/ Settle

Spec == Init /\ [][Next]_vars
=============================================================================

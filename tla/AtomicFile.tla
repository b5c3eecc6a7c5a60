----------------------------- MODULE AtomicFile -----------------------------
(***************************************************************************)
(* A file that is only ever replaced as a whole: what the search promises  *)
(* itself of its checkpoint.  A reader sees one of the values ever put in  *)
(* place; after a power loss it sees one of the values the directory may   *)
(* still name on the disk.  Nothing else, in particular no half-written    *)
(* document, is ever read back.                                            *)
(*                                                                         *)
(* CheckpointStore shows that the system calls of _save implement this;    *)
(* SearchRunner uses it as its checkpoint.                                 *)
(***************************************************************************)

CONSTANT Content    \* What a reader can find, the absent file included.

VARIABLES
    visible,        \* What a reader of the path finds now.
    survivors       \* What it could find after a power loss at this moment.

vars == <<visible, survivors>>

TypeOK ==
    /\ visible \in Content
    /\ survivors \subseteq Content

Init ==
    /\ visible \in Content
    /\ survivors = {visible}

(* os.replace: the name moves to the new document at once, and until the   *)
(* directory is synced a power loss may still bring an older one back.     *)
Replace(v) ==
    /\ visible' = v
    /\ survivors' = survivors \cup {v}

(* fsync of the directory: what is visible is what survives. *)
Sync ==
    /\ survivors' = {visible}
    /\ UNCHANGED visible

PowerLoss ==
    \E v \in survivors :
        /\ visible' = v
        /\ survivors' = {v}

Next ==
    \/ \E v \in Content : Replace(v)
    \/ Sync
    \/ PowerLoss

Spec == Init /\ [][Next]_vars
=============================================================================

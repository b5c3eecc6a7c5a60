--------------------------- MODULE CheckpointStore --------------------------
(***************************************************************************)
(* _save of cuda/search_runner.py, system call by system call: a temporary *)
(* file in the checkpoint's directory is written, synced and renamed over  *)
(* the checkpoint, and the directory is synced; every exit removes the     *)
(* temporary name.  Any call may fail, the process may be killed and the   *)
(* power may go at any point.                                              *)
(*                                                                         *)
(* Callers hold the checkpoint's lock (SearchRunner), so one _save runs at *)
(* a time.                                                                 *)
(*                                                                         *)
(* The file system is external: an inode has the data that readers see and *)
(* the data the disk may hold for it; the checkpoint's name leads to an    *)
(* inode now and, until the directory is synced, to that or an earlier one *)
(* after a power loss.                                                     *)
(***************************************************************************)
EXTENDS FiniteSets

CONSTANTS
    Documents,      \* What callers save.
    Inodes,         \* Files the directory can have.
    NoInode,        \* Where a missing name leads.
    Absent,         \* What a reader finds at a missing name.
    Partial         \* Data cut short: an empty file or part of a document.

ASSUME StoreConstants ==
    /\ NoInode \notin Inodes
    /\ Absent \notin Documents
    /\ Partial \notin Documents
    /\ Absent # Partial

Data == Documents \cup {Partial}

VARIABLES
    data,           \* data[i]: what readers see in the file i.
    disk,           \* disk[i]: what the disk may hold for it.
    entry,          \* Where the checkpoint's name leads.
    kept,           \* Where it may lead after a power loss.
    temp,           \* Where the temporary name of this _save leads.
    litter,         \* A temporary name is left of an earlier _save.
    spared,         \* Some _save was not given the chance to clean up.
    pc,             \* The next step of _save, or how the last one ended.
    document        \* What it saves.

vars == <<data, disk, entry, kept, temp, litter, spared, pc, document>>

Results == {"saved", "failed", "killed"}
Steps == {"write", "sync", "rename", "syncdir", "unlink", "fail"}

(* The locals and the directory are of their types, and a file being       *)
(* written is never one that the checkpoint's name leads to.               *)
TypeOK ==
    /\ data \in [Inodes -> Data]
    /\ disk \in [Inodes -> SUBSET Data]
    /\ entry \in Inodes \cup {NoInode}
    /\ kept \subseteq Inodes \cup {NoInode}
    /\ temp \in Inodes \cup {NoInode}
    /\ litter \in BOOLEAN
    /\ spared \in BOOLEAN
    /\ pc \in Steps \cup Results
    /\ document \in Documents
    /\ temp # NoInode => temp # entry /\ temp \notin kept

Init ==
    /\ data = [i \in Inodes |-> Partial]
    /\ disk = [i \in Inodes |-> {Partial}]
    /\ entry = NoInode
    /\ kept = {NoInode}
    /\ temp = NoInode
    /\ litter = FALSE
    /\ spared = FALSE
    /\ pc = "failed"
    /\ document \in Documents

Running == pc \in Steps

(* A file no name can lead to any more may be used again. *)
Free == {i \in Inodes : i # entry /\ i \notin kept}

-----------------------------------------------------------------------------
(* mkstemp: an empty file under a name of its own. *)
Make(v) ==
    /\ ~ Running
    /\ \E i \in Free :
          /\ temp' = i
          /\ data' = [data EXCEPT ![i] = Partial]
          /\ disk' = [disk EXCEPT ![i] = {Partial}]
    /\ document' = v
    /\ pc' = "write"
    /\ UNCHANGED <<entry, kept, litter, spared>>

(* write and flush: the disk may have taken all of it, or not. *)
Write ==
    /\ pc = "write"
    /\ data' = [data EXCEPT ![temp] = document]
    /\ disk' = [disk EXCEPT ![temp] = @ \cup {document}]
    /\ pc' = "sync"
    /\ UNCHANGED <<entry, kept, temp, litter, spared, document>>

(* Slip: the file renamed before its data is on the disk. *)
Unsynced(held, seen) == held

(* What fsync of a file leaves the disk able to hold for it. *)
Synced(held, seen) == {seen}

SyncFile ==
    /\ pc = "sync"
    /\ disk' = [disk EXCEPT ![temp] = Synced(@, data[temp])]
    /\ pc' = "rename"
    /\ UNCHANGED <<data, entry, kept, temp, litter, spared, document>>

(* os.replace: the temporary name is gone, the checkpoint's leads there. *)
Rename ==
    /\ pc = "rename"
    /\ entry' = temp
    /\ kept' = kept \cup {temp}
    /\ temp' = NoInode
    /\ pc' = "syncdir"
    /\ UNCHANGED <<data, disk, litter, spared, document>>

(* Slip: the directory not synced. *)
Unsettled(old, now) == old

(* Where the name may lead once the directory is synced. *)
Settled(old, now) == {now}

SyncDirectory ==
    /\ pc = "syncdir"
    /\ kept' = Settled(kept, entry)
    /\ pc' = "unlink"
    /\ UNCHANGED <<data, disk, entry, temp, litter, spared, document>>

(* Any call may raise OSError: mkstemp before anything is there, the others *)
(* on the way to the cleanup.  A write may have been cut short.             *)
MakeFails ==
    /\ ~ Running
    /\ pc' = "failed"
    /\ UNCHANGED <<data, disk, entry, kept, temp, litter, spared, document>>

CallFails ==
    /\ pc \in {"write", "sync", "rename", "syncdir"}
    /\ pc' = "fail"
    /\ UNCHANGED <<data, disk, entry, kept, temp, litter, spared, document>>

(* Slip: the temporary file left where a call failed. *)
LeftThere(name) == name

(* "finally: unlink", with the name already gone after a rename: what is   *)
(* left of the temporary name.                                             *)
LeftBy(name) == NoInode

CleanUp ==
    /\ pc \in {"unlink", "fail"}
    /\ litter' = (litter \/ LeftBy(temp) # NoInode)
    /\ temp' = NoInode
    /\ pc' = IF pc = "unlink" THEN "saved" ELSE "failed"
    /\ UNCHANGED <<data, disk, entry, kept, spared, document>>

(* The process ends without its cleanup: SIGKILL, or unlink itself fails. *)
Kill ==
    /\ Running
    /\ litter' = (litter \/ temp # NoInode)
    /\ spared' = TRUE
    /\ temp' = NoInode
    /\ pc' = "killed"
    /\ UNCHANGED <<data, disk, entry, kept, document>>

(* Power is lost: the name leads to an inode it may lead to, and the files *)
(* hold what the disk may hold for them.                                   *)
PowerLoss ==
    /\ \E i \in kept : entry' = i /\ kept' = {i}
    /\ data' \in [Inodes -> Data]
    /\ \A i \in Inodes : data'[i] \in disk[i]
    /\ disk' = [i \in Inodes |-> {data'[i]}]
    /\ temp' = NoInode
    /\ litter' \in {litter, litter \/ temp # NoInode}
    /\ spared' = (spared \/ Running)
    /\ pc' = IF Running THEN "killed" ELSE pc
    /\ UNCHANGED document

Next ==
    \/ \E v \in Documents : Make(v)
    \/ Write \/ SyncFile \/ Rename \/ SyncDirectory \/ CleanUp
    \/ MakeFails \/ CallFails \/ Kill \/ PowerLoss

Spec == Init /\ [][Next]_vars

-----------------------------------------------------------------------------
(* Properties.                                                             *)

Visible == IF entry = NoInode THEN Absent ELSE data[entry]

Held(i) == IF i = NoInode THEN {Absent} ELSE disk[i]

Survivors == UNION {Held(i) : i \in kept}

File == INSTANCE AtomicFile
    WITH Content <- Documents \cup {Absent},
         visible <- Visible,
         survivors <- Survivors

(* The checkpoint is replaced as a whole or not at all: a reader never     *)
(* finds part of a document, before or after a power loss, and a _save     *)
(* that fails before its rename leaves the old document (lines 57-66).     *)
ImplementsFile == File!Spec

(* A document whose _save has returned is what any later session finds,    *)
(* until the next _save puts another in its place: a caller that went on   *)
(* after a batch does not see the batch again.                             *)
SavedSurvives == pc = "saved" => Visible = document /\ Survivors = {document}

(* However a _save ends by itself, its temporary file is gone: only a kill *)
(* or a failing unlink leaves one (lines 69-71).                           *)
NoLitter == litter => spared
=============================================================================

----------------------------- MODULE DecryptFile ----------------------------
(***************************************************************************)
(* decrypt_file of ayaz_decryptor/core.py: several callers that decrypt    *)
(* one source to one output path, while the source may be written to, the  *)
(* output path may be taken or cleared by its user, writes may fail, and   *)
(* processes or the machine may stop anywhere.                             *)
(*                                                                         *)
(* The body is a number of pieces, each of which is deciphered from the    *)
(* version of the source it was read from (BodyTransform says how).  A     *)
(* file is named by the caller that created it.                            *)
(***************************************************************************)
EXTENDS Integers, Sequences, FiniteSets

CONSTANTS
    Callers,
    Pieces,         \* Pieces of the body.
    MaxVersion,     \* Bound: times the source is written to.
    MaxCleared,     \* Bound on cleared.
    Nobody, User    \* No file, and a file of the user's, at the output path.

ASSUME DecryptConstants ==
    /\ Pieces \in Nat \ {0} /\ {MaxVersion, MaxCleared} \subseteq Nat
    /\ Nobody # User /\ {Nobody, User} \cap Callers = {}

VARIABLES
    version,    \* Version of the source's bytes; Right is the original's.
    mtime,      \* st_size and st_mtime_ns of the source.
    unseen,     \* History: the source changed and its mtime did not.
    at,         \* The file at the output path.
    names,      \* All it has been since the last power loss.
    cleared,    \* History: times its user, or a power loss, changed it.
    content,    \* content[f]: the pieces of f, each the version it came from.
    synced,     \* Files whose content fsync has made durable.
    pc,         \* pc[c]
    initial,    \* initial[c]: the source's status when it was opened.
    footer,     \* footer[c][r]: the version that read r of read_footer saw.
    expects     \* expects[c]: expected_sha256 was given.

source == <<version, mtime, unseen>>
output == <<at, names, cleared, content, synced>>
vars == <<source, output, pc, initial, footer, expects>>

Right == 0
Whole(pieces) == Len(pieces) = Pieces

(* read_footer asks for the file's size, its last bytes and, where these   *)
(* say it begins, the metadata.                                            *)
Reads == {"size", "trailer", "metadata"}

AllOf(v, pieces) == \A i \in DOMAIN pieces : pieces[i] = v

Init ==
    /\ version = Right /\ mtime = 0 /\ unseen = FALSE
    /\ at \in {Nobody, User} /\ names = {at} /\ cleared = 0
    /\ content = [c \in Callers |-> <<>>]
    /\ synced = {}
    /\ pc = [c \in Callers |-> "open"]
    /\ initial = [c \in Callers |-> [version |-> Right, mtime |-> 0]]
    /\ footer = [c \in Callers |-> [r \in Reads |-> Right]]
    /\ expects \in [Callers -> BOOLEAN]

Go(c, from, to) ==
    /\ pc[c] = from
    /\ pc' = [pc EXCEPT ![c] = to]

(* The output path now names the file f. *)
Becomes(f) ==
    /\ at' = f
    /\ names' = names \cup {f}

-----------------------------------------------------------------------------
(* A caller.                                                               *)

(* The source is opened and its status taken. *)
Open(c) ==
    /\ Go(c, "open", "size")
    /\ initial' = [initial EXCEPT ![c] = [version |-> version, mtime |-> mtime]]
    /\ UNCHANGED <<source, output, footer, expects>>

ReadFooter(c, r, next) ==
    /\ Go(c, r, next)
    /\ footer' = [footer EXCEPT ![c][r] = version]
    /\ UNCHANGED <<source, output, initial, expects>>

ReadSize(c) == ReadFooter(c, "size", "trailer")
ReadTrailer(c) == ReadFooter(c, "trailer", "metadata")
ReadMetadata(c) == ReadFooter(c, "metadata", "create")

(* No regular file, a bad footer, metadata or name, or a source cut short  *)
(* between two reads, an interrupt: nothing is created.                    *)
Refused(c) ==
    /\ pc[c] \in {"open"} \cup Reads
    /\ Go(c, pc[c], "failed")
    /\ UNCHANGED <<source, output, initial, footer, expects>>

(* O_CREAT | O_EXCL *)
Free == at = Nobody

Create(c) ==
    /\ Go(c, "create", "copy")
    /\ Free
    /\ Becomes(c)
    /\ UNCHANGED <<source, cleared, content, synced, initial, footer, expects>>

(* An interrupt between os.open and the try: the empty file is left. *)
CreateInterrupted(c) ==
    /\ Go(c, "create", "left")
    /\ Free
    /\ Becomes(c)
    /\ UNCHANGED <<source, cleared, content, synced, initial, footer, expects>>

(* Slip: the output is opened within the try. *)
UndoneAnyway == "undo"

(* os.open raises outside the try: there is nothing to undo. *)
NotCreated == "failed"

Taken(c) ==
    /\ Go(c, "create", NotCreated)
    /\ ~ Free
    /\ UNCHANGED <<source, output, initial, footer, expects>>

More(c) == Len(content[c]) < Pieces

(* One piece is read, deciphered and written. *)
Copy(c) ==
    /\ pc[c] = "copy" /\ More(c)
    /\ content' = [content EXCEPT ![c] = Append(@, version)]
    /\ UNCHANGED <<source, at, names, cleared, synced, pc, initial, footer, expects>>

(* Slip: the source's status is not compared. *)
SeenSame(c) == TRUE

Same(c) == initial[c].mtime = mtime

Check(c) ==
    /\ Go(c, "copy", "hash")
    /\ Whole(content[c])
    /\ Same(c)
    /\ UNCHANGED <<source, output, initial, footer, expects>>

Changed(c) ==
    /\ Go(c, "copy", "undo")
    /\ Whole(content[c])
    /\ ~ Same(c)
    /\ UNCHANGED <<source, output, initial, footer, expects>>

(* Slip: the hash given is ignored. *)
AnyHash(c) == TRUE

(* The hash of the result is the expected one, if there is one. *)
Matches(c) == expects[c] => AllOf(Right, content[c])

Compare(c) ==
    /\ Go(c, "hash", "sync")
    /\ Matches(c)
    /\ UNCHANGED <<source, output, initial, footer, expects>>

Mismatch(c) ==
    /\ Go(c, "hash", "undo")
    /\ ~ Matches(c)
    /\ UNCHANGED <<source, output, initial, footer, expects>>

(* Slip: flushed, and not synced. *)
FlushedOnly(c) == synced

Flushed(c) == synced \cup {c}

Sync(c) ==
    /\ Go(c, "sync", "done")
    /\ synced' = Flushed(c)
    /\ UNCHANGED <<source, at, names, cleared, content, initial, footer, expects>>

(* A read, a write, flush or fsync fails, or the caller is interrupted. *)
Fails(c) ==
    /\ pc[c] \in {"copy", "hash", "sync"}
    /\ Go(c, pc[c], "undo")
    /\ UNCHANGED <<source, output, initial, footer, expects>>

(* Slip: what was written of a failed output is kept. *)
Kept == at

Unlinked == Nobody

(* output_path.unlink(): whatever file the path names is removed. *)
Undo(c) ==
    /\ Go(c, "undo", "failed")
    /\ Becomes(Unlinked)
    /\ UNCHANGED <<source, cleared, content, synced, initial, footer, expects>>

(* unlink raises, or an interrupt comes before it: the file is left. *)
UndoFails(c) ==
    /\ Go(c, "undo", "left")
    /\ UNCHANGED <<source, output, initial, footer, expects>>

Caller(c) ==
    \/ Open(c) \/ ReadSize(c) \/ ReadTrailer(c) \/ ReadMetadata(c) \/ Refused(c)
    \/ Create(c) \/ CreateInterrupted(c) \/ Taken(c) \/ Copy(c)
    \/ Check(c) \/ Changed(c) \/ Compare(c) \/ Mismatch(c)
    \/ Sync(c) \/ Fails(c) \/ Undo(c) \/ UndoFails(c)

-----------------------------------------------------------------------------
(* What happens around the callers.                                        *)

Running(c) == pc[c] \notin {"open", "done", "failed", "left", "crashed"}

Crash(c) ==
    /\ Running(c)
    /\ pc' = [pc EXCEPT ![c] = "crashed"]
    /\ UNCHANGED <<source, output, initial, footer, expects>>

(* Every process stops and what was not synced is lost.  The directory     *)
(* never is: of the creations and removals since the last loss of power    *)
(* any number of the latest may be undone, so that the path may name again *)
(* any file that it has named, or none.                                    *)
PowerLoss ==
    /\ pc' = [c \in Callers |-> IF Running(c) THEN "crashed" ELSE pc[c]]
    /\ content' = [c \in Callers |-> IF c \in synced THEN content[c] ELSE <<>>]
    /\ at' \in names /\ names' = {at'}
    /\ IF at' = at
       THEN UNCHANGED cleared
       ELSE cleared < MaxCleared /\ cleared' = cleared + 1
    /\ UNCHANGED <<source, synced, initial, footer, expects>>

(* The source is written to; within one tick of the file system's clock    *)
(* its mtime stays what it was.                                            *)
Modify ==
    /\ version < MaxVersion
    /\ version' = version + 1
    /\ mtime' \in {mtime, mtime + 1}
    /\ unseen' = (unseen \/ mtime' = mtime)
    /\ UNCHANGED <<output, pc, initial, footer, expects>>

(* The user removes what is at the output path. *)
Remove ==
    /\ at # Nobody /\ cleared < MaxCleared
    /\ Becomes(Nobody)
    /\ cleared' = cleared + 1
    /\ UNCHANGED <<source, content, synced, pc, initial, footer, expects>>

Next == (\E c \in Callers : Caller(c) \/ Crash(c)) \/ PowerLoss \/ Modify \/ Remove

Spec == Init /\ [][Next]_vars

-----------------------------------------------------------------------------
(* Properties.                                                             *)

(* With the original's hash, a result is the original whatever was done to *)
(* the source meanwhile, even when no clock shows it, and whatever happens *)
(* to the machine afterwards (lines 193-196).                              *)
HashMeansRight ==
    \A c \in Callers :
        pc[c] = "done" /\ expects[c] => Whole(content[c]) /\ AllOf(Right, content[c])

(* Without a hash, a result is at least of one version of the source, its  *)
(* body and each read that the size of the body and the key come from,     *)
(* unless the source changed within one tick of the clock its mtime is     *)
(* taken from: the status must be taken before the first read and compared *)
(* after the last (lines 41-58, 180, 190-192).                             *)
OneVersion ==
    \A c \in Callers :
        pc[c] = "done" /\ ~ unseen =>
            /\ Whole(content[c]) /\ AllOf(initial[c].version, content[c])
            /\ AllOf(initial[c].version, footer[c])

(* While the user leaves the path alone, no file at it is ever replaced or *)
(* removed by anyone but the caller that created it: a caller that comes   *)
(* second fails and touches nothing (lines 185-186, 197-198).              *)
OthersUntouched ==
    [][\A c \in Callers :
          (pc'[c] # pc[c] /\ pc'[c] # "crashed" /\ at' # at /\ cleared = 0)
              => at' = c \/ at = c]_vars

(* While neither the user nor a loss of power changes the path, a caller   *)
(* that fails has left a file there only if it was kept from removing it   *)
(* (a stop, a failed unlink, an interrupt before the try or before unlink),*)
(* and a finished result stays, whatever other callers do that fail on the *)
(* same path (lines 186-199).                                              *)
PathAccounted ==
    cleared = 0 =>
        \A c \in Callers :
            /\ at = c => pc[c] \in {"copy", "hash", "sync", "undo", "done", "crashed", "left"}
            /\ pc[c] = "done" => at = c
=============================================================================

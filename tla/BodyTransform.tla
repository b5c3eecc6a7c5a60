---------------------------- MODULE BodyTransform ---------------------------
(***************************************************************************)
(* transform_body and _write_all of ayaz_decryptor/core.py: the source is  *)
(* read in pieces, stretches of it are deciphered with one running         *)
(* keystream and the stretches between them are copied, and every piece is *)
(* written however little the target takes at a time.                      *)
(*                                                                         *)
(* A byte of the result is the pair of the position it was read from and   *)
(* the keystream byte it was combined with, Plain for a copied one.        *)
(***************************************************************************)
EXTENDS Integers, Sequences

CONSTANTS
    Block,          \* Bytes of a Salsa20 block: 64.
    Chunk,          \* CHUNK
    IoBuffer,       \* IO_BUFFER
    Counter,        \* Blocks from the state's counter to its overflow.
    Sizes,          \* Bound: sizes of the body.
    Skips, Spans    \* Bound: values of skipped_bytes; of before and after.

ASSUME BodyConstants ==
    /\ {Block, Chunk, IoBuffer} \subseteq Nat \ {0} /\ Counter \in Nat
    /\ Chunk % Block = 0 /\ IoBuffer % Block = 0
    /\ Sizes \subseteq Nat /\ Spans \subseteq Nat
    /\ \A s \in Skips : s \in Nat \ {0} /\ s % Chunk = 0

Plain == -1

VARIABLES
    size, skipped, before, after,   \* The arguments.
    available,      \* Bytes that the source turns out to have.
    at,             \* The source's position.
    pc,             \* "encrypted", "skip": inside the loops; "done", "failed".
    remaining,      \* remaining, before the piece in hand is subtracted.
    stretch,        \* encrypted, or skip, likewise.
    chunks,         \* encrypted_chunks
    blockOffset,    \* block_offset
    piece,          \* The bytes in hand: result, or data.
    written,        \* total of _write_all
    output,         \* What the target has taken.
    digest          \* What was given to the hash.

arguments == <<size, skipped, before, after, available>>
vars == <<arguments, at, pc, remaining, stretch, chunks, blockOffset,
          piece, written, output, digest>>

Least(m, n) == IF m < n THEN m ELSE n

Init ==
    /\ size \in Sizes /\ skipped \in Skips /\ before \in Spans /\ after \in Spans
    /\ available \in {n \in Sizes : n <= size}
    /\ at = 0
    /\ pc = "encrypted"
    /\ remaining = size
    /\ chunks = before + 1
    /\ stretch = Least(chunks * Chunk, size)
    /\ blockOffset = 0
    /\ piece = <<>> /\ written = 0
    /\ output = <<>> /\ digest = <<>>

Blocks(length) == (length + Block - 1) \div Block

(* Slip: every stretch starts the keystream again. *)
OffsetOfStretch(offset) == 0

(* block_offset is kept for the next stretch. *)
OffsetAfter(offset) == offset

Keyed(from, length, offset) ==
    [i \in 1 .. length |-> <<from + i - 1, offset * Block + i - 1>>]

Copied(from, length) == [i \in 1 .. length |-> <<from + i - 1, Plain>>]

Idle == piece = <<>>

Fail ==
    /\ pc' = "failed"
    /\ UNCHANGED <<arguments, at, remaining, stretch, chunks, blockOffset,
                   piece, written, output, digest>>

(* One read of the stretch, and its keystream. *)
Encrypted ==
    /\ pc = "encrypted" /\ Idle /\ stretch > 0
    /\ LET length == Least(IoBuffer, stretch)
       IN /\ at + length <= available
          /\ blockOffset + Blocks(length) <= Counter
          /\ piece' = Keyed(at, length, blockOffset)
          /\ at' = at + length
          /\ blockOffset' = blockOffset + Blocks(length)
    /\ UNCHANGED <<arguments, pc, remaining, stretch, chunks, written, output, digest>>

Skip ==
    /\ pc = "skip" /\ Idle /\ stretch > 0
    /\ LET length == Least(IoBuffer, stretch)
       IN /\ at + length <= available
          /\ piece' = Copied(at, length)
          /\ at' = at + length
    /\ UNCHANGED <<arguments, pc, remaining, stretch, chunks, blockOffset,
                   written, output, digest>>

(* The source is shorter than its footer said. *)
Truncated ==
    /\ pc \in {"encrypted", "skip"} /\ Idle /\ stretch > 0
    /\ at + Least(IoBuffer, stretch) > available
    /\ Fail

(* The counter of the state would overflow. *)
CounterEnds ==
    /\ pc = "encrypted" /\ Idle /\ stretch > 0
    /\ blockOffset + Blocks(Least(IoBuffer, stretch)) > Counter
    /\ Fail

(* view[total:] *)
Unwritten(total) == SubSeq(piece, total + 1, Len(piece))

(* The target takes the next n bytes of the piece, not yet all. *)
WritePart(n) ==
    /\ ~ Idle
    /\ n < Len(piece) - written
    /\ output' = output \o SubSeq(Unwritten(written), 1, n)
    /\ written' = written + n
    /\ UNCHANGED <<arguments, at, pc, remaining, stretch, chunks, blockOffset,
                   piece, digest>>

Hashed == piece

(* The target takes the rest: the piece is hashed and counted. *)
WriteRest ==
    /\ ~ Idle
    /\ output' = output \o Unwritten(written)
    /\ digest' = digest \o Hashed
    /\ remaining' = remaining - Len(piece)
    /\ stretch' = stretch - Len(piece)
    /\ piece' = <<>> /\ written' = 0
    /\ UNCHANGED <<arguments, at, pc, chunks, blockOffset>>

(* write returns nothing, or a number that cannot be. *)
WriteFails == ~ Idle /\ pc # "failed" /\ Fail

StretchOver == Idle /\ stretch = 0

Gap == Least(skipped, remaining)

ToSkip ==
    /\ pc = "encrypted" /\ StretchOver /\ size > 0
    /\ stretch' = Gap
    /\ pc' = "skip"
    /\ UNCHANGED <<arguments, at, remaining, chunks, blockOffset, piece, written, output, digest>>

ToEncrypted ==
    /\ pc = "skip" /\ StretchOver /\ remaining > 0
    /\ chunks' = after + 1
    /\ stretch' = Least(chunks' * Chunk, remaining)
    /\ blockOffset' = OffsetAfter(blockOffset)
    /\ pc' = "encrypted"
    /\ UNCHANGED <<arguments, at, remaining, piece, written, output, digest>>

Done ==
    /\ StretchOver /\ remaining = 0
    /\ pc = "skip" \/ (pc = "encrypted" /\ size = 0)
    /\ pc' = "done"
    /\ UNCHANGED <<arguments, at, remaining, stretch, chunks, blockOffset,
                   piece, written, output, digest>>

Write == (\E n \in 1 .. Len(piece) - written - 1 : WritePart(n)) \/ WriteRest

Next ==
    \/ Encrypted \/ Skip \/ Truncated \/ CounterEnds
    \/ (pc # "failed" /\ Write) \/ WriteFails
    \/ ToSkip \/ ToEncrypted \/ Done

Spec == Init /\ [][Next]_vars

-----------------------------------------------------------------------------
(* What the format says (docs/FORMATS.md): before + 1 chunks are encrypted,*)
(* then skipped bytes are not and after + 1 chunks are, in turn, with one  *)
(* keystream that only the encrypted bytes use up.                         *)

FirstSpan == (before + 1) * Chunk
NextSpan == (after + 1) * Chunk

Deciphered(p) ==
    IF p < FirstSpan
    THEN <<p, p>>
    ELSE LET period == skipped + NextSpan
             turn   == (p - FirstSpan) \div period
             offset == (p - FirstSpan) % period
         IN <<p, IF offset < skipped
                 THEN Plain
                 ELSE FirstSpan + turn * NextSpan + offset - skipped>>

(* At every moment the target holds the start of the right result: every   *)
(* byte in its place, combined with its own keystream byte or copied,      *)
(* wherever reads and writes were cut; the hash is of what the target got, *)
(* all of it when the function returns (lines 137-164).                    *)
OutputIsDeciphered ==
    /\ \A i \in DOMAIN output : output[i] = Deciphered(i - 1)
    /\ digest = SubSeq(output, 1, Len(digest))
    /\ pc = "done" => Len(digest) = size /\ Len(output) = size
=============================================================================

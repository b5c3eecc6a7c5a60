------------------------------- MODULE ApLib --------------------------------
(***************************************************************************)
(* aplib_decompress of ayaz_decryptor/crypto.py with its _BitReader: one   *)
(* raw aPLib stream, in which tag bits and whole bytes alternate as they   *)
(* are needed, unpacked with a limit on the result.                        *)
(*                                                                         *)
(* A step reads one bit or one byte, or copies one byte.  Sizes are scaled:*)
(* a byte holds ByteBits bits, and the offsets from which a match is one   *)
(* or two bytes longer or shorter than its length says are constants.  An  *)
(* APLibError is the state "error", whichever its wording.                 *)
(***************************************************************************)
EXTENDS ApLibText

CONSTANT Streams    \* What may be given to aplib_decompress, see Stream.

(* A stream, the limit it is unpacked with, and what is known of it: it is *)
(* "genuine", the compressed form of a text with or without something      *)
(* after its end; "cut" off somewhere before its end; or "arbitrary" bytes. *)
(* What it says is beside it for the properties: nothing below reads it.   *)
Stream(s) ==
    /\ s.data \in Seq(Data)
    /\ s.limit \in Nat \ {0}
    /\ s.kind \in {"genuine", "cut", "arbitrary"}
    /\ s.kind # "arbitrary" =>
          /\ Says(s.said)
          /\ \A k \in DOMAIN s.data \cap DOMAIN s.said.code : s.data[k] = s.said.code[k]
          /\ s.kind = "genuine" <=> Len(s.data) >= Len(s.said.code)

ASSUME StreamsTyped == \A s \in Streams : Stream(s)

VARIABLES
    stream,         \* data, max_output.
    position, tag, bitsLeft, \* The _BitReader's.
    output,
    previous,       \* previous_offset
    lastMatch,      \* last_was_match
    pc,             \* What is read next, see below.
    use,            \* What the number that is read is for.
    value,          \* The number so far: gamma's value, or a single's offset.
    offset,         \* Of the match: its high part, then all of it.
    remaining       \* Bits of a single's offset, or bytes of a copy, to come.

reader == <<position, tag, bitsLeft>>
vars == <<stream, reader, output, previous, lastMatch, pc, use, value, offset, remaining>>

(* The next thing the decoder needs from the reader, or that it copies.    *)
BitPCs == {"token", "second", "third", "digit", "more", "single"}
BytePCs == {"first", "literal", "low", "short"}
PCs == BitPCs \cup BytePCs \cup {"copy", "done", "error"}

-----------------------------------------------------------------------------
(* The reader.                                                             *)

HasByte == position < Len(stream.data)
NextByte == stream.data[position + 1]

TakeByte == HasByte /\ position' = position + 1 /\ UNCHANGED <<tag, bitsLeft>>

(* A tag byte is fetched when a bit is needed, not when the last is spent. *)
HasBit == bitsLeft > 0 \/ HasByte
Tag == IF bitsLeft = 0 THEN NextByte ELSE tag
BitsLeft == (IF bitsLeft = 0 THEN ByteBits ELSE bitsLeft) - 1
Bit == IF (Tag \div 2 ^ BitsLeft) % 2 = 1 THEN 1 ELSE 0

TakeBit ==
    /\ HasBit
    /\ position' = IF bitsLeft = 0 THEN position + 1 ELSE position
    /\ tag' = Tag
    /\ bitsLeft' = BitsLeft

GammaLimit == stream.limit + 3

-----------------------------------------------------------------------------
(* Output.                                                                 *)

Room == stream.limit - Len(output)

(* Slip: the length of a match not compared with the room. *)
FitsSomehow(n) == Room > 0

Fits(n) == n <= Room

Reaches(o) == 1 <= o /\ o <= Len(output)

(* append_byte *)
AppendByte(v) ==
    /\ Fits(1)
    /\ output' = Append(output, v)
    /\ lastMatch' = FALSE
    /\ pc' = "token"

(* copy_match, up to its loop. *)
CopyMatch(o, n) ==
    /\ Reaches(o) /\ Fits(n)
    /\ offset' = o /\ remaining' = n
    /\ pc' = "copy"

(* Slip: the limits of the offsets excluded. *)
ExtraBeyond(o) ==
    (IF o > Distant THEN 1 ELSE 0) + (IF o > Middle THEN 1 ELSE 0)
        + (IF o < Near THEN 2 ELSE 0)

(* What the length of a match leaves out. *)
Extra(o) ==
    (IF o >= Distant THEN 1 ELSE 0) + (IF o >= Middle THEN 1 ELSE 0)
        + (IF o < Near THEN 2 ELSE 0)

(* What the offset of a match is more than its number says. *)
Bias == IF lastMatch THEN 2 ELSE 3

(* A number 2 after a byte: the offset of the match before. *)
Again == ~ lastMatch /\ value = 2

-----------------------------------------------------------------------------
Init ==
    /\ stream \in Streams
    /\ position = 0 /\ tag = 0 /\ bitsLeft = 0
    /\ output = <<>> /\ previous = 0 /\ lastMatch = FALSE
    /\ pc = "first"
    /\ use = "offset" /\ value = 1 /\ offset = 0 /\ remaining = 0

At(l) == pc = l /\ UNCHANGED stream

First ==
    /\ At("first") /\ TakeByte
    /\ output' = <<NextByte>>
    /\ pc' = "token"
    /\ UNCHANGED <<previous, lastMatch, use, value, offset, remaining>>

(* gamma() begins. *)
ReadNumber(for) == pc' = "digit" /\ use' = for /\ value' = 1

Token ==
    /\ At("token") /\ TakeBit
    /\ pc' = IF Bit = 0 THEN "literal" ELSE "second"
    /\ UNCHANGED <<output, previous, lastMatch, use, value, offset, remaining>>

Second ==
    /\ At("second") /\ TakeBit
    /\ IF Bit = 0 THEN ReadNumber("offset") ELSE pc' = "third" /\ UNCHANGED <<use, value>>
    /\ UNCHANGED <<output, previous, lastMatch, offset, remaining>>

Third ==
    /\ At("third") /\ TakeBit
    /\ pc' = IF Bit = 0 THEN "short" ELSE "single"
    /\ value' = 0 /\ remaining' = SingleBits
    /\ UNCHANGED <<output, previous, lastMatch, use, offset>>

Literal ==
    /\ At("literal") /\ TakeByte
    /\ AppendByte(NextByte)
    /\ UNCHANGED <<previous, use, value, offset, remaining>>

(* gamma(): a digit, and whether another follows. *)
Digit ==
    /\ At("digit") /\ TakeBit
    /\ 2 * value + Bit <= GammaLimit
    /\ value' = 2 * value + Bit
    /\ pc' = "more"
    /\ UNCHANGED <<output, previous, lastMatch, use, offset, remaining>>

More ==
    /\ At("more") /\ TakeBit /\ Bit = 1
    /\ pc' = "digit"
    /\ UNCHANGED <<output, previous, lastMatch, use, value, offset, remaining>>

NumberOf(for) == At("more") /\ use = for /\ TakeBit /\ Bit = 0

MatchAgain ==
    /\ NumberOf("offset") /\ Again
    /\ offset' = previous
    /\ ReadNumber("again")
    /\ UNCHANGED <<output, previous, lastMatch, remaining>>

HighPart ==
    /\ NumberOf("offset") /\ ~ Again
    /\ value >= Bias
    /\ offset' = value - Bias
    /\ pc' = "low"
    /\ UNCHANGED <<output, previous, lastMatch, use, value, remaining>>

LowPart ==
    /\ At("low") /\ TakeByte
    /\ offset' = offset * Byte + NextByte
    /\ ReadNumber("length")
    /\ UNCHANGED <<output, previous, lastMatch, remaining>>

MatchedFrom(o) == previous' = o /\ lastMatch' = TRUE

Match ==
    /\ NumberOf("length")
    /\ CopyMatch(offset, value + Extra(offset))
    /\ MatchedFrom(offset)
    /\ UNCHANGED <<output, use, value>>

MatchOfAgain ==
    /\ NumberOf("again")
    /\ CopyMatch(offset, value)
    /\ MatchedFrom(offset)
    /\ UNCHANGED <<output, use, value>>

ShortMatch ==
    /\ At("short") /\ TakeByte
    /\ NextByte \div 2 # 0
    /\ CopyMatch(NextByte \div 2, 2 + (NextByte % 2))
    /\ MatchedFrom(NextByte \div 2)
    /\ UNCHANGED <<output, use, value>>

End ==
    /\ At("short") /\ TakeByte
    /\ NextByte \div 2 = 0
    /\ pc' = "done"
    /\ UNCHANGED <<output, previous, lastMatch, use, value, offset, remaining>>

SingleBit ==
    /\ At("single") /\ TakeBit /\ remaining > 1
    /\ value' = 2 * value + Bit
    /\ remaining' = remaining - 1
    /\ UNCHANGED <<output, previous, lastMatch, pc, use, offset>>

(* The last bit of a single's offset: a byte from there, or a 0. *)
Single ==
    /\ At("single") /\ TakeBit /\ remaining = 1
    /\ IF 2 * value + Bit = 0
       THEN AppendByte(0) /\ UNCHANGED <<offset, remaining>>
       ELSE CopyMatch(2 * value + Bit, 1) /\ lastMatch' = FALSE /\ UNCHANGED output
    /\ UNCHANGED <<previous, use, value>>

(* A match may reach into what it is itself writing. *)
CopyByte ==
    /\ At("copy")
    /\ output' = Append(output, output[Len(output) - offset + 1])
    /\ remaining' = remaining - 1
    /\ pc' = IF remaining = 1 THEN "token" ELSE "copy"
    /\ UNCHANGED <<reader, previous, lastMatch, use, value, offset>>

-----------------------------------------------------------------------------
(* An APLibError: the data end, a number is too large, a match reaches     *)
(* behind the start of the result or beyond its limit.                     *)

Cannot(o, n) == ~ (Reaches(o) /\ Fits(n))

Malformed ==
    \/ pc \in BytePCs /\ ~ HasByte
    \/ pc \in BitPCs /\ ~ HasBit
    \/ pc = "literal" /\ ~ Fits(1)
    \/ pc = "digit" /\ HasBit /\ 2 * value + Bit > GammaLimit
    \/ pc = "more" /\ HasBit /\ Bit = 0 /\
          \/ use = "offset" /\ ~ Again /\ value < Bias
          \/ use = "length" /\ Cannot(offset, value + Extra(offset))
          \/ use = "again" /\ Cannot(offset, value)
    \/ pc = "short" /\ HasByte /\ NextByte \div 2 # 0
          /\ Cannot(NextByte \div 2, 2 + (NextByte % 2))
    \/ pc = "single" /\ HasBit /\ remaining = 1 /\
          IF 2 * value + Bit = 0 THEN ~ Fits(1) ELSE Cannot(2 * value + Bit, 1)

Raise ==
    /\ Malformed
    /\ pc' = "error"
    /\ UNCHANGED <<stream, reader, output, previous, lastMatch, use, value, offset, remaining>>

Returned == pc \in {"done", "error"} /\ UNCHANGED vars

Next ==
    \/ First \/ Token \/ Second \/ Third \/ Literal \/ Digit \/ More
    \/ MatchAgain \/ HighPart \/ LowPart \/ Match \/ MatchOfAgain
    \/ ShortMatch \/ End \/ SingleBit \/ Single \/ CopyByte
    \/ Raise \/ Returned

Spec == Init /\ [][Next]_vars

-----------------------------------------------------------------------------
(* Properties.                                                             *)

(* Whatever the bytes, the result never outgrows its limit, not even by a  *)
(* match that is still being copied, and no match reads a byte before the  *)
(* start of the result (lines 141-153): in Python output[-offset] would be *)
(* its first byte for an offset of 0, and beyond the start an IndexError,  *)
(* which is not the APLibError that callers are told of.                   *)
WithinLimit ==
    /\ Len(output) <= stream.limit
    /\ pc = "copy" => remaining <= Room /\ Reaches(offset)

(* A compressed text unpacks to itself whatever its tokens, refusing it    *)
(* only for a limit below its size; what follows its end is not looked at; *)
(* and a stream that is cut off anywhere is refused (lines 155-195).       *)
Unpacks ==
    /\ pc = "done" /\ stream.kind # "arbitrary" =>
          stream.kind = "genuine" /\ output = stream.said.plain
    /\ pc = "error" /\ stream.kind = "genuine" => Len(stream.said.plain) > stream.limit
=============================================================================
